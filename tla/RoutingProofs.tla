---------------------------- MODULE RoutingProofs ----------------------------
(***************************************************************************)
(* Proofs about Routing, for any players, tunnels, kinds of message and    *)
(* number of messages and lost connections.                                *)
(***************************************************************************)
EXTENDS Routing, TLAPS

-----------------------------------------------------------------------------
(* sync_tunnels with one tunnel, or none.                                  *)
Both(O, I) == [outlets |-> O, inlets |-> I]

(* The proxies a host has of its own for a tunnel.                         *)
EndsOf(h, t) ==
  Both(IF WantsOutlet(h, t) THEN {NewOutlet(t)} ELSE {},
       IF WantsInlet(h, t) /\ KnownKind(t) THEN {NewInlet(t)} ELSE {})

LEMMA Trimmed ==
  ASSUME NEW h, NEW list, NEW O, NEW I
  PROVE  RemoveInlets(h, list, RemoveOutlets(h, list, Both(O, I)))
           = Both({o \in O : RetainOutlet(h, list, o)}, {i \in I : RetainInlet(h, list, i)})
<1> DEFINE kept == {o \in O : RetainOutlet(h, list, o)}
           left == {i \in I : RetainInlet(h, list, i)}
<1>0. Both(O, I).outlets = O /\ Both(kept, I).inlets = I
  BY DEF Both
<1>1. RemoveOutlets(h, list, Both(O, I)) = [Both(O, I) EXCEPT !.outlets = kept]
  BY <1>0 DEF RemoveOutlets
<1> HIDE DEF kept
<1>2. [Both(O, I) EXCEPT !.outlets = kept] = Both(kept, I)
  BY DEF Both
<1>3. RemoveInlets(h, list, Both(kept, I)) = [Both(kept, I) EXCEPT !.inlets = left]
  BY <1>0 DEF RemoveInlets
<1> HIDE DEF left
<1>4. [Both(kept, I) EXCEPT !.inlets = left] = Both(kept, left)
  BY DEF Both
<1> QED
  BY <1>1, <1>2, <1>3, <1>4 DEF kept, left

LEMMA OutletsAdded ==
  ASSUME NEW h, NEW list, NEW O, NEW I
  PROVE  AddOutlets(h, list, Both(O, I))
           = Both(O \cup {NewOutlet(t) : t \in {u \in list : WantsOutlet(h, u) /\ Lacks(O, u)}}, I)
<1> DEFINE more == O \cup {NewOutlet(t) : t \in {u \in list : WantsOutlet(h, u) /\ Lacks(O, u)}}
<1>0. Both(O, I).outlets = O
  BY DEF Both
<1>1. AddOutlets(h, list, Both(O, I)) = [Both(O, I) EXCEPT !.outlets = more]
  BY <1>0 DEF AddOutlets
<1> HIDE DEF more
<1>2. [Both(O, I) EXCEPT !.outlets = more] = Both(more, I)
  BY DEF Both
<1> QED
  BY <1>1, <1>2 DEF more

Missing(h, list, I) ==
  {t \in list : WantsInlet(h, t) /\ Lacks(I, t) /\ KnownKind(t)}
Free(h, list, I) ==
  {t \in Missing(h, list, I) : ~ \E i \in I : i.port = t.port}
Start(free, S) ==
  \A t \in free : \E u \in S :
    u.port = t.port /\ \A v \in S : v.port = t.port => v = u
Choices(free) == {R \in SUBSET free : Start(free, R)}
With(O, I, S) == Both(O, I \cup {NewInlet(t) : t \in S})

LEMMA InletsAdded ==
  ASSUME NEW h, NEW list, NEW O, NEW I
  PROVE  AddInlets(h, list, Both(O, I))
           = {With(O, I, S) : S \in Choices(Free(h, list, I))}
<1>0. Both(O, I).inlets = I
  BY DEF Both
<1>1. AddInlets(h, list, Both(O, I))
        = {[Both(O, I) EXCEPT !.inlets = @ \cup {NewInlet(t) : t \in S}] :
             S \in Choices(Free(h, list, I))}
  BY <1>0 DEF AddInlets, Free, Missing, Start, Choices
<1>2. ASSUME NEW S
      PROVE  [Both(O, I) EXCEPT !.inlets = @ \cup {NewInlet(t) : t \in S}]
               = With(O, I, S)
  <2> DEFINE more == I \cup {NewInlet(t) : t \in S}
  <2>1. [Both(O, I) EXCEPT !.inlets = @ \cup {NewInlet(t) : t \in S}]
          = [Both(O, I) EXCEPT !.inlets = more]
    BY <1>0
  <2> HIDE DEF more
  <2>2. [Both(O, I) EXCEPT !.inlets = more] = Both(O, more)
    BY DEF Both
  <2> QED
    BY <2>1, <2>2 DEF more, With
<1> QED
  BY <1>1, <1>2

(* What is left of the proxies, with what is missing of them.              *)
KeptOutlets(h, list, O) == {x \in O : RetainOutlet(h, list, x)}
KeptInlets(h, list, I) == {x \in I : RetainInlet(h, list, x)}
MoreOutlets(h, list, O) ==
  O \cup {NewOutlet(t) : t \in {u \in list : WantsOutlet(h, u) /\ Lacks(O, u)}}
Topped(h, list, O, I) == With(MoreOutlets(h, list, O), I, Free(h, list, I))

(* A list of at most one tunnel has one outcome.                           *)
LEMMA SyncedIs ==
  ASSUME NEW h, NEW t, NEW list, list = {} \/ list = {t}, NEW O, NEW I
  PROVE  Synced(h, list, Both(O, I))
           = Topped(h, list, KeptOutlets(h, list, O), KeptInlets(h, list, I))
<1> DEFINE o == KeptOutlets(h, list, O)
           i == KeptInlets(h, list, I)
           more == MoreOutlets(h, list, o)
           free == Free(h, list, i)
<1>1. RemoveInlets(h, list, RemoveOutlets(h, list, Both(O, I))) = Both(o, i)
  BY Trimmed DEF KeptOutlets, KeptInlets
<1> HIDE DEF o, i
<1>2. AddOutlets(h, list, Both(o, i)) = Both(more, i)
  BY OutletsAdded DEF MoreOutlets
<1> HIDE DEF more
<1>3. AddInlets(h, list, Both(more, i)) = {With(more, i, S) : S \in Choices(free)}
  BY InletsAdded
<1>4. free \in {{}, {t}}
  BY DEF Free, Missing
<1> HIDE DEF free
<1>5. Choices(free) = {free}
  <2>1. Start(free, free)
    BY <1>4 DEF Start
  <2>2. ASSUME NEW R \in SUBSET free, Start(free, R)
        PROVE  R = free
    BY <1>4, <2>2 DEF Start
  <2> QED
    BY <2>1, <2>2 DEF Choices
<1>6. sync_tunnels(h, list, Both(O, I)) = {With(more, i, free)}
  <2>1. AddInlets(h, list, Both(more, i)) = {With(more, i, free)}
    BY <1>3, <1>5
  <2> QED
    BY <1>1, <1>2, <2>1 DEF sync_tunnels
<1> QED
  BY <1>6 DEF Synced, Topped, o, i, more, free

(* A host without proxies starts those of its tunnel.                      *)
LEMMA SyncedFresh ==
  ASSUME NEW h, NEW t
  PROVE  Synced(h, {t}, NoProxies) = EndsOf(h, t)
<1>1. NoProxies = Both({}, {})
  BY DEF NoProxies, Both
<1>2. MoreOutlets(h, {t}, {}) = IF WantsOutlet(h, t) THEN {NewOutlet(t)} ELSE {}
  BY DEF MoreOutlets, Lacks
<1>3. Free(h, {t}, {}) = IF WantsInlet(h, t) /\ KnownKind(t) THEN {t} ELSE {}
  BY DEF Free, Missing, Lacks
<1>4. {} \cup {NewInlet(x) : x \in Free(h, {t}, {})}
        = IF WantsInlet(h, t) /\ KnownKind(t) THEN {NewInlet(t)} ELSE {}
  BY <1>3
<1>5. KeptOutlets(h, {t}, {}) = {} /\ KeptInlets(h, {t}, {}) = {}
  BY DEF KeptOutlets, KeptInlets
<1>6. Synced(h, {t}, Both({}, {})) = Topped(h, {t}, {}, {})
  <2>1. Synced(h, {t}, Both({}, {}))
          = Topped(h, {t}, KeptOutlets(h, {t}, {}), KeptInlets(h, {t}, {}))
    BY SyncedIs
  <2> QED
    BY <2>1, <1>5
<1> QED
  BY <1>1, <1>2, <1>4, <1>6 DEF EndsOf, Topped, With

LEMMA SyncedNothing ==
  ASSUME NEW h
  PROVE  Synced(h, {}, NoProxies) = NoProxies
<1>1. NoProxies = Both({}, {})
  BY DEF NoProxies, Both
<1>2. MoreOutlets(h, {}, {}) = {}
  BY DEF MoreOutlets
<1>3. {} \cup {NewInlet(x) : x \in Free(h, {}, {})} = {}
  BY DEF Free, Missing
<1>5. KeptOutlets(h, {}, {}) = {} /\ KeptInlets(h, {}, {}) = {}
  BY DEF KeptOutlets, KeptInlets
<1>6. Synced(h, {}, Both({}, {})) = Topped(h, {}, {}, {})
  <2>1. Synced(h, {}, Both({}, {}))
          = Topped(h, {}, KeptOutlets(h, {}, {}), KeptInlets(h, {}, {}))
    BY SyncedIs
  <2> QED
    BY <2>1, <1>5
<1> QED
  BY <1>1, <1>2, <1>3, <1>6 DEF Topped, With

-----------------------------------------------------------------------------
(* The types of all the state, whatever is updated.                        *)
AllKinds == I2o \cup O2i
Msgs == [id : Nat, kind : AllKinds]
TunnelIds == {t.id : t \in Tunnels}
Bodies == {{}} \cup {{t} : t \in Tunnels}
Pbs == [type : {"Generic"} \X AllKinds, tunnel_id : TunnelIds, body : Nat]
Ntfs == [type : {<<"ServerClient", "ModifyTunnelNtf">>}, tunnel_id : TunnelIds, body : Bodies]
Notes == [to : Players, ntf : Ntfs]
Ends == [outlets : SUBSET {NewOutlet(t) : t \in Tunnels},
         inlets : SUBSET {NewInlet(t) : t \in Tunnels}]
Hands == [pc : {"check", "push", "answer"}, msg : Msgs, from : Hosts, to : Players]

Typed ==
  /\ tunnel \in Tunnels
  /\ copy \in [Players -> Bodies]
  /\ proxies \in [Hosts -> Ends]
  /\ update \in [pc : {"rest", "tell", "store", "sync"}, new : Tunnels, tell : Seq(Notes)]
  /\ online \subseteq Players
  /\ down \in [Players -> Seq(Pbs \cup Ntfs)]
  /\ up \in [Players -> Seq(Pbs)]
  /\ hand \in [Hosts -> Hands \cup {Idle}]
  /\ emitted \in 0 .. MaxMessages
  /\ updates \in Nat
  /\ leaves \in Nat

LEMMA EndsAreEnds ==
  ASSUME NEW h \in Hosts, NEW e \in Ends, NEW body \in Bodies
  PROVE  Synced(h, body, e) \in Ends
<1> PICK O, I : e = Both(O, I) /\ O \subseteq {NewOutlet(t) : t \in Tunnels}
                               /\ I \subseteq {NewInlet(t) : t \in Tunnels}
  <2>1. e = Both(e.outlets, e.inlets)
    BY DEF Ends, Both
  <2> QED
    BY <2>1 DEF Ends
<1>1. PICK t : body = {} \/ body = {t}
  BY DEF Bodies
<1> DEFINE o == KeptOutlets(h, body, O)
           i == KeptInlets(h, body, I)
<1>2. Synced(h, body, Both(O, I)) = Topped(h, body, o, i)
  BY <1>1, SyncedIs
<1>3. o \subseteq {NewOutlet(x) : x \in Tunnels} /\ i \subseteq {NewInlet(x) : x \in Tunnels}
  BY DEF KeptOutlets, KeptInlets
<1> HIDE DEF o, i
<1>4. body \subseteq Tunnels
  BY DEF Bodies
<1>5. MoreOutlets(h, body, o) \subseteq {NewOutlet(x) : x \in Tunnels}
  BY <1>3, <1>4 DEF MoreOutlets
<1>6. i \cup {NewInlet(x) : x \in Free(h, body, i)} \subseteq {NewInlet(x) : x \in Tunnels}
  BY <1>3, <1>4 DEF Free, Missing
<1>7. Topped(h, body, o, i) \in Ends
  BY <1>5, <1>6 DEF Topped, With, Both, Ends
<1> QED
  BY <1>2, <1>7

LEMMA NoEnds == NoProxies \in Ends
  BY DEF NoProxies, Ends

LEMMA ListsAreBodies ==
  ASSUME NEW p, NEW t \in Tunnels
  PROVE  Lists(p, t) \in Bodies
  BY DEF Lists, Bodies

LEMMA EndsLead ==
  ASSUME ConstantsOK, NEW e \in Ends
  PROVE  \A x \in e.outlets \cup e.inlets : x.to \in Hosts
<1>1. \A t \in Tunnels : NewOutlet(t).to \in Hosts /\ NewInlet(t).to \in Hosts
  BY DEF ConstantsOK, NewOutlet, NewInlet
<1> QED
  BY <1>1 DEF Ends

LEMMA ToTyped ==
  ASSUME ConstantsOK, NEW t \in Tunnels, NEW m
  PROVE  To(t, m) \in Hosts /\ From(t, m) \in Hosts
  BY DEF ConstantsOK, To, From

LEMMA PbTyped ==
  ASSUME NEW m \in Msgs, NEW t \in Tunnels
  PROVE  proxy_message_2_pb(m, t.id) \in Pbs
  BY DEF Msgs, Pbs, TunnelIds, proxy_message_2_pb

LEMMA MsgTyped ==
  ASSUME NEW pb \in Pbs
  PROVE  pb_2_proxy_message(pb) \in Msgs /\ is_proxy_pb(pb)
<1>1. pb.type \in {"Generic"} \X AllKinds /\ pb.body \in Nat
  BY DEF Pbs
<1>2. pb.type[1] = "Generic" /\ pb.type[2] \in AllKinds
  BY <1>1
<1> QED
  BY <1>1, <1>2 DEF pb_2_proxy_message, Msg, Msgs, is_proxy_pb

LEMMA NtfTyped ==
  ASSUME NEW pb \in Ntfs
  PROVE  pb.body \in Bodies /\ ~ is_proxy_pb(pb)
<1>1. pb.type = <<"ServerClient", "ModifyTunnelNtf">> /\ pb.body \in Bodies
  BY DEF Ntfs
<1> QED
  BY <1>1 DEF is_proxy_pb

LEMMA NoticesTyped ==
  ASSUME ConstantsOK, NEW old \in Tunnels, NEW new \in Tunnels
  PROVE  Notices(old, new) \in Seq(Notes)
<1> DEFINE Says(cond, p, gone) == IF cond /\ p # 0
                                    THEN <<[to |-> p, ntf |-> ModifyTunnelNtf(new, gone)]>>
                                    ELSE <<>>
<1>1. ASSUME NEW cond, NEW p \in Hosts, NEW gone
      PROVE  Says(cond, p, gone) \in Seq(Notes)
  <2>1. ModifyTunnelNtf(new, gone) \in Ntfs
    BY DEF ModifyTunnelNtf, Ntfs, TunnelIds, Bodies
  <2>2. p # 0 => [to |-> p, ntf |-> ModifyTunnelNtf(new, gone)] \in Notes
    BY <2>1 DEF Notes, Hosts
  <2> HIDE DEF Notes
  <2> QED
    BY <2>2
<1>2. {old.sender, old.receiver, new.sender, new.receiver} \subseteq Hosts
  BY DEF ConstantsOK
<1> DEFINE a == Says(old.sender # new.sender, old.sender, TRUE)
           b == Says(old.receiver # new.sender, old.receiver, TRUE)
           c == Says(TRUE, new.sender, FALSE)
           d == Says(new.sender # new.receiver, new.receiver, FALSE)
<1>3. Notices(old, new) = a \o b \o c \o d
  BY DEF Notices
<1> HIDE DEF Says
<1>4. a \in Seq(Notes) /\ b \in Seq(Notes) /\ c \in Seq(Notes) /\ d \in Seq(Notes)
  BY <1>1, <1>2, Zenon
<1> HIDE DEF a, b, c, d
<1> QED
  BY <1>3, <1>4

LEMMA InitTyped == ASSUME ConstantsOK PROVE Init => Typed
<1> SUFFICES ASSUME Init PROVE Typed
  OBVIOUS
<1> USE DEF Init
<1>1. copy \in [Players -> Bodies]
  BY ListsAreBodies
<1>2. proxies \in [Hosts -> Ends]
  <2>1. {tunnel} \in Bodies
    BY DEF Bodies
  <2> QED
    BY <2>1, EndsAreEnds, NoEnds
<1>3. update \in [pc : {"rest", "tell", "store", "sync"}, new : Tunnels, tell : Seq(Notes)]
  BY DEF AtRest
<1>4. /\ down \in [Players -> Seq(Pbs \cup Ntfs)]
      /\ up \in [Players -> Seq(Pbs)]
      /\ hand \in [Hosts -> Hands \cup {Idle}]
  OBVIOUS
<1>5. emitted \in 0 .. MaxMessages
  BY DEF ConstantsOK
<1> QED
  BY <1>1, <1>2, <1>3, <1>4, <1>5 DEF Typed

(* What is pushed to one player.                                           *)
LEMMA PushedTyped ==
  ASSUME Typed, NEW p \in Players, NEW pb \in Pbs \cup Ntfs
  PROVE  Pushed(p, pb) \in [Players -> Seq(Pbs \cup Ntfs)]
<1> HIDE DEF Pbs, Ntfs
<1>1. down \in [Players -> Seq(Pbs \cup Ntfs)]
  BY DEF Typed
<1>2. Append(down[p], pb) \in Seq(Pbs \cup Ntfs)
  BY <1>1
<1> QED
  BY <1>1, <1>2 DEF Pushed

LEMMA ClientSendsTyped ==
  ASSUME Typed, NEW p \in Players, NEW to, NEW m \in Msgs, ClientSends(p, to, m)
  PROVE  up' \in [Players -> Seq(Pbs)]
<1>1. proxy_message_2_pb(m, tunnel.id) \in Pbs
  BY PbTyped DEF Typed
<1>2. up \in [Players -> Seq(Pbs)]
  BY DEF Typed
<1>3. Append(up[p], proxy_message_2_pb(m, tunnel.id)) \in Seq(Pbs)
  BY <1>1, <1>2
<1> QED
  BY <1>2, <1>3 DEF ClientSends

LEMMA ServerSendsTyped ==
  ASSUME Typed, NEW h \in Hosts, NEW from \in Hosts, NEW to \in Hosts, NEW m \in Msgs,
         ServerSends(h, from, to, m)
  PROVE  hand' \in [Hosts -> Hands \cup {Idle}]
<1>1. hand \in [Hosts -> Hands \cup {Idle}]
  BY DEF Typed
<1>2. CASE to = 0
  BY <1>1, <1>2 DEF ServerSends, IsServer
<1>3. CASE to # 0
  <2> DEFINE new == [pc |-> "check", msg |-> m, from |-> from, to |-> to]
  <2>1. new \in Hands
    BY <1>3 DEF Hands, Hosts
  <2>2. hand' = [hand EXCEPT ![h] = new]
    BY <1>3 DEF ServerSends, IsServer
  <2> HIDE DEF new
  <2> QED
    BY <1>1, <2>1, <2>2
<1> QED
  BY <1>2, <1>3

LEMMA EmitTyped ==
  ASSUME ConstantsOK, Typed, NEW kind \in Kinds,
         EmitAtServer(kind) \/ \E p \in Players : EmitAtClient(p, kind)
  PROVE  Typed'
<1> DEFINE m == Msg(emitted + 1, kind)
<1>1. m \in Msgs
  BY DEF Typed, Msg, Msgs, ConstantsOK, AllKinds
<1>2. emitted' \in 0 .. MaxMessages
  BY DEF EmitAtServer, EmitAtClient, Typed, ConstantsOK
<1> HIDE DEF m
<1>3. ASSUME NEW h \in Hosts, NEW end \in Emitters(h, m)
      PROVE  end.to \in Hosts
  <2>1. proxies[h] \in Ends
    BY DEF Typed
  <2> QED
    BY <2>1, EndsLead DEF Emitters
<1>4. CASE EmitAtServer(kind)
  <2>1. PICK end \in Emitters(0, m) : ServerSends(0, 0, end.to, m)
    BY <1>4 DEF EmitAtServer, m
  <2>2. 0 \in Hosts
    BY DEF Hosts
  <2>3. hand' \in [Hosts -> Hands \cup {Idle}]
    BY <1>1, <1>3, <2>1, <2>2, ServerSendsTyped
  <2> QED
    BY <1>2, <1>4, <2>3 DEF EmitAtServer, Typed, links
<1>5. ASSUME NEW p \in Players, EmitAtClient(p, kind)
      PROVE  Typed'
  <2>1. PICK end \in Emitters(p, m) : ClientSends(p, end.to, m)
    BY <1>5 DEF EmitAtClient, m
  <2>2. up' \in [Players -> Seq(Pbs)]
    BY <1>1, <2>1, ClientSendsTyped
  <2> QED
    BY <1>2, <1>5, <2>2 DEF EmitAtClient, Typed
<1> QED
  BY <1>4, <1>5

LEMMA ServerReceivesTyped ==
  ASSUME ConstantsOK, Typed, NEW p \in Players, ServerReceives(p)
  PROVE  Typed'
<1> DEFINE m == pb_2_proxy_message(Head(up[p]))
<1>1. up[p] \in Seq(Pbs) /\ up[p] # <<>>
  BY DEF Typed, ServerReceives
<1>2. Head(up[p]) \in Pbs /\ Tail(up[p]) \in Seq(Pbs)
  BY <1>1
<1>3. m \in Msgs
  BY <1>2, MsgTyped
<1>4. ServerSends(p, From(tunnel, m), To(tunnel, m), m)
  BY DEF ServerReceives
<1> HIDE DEF m
<1>5. hand' \in [Hosts -> Hands \cup {Idle}]
  <2>1. From(tunnel, m) \in Hosts /\ To(tunnel, m) \in Hosts
    BY ToTyped DEF Typed
  <2>2. p \in Hosts
    BY DEF Hosts
  <2> QED
    BY <1>3, <1>4, <2>1, <2>2, ServerSendsTyped
<1>6. up' \in [Players -> Seq(Pbs)]
  BY <1>2 DEF ServerReceives, Typed
<1> QED
  BY <1>5, <1>6 DEF ServerReceives, Typed, counters

LEMMA HandTyped ==
  ASSUME ConstantsOK, Typed, NEW h \in Hosts, CheckOnline(h) \/ Push(h) \/ Answer(h)
  PROVE  Typed'
<1>1. hand[h] \in Hands
  <2>1. hand[h] # Idle
    BY DEF CheckOnline, Push, Answer, Idle
  <2> QED
    BY <2>1 DEF Typed
<1>2. hand[h].msg \in Msgs /\ hand[h].to \in Players /\ hand[h].from \in Hosts
  BY <1>1 DEF Hands
<1>t. tunnel \in Tunnels
  BY DEF Typed
<1>3. CASE CheckOnline(h)
  <2>1. PICK pc \in {"push", "answer"} : hand' = [hand EXCEPT ![h].pc = pc]
    BY <1>3 DEF CheckOnline
  <2>2. [hand[h] EXCEPT !.pc = pc] \in Hands
    BY <1>1 DEF Hands
  <2>3. hand' \in [Hosts -> Hands \cup {Idle}]
    BY <2>1, <2>2 DEF Typed
  <2> QED
    BY <1>3, <2>3 DEF CheckOnline, Typed, links, counters
<1>4. CASE Push(h)
  <2>1. down' \in [Players -> Seq(Pbs \cup Ntfs)]
    BY <1>2, <1>4, <1>t, PbTyped, PushedTyped, SMTT(30) DEF Push
  <2> QED
    BY <1>4, <2>1 DEF Push, Typed, counters
<1>5. CASE Answer(h)
  <2> DEFINE a == Msg(hand[h].msg.id, OfflineAnswer(hand[h].msg.kind))
  <2>1. down' \in [Players -> Seq(Pbs \cup Ntfs)]
    <3>1. a.kind # "none" => a \in Msgs
      BY <1>2 DEF OfflineAnswer, Msg, Msgs, AllKinds, I2o, O2i
    <3>2. \/ down' = down
          \/ /\ a.kind # "none"
             /\ hand[h].from # 0
             /\ down' = Pushed(hand[h].from, proxy_message_2_pb(a, tunnel.id))
      BY <1>5, ZenonT(30) DEF Answer
    <3> HIDE DEF a
    <3>3. CASE down' = down
      BY <3>3 DEF Typed
    <3>4. CASE /\ a.kind # "none"
               /\ hand[h].from # 0
               /\ down' = Pushed(hand[h].from, proxy_message_2_pb(a, tunnel.id))
      <4>1. hand[h].from \in Players
        BY <1>2, <3>4 DEF Hosts
      <4>2. proxy_message_2_pb(a, tunnel.id) \in Pbs
        BY <3>1, <3>4, <1>t, PbTyped
      <4> QED
        BY <3>4, <4>1, <4>2, PushedTyped
    <3> QED
      BY <3>2, <3>3, <3>4
  <2> QED
    BY <1>5, <2>1, ZenonT(30) DEF Answer, Typed, counters
<1> QED
  BY <1>3, <1>4, <1>5

LEMMA ClientReceivesTyped ==
  ASSUME ConstantsOK, Typed, NEW p \in Players, ClientReceives(p)
  PROVE  Typed'
<1> DEFINE pb == Head(down[p])
           m == pb_2_proxy_message(pb)
<1>1. down[p] \in Seq(Pbs \cup Ntfs) /\ down[p] # <<>>
  BY DEF Typed, ClientReceives
<1>2. pb \in Pbs \cup Ntfs /\ Tail(down[p]) \in Seq(Pbs \cup Ntfs)
  BY <1>1
<1>3. down' \in [Players -> Seq(Pbs \cup Ntfs)]
  BY <1>2 DEF ClientReceives, Typed
<1>4. p \in Hosts
  BY DEF Hosts
<1>5. UNCHANGED <<tunnel, update, online, hand, counters>>
  BY DEF ClientReceives
<1>6. CASE ~ is_proxy_pb(pb) /\ Takes(p, pb.body)
  <2>1. pb.body \in Bodies
    BY <1>2, <1>6, MsgTyped, NtfTyped
  <2>2. Synced(p, pb.body, proxies[p]) \in Ends
    BY <1>4, <2>1, EndsAreEnds DEF Typed
  <2> HIDE DEF pb
  <2>3. copy' \in [Players -> Bodies] /\ proxies' \in [Hosts -> Ends] /\ up' = up
    BY <1>6, <2>1, <2>2 DEF Takes, Typed
  <2> QED
    BY <1>3, <1>5, <2>3 DEF Typed, counters
<1>7. CASE is_proxy_pb(pb) /\ copy[p] = {} /\ Drop(m, "unknown") /\ UNCHANGED <<copy, proxies, up>>
  BY <1>3, <1>5, <1>7 DEF Typed, counters
<1>8. CASE /\ is_proxy_pb(pb)
           /\ \E t \in copy[p] : ClientSends(p, To(t, m), m)
           /\ UNCHANGED <<copy, proxies>>
  <2>1. m \in Msgs
    BY <1>2, <1>8, MsgTyped, NtfTyped
  <2> HIDE DEF m
  <2>2. up' \in [Players -> Seq(Pbs)]
    BY <1>8, <2>1, ClientSendsTyped
  <2> QED
    BY <1>3, <1>5, <1>8, <2>2 DEF Typed, counters
<1> QED
  BY <1>6, <1>7, <1>8 DEF ClientReceives

LEMMA UpdateTyped ==
  ASSUME ConstantsOK, Typed, (\E new \in Tunnels : Update(new)) \/ Tell \/ Store \/ Sync
  PROVE  Typed'
<1> DEFINE Updates == [pc : {"rest", "tell", "store", "sync"}, new : Tunnels, tell : Seq(Notes)]
<1>0. update \in Updates /\ tunnel \in Tunnels
  BY DEF Typed
<1>1. ASSUME NEW new \in Tunnels, Update(new)
      PROVE  Typed'
  <2>1. Notices(tunnel, new) \in Seq(Notes)
    BY <1>0, NoticesTyped
  <2>2. update' \in Updates
    BY <1>1, <2>1 DEF Update
  <2>3. updates' \in Nat
    BY <1>1 DEF Update, Typed
  <2> QED
    BY <1>1, <2>2, <2>3 DEF Update, Typed, links, history
<1>2. CASE Tell
  <2>1. CASE update.tell = <<>>
    <3>1. update' \in Updates
      BY <1>0, <1>2, <2>1 DEF Tell
    <3> QED
      BY <1>2, <2>1, <3>1 DEF Tell, Typed, counters
  <2>2. CASE update.tell # <<>>
    <3>1. update.tell \in Seq(Notes)
      BY <1>0
    <3>2. Head(update.tell) \in Notes /\ Tail(update.tell) \in Seq(Notes)
      BY <2>2, <3>1
    <3>3. update' \in Updates
      BY <1>0, <1>2, <2>2, <3>2 DEF Tell
    <3>4. Head(update.tell).to \in Players /\ Head(update.tell).ntf \in Ntfs
      BY <3>2 DEF Notes
    <3>5. down' \in [Players -> Seq(Pbs \cup Ntfs)]
      BY <1>2, <2>2, <3>4, PushedTyped DEF Tell
    <3> QED
      BY <1>2, <3>3, <3>5 DEF Tell, Typed, counters
  <2> QED
    BY <2>1, <2>2
<1>3. CASE Store
  <2>1. update' \in Updates /\ tunnel' \in Tunnels
    BY <1>0, <1>3 DEF Store, Stored
  <2> QED
    BY <1>3, <2>1 DEF Store, Typed, links, counters
<1>4. CASE Sync
  <2>1. update' \in Updates
    BY <1>0, <1>4 DEF Sync, AtRest
  <2>2. {tunnel} \in Bodies /\ 0 \in Hosts
    BY <1>0 DEF Bodies, Hosts
  <2>3. Synced(0, {tunnel}, proxies[0]) \in Ends
    BY <2>2, EndsAreEnds DEF Typed
  <2>4. proxies' \in [Hosts -> Ends]
    BY <1>4, <2>3 DEF Sync, Typed
  <2> QED
    BY <1>4, <2>1, <2>4 DEF Sync, Typed, links, counters
<1> QED
  BY <1>1, <1>2, <1>3, <1>4

LEMMA ConnectionTyped ==
  ASSUME ConstantsOK, Typed, NEW p \in Players, Leave(p) \/ Login(p)
  PROVE  Typed'
<1>1. CASE Leave(p)
  <2>1. copy' \in [Players -> Bodies] /\ proxies' \in [Hosts -> Ends]
    <3>1. {} \in Bodies
      BY DEF Bodies
    <3> QED
      BY <1>1, <3>1, NoEnds DEF Leave, Typed
  <2>2. down' \in [Players -> Seq(Pbs \cup Ntfs)] /\ up' \in [Players -> Seq(Pbs)]
    BY <1>1 DEF Leave, Typed
  <2>3. leaves' \in Nat /\ online' \subseteq Players
    BY <1>1 DEF Leave, Typed
  <2> QED
    BY <1>1, <2>1, <2>2, <2>3 DEF Leave, Typed, history
<1>2. CASE Login(p)
  <2>1. Lists(p, tunnel) \in Bodies /\ p \in Hosts
    BY ListsAreBodies DEF Typed, Hosts
  <2>2. Synced(p, Lists(p, tunnel), NoProxies) \in Ends
    BY <2>1, EndsAreEnds, NoEnds
  <2>3. copy' \in [Players -> Bodies] /\ proxies' \in [Hosts -> Ends] /\ online' \subseteq Players
    BY <1>2, <2>1, <2>2 DEF Login, Typed
  <2> QED
    BY <1>2, <2>3 DEF Login, Typed, links, counters
<1> QED
  BY <1>1, <1>2

LEMMA StepTyped == ASSUME ConstantsOK PROVE Typed /\ [Next]_vars => Typed'
<1> SUFFICES ASSUME Typed, [Next]_vars PROVE Typed'
  OBVIOUS
<1>1. CASE UNCHANGED vars
  BY <1>1 DEF vars, Typed, links, counters
<1> QED
  BY <1>1, EmitTyped, ServerReceivesTyped, ClientReceivesTyped, ConnectionTyped,
     HandTyped, UpdateTyped DEF Next

(* The server never holds a message for itself, clients have records of    *)
(* tunnels only and the server's hands go through their three stages,      *)
(* whatever is updated and whoever leaves (send_proxy_message).            *)
THEOREM RoutingTypes == ASSUME ConstantsOK PROVE Spec => []TypeOK
<1>1. Typed => TypeOK
  <2> SUFFICES ASSUME Typed PROVE TypeOK
    OBVIOUS
  <2>1. \A p \in Players : copy[p] \subseteq Tunnels
    <3>1. \A b \in Bodies : b \subseteq Tunnels
      BY DEF Bodies
    <3> QED
      BY <3>1 DEF Typed
  <2>2. \A h \in Hosts : /\ hand[h].pc \in {"idle", "check", "push", "answer"}
                         /\ hand[h] # Idle => hand[h].to \in Players
    BY DEF Typed, Hands, Idle
  <2>3. {tunnel, update.new} \subseteq Tunnels
    BY DEF Typed
  <2> QED
    BY <2>1, <2>2, <2>3 DEF Typed, TypeOK
<1> QED
  BY <1>1, InitTyped, StepTyped, PTL DEF Spec

-----------------------------------------------------------------------------
(* While nothing is updated.  Every record and every proxy is that of the  *)
(* one tunnel, and what is under way is bound for the host of its end.     *)
Host(kind) == IF kind \in I2o THEN tunnel.sender ELSE tunnel.receiver
Back(kind) == IF kind \in I2o THEN tunnel.receiver ELSE tunnel.sender
Apart == tunnel.enabled /\ tunnel.sender # tunnel.receiver

Mine(p) == {pb \in Pbs : tunnel.enabled /\ Host(pb.type[2]) = p}
Sent == {pb \in Pbs : Apart}
Held == {r \in Hands : Apart /\ r.to = Host(r.msg.kind) /\ r.from = Back(r.msg.kind)}

Still ==
  /\ updates = 0
  /\ update.pc = "rest"
  /\ \A p \in online : copy[p] = Lists(p, tunnel) /\ proxies[p] = EndsOf(p, tunnel)
  /\ proxies[0] = EndsOf(0, tunnel)
  /\ \A p \in Players : /\ down[p] \in Seq(Mine(p))
                        /\ up[p] \in Seq(Sent)
                        /\ p \notin online => down[p] = <<>>
  /\ \A h \in Hosts : hand[h] \in Held \cup {Idle}

Unmoved == MaxUpdates = 0 /\ \A t \in Tunnels : KnownKind(t)

LEMMA InitStill == ASSUME ConstantsOK PROVE Init => Still
<1> SUFFICES ASSUME Init PROVE Still
  OBVIOUS
<1>1. \A h \in Hosts : proxies[h] = EndsOf(h, tunnel)
  BY SyncedFresh DEF Init
<1>2. update.pc = "rest"
  BY DEF Init, AtRest
<1>3. \A p \in Players : down[p] \in Seq(Mine(p)) /\ up[p] \in Seq(Sent)
  BY DEF Init
<1> QED
  BY <1>1, <1>2, <1>3 DEF Still, Init, Hosts

(* Where the end a message is for is running, the message lands.           *)
LEMMA Lands ==
  ASSUME Typed, Still, Unmoved, NEW h \in online \cup {0}, NEW m \in Msgs,
         tunnel.enabled, h = Host(m.kind), Input(h, m)
  PROVE  landed' = landed \cup {<<m.id, m.kind, h>>} /\ lost' = lost
<1>1. proxies[h] = EndsOf(h, tunnel)
  BY DEF Still
<1>2. KnownKind(tunnel)
  BY DEF Unmoved, Typed
<1>3. CASE m.kind \in I2o
  <2>1. WantsOutlet(h, tunnel)
    BY <1>3 DEF WantsOutlet, Host
  <2>2. proxies[h].outlets = {NewOutlet(tunnel)}
    BY <1>1, <2>1 DEF EndsOf, Both
  <2>3. proxies[h].outlets # {}
    BY <2>2
  <2> QED
    BY <1>3, <2>3 DEF Input, is_i2o_message
<1>4. CASE m.kind \notin I2o
  <2>1. WantsInlet(h, tunnel)
    BY <1>4 DEF WantsInlet, Host
  <2>2. proxies[h].inlets = {NewInlet(tunnel)}
    BY <1>1, <1>2, <2>1 DEF EndsOf, Both
  <2>3. proxies[h].inlets # {}
    BY <2>2
  <2> QED
    BY <1>4, <2>3 DEF Input, is_i2o_message
<1> QED
  BY <1>3, <1>4

(* A running end sends to the host of the other.                           *)
LEMMA Emits ==
  ASSUME Typed, Still, NEW h \in online \cup {0}, NEW m \in Msgs, NEW end \in Emitters(h, m)
  PROVE  tunnel.enabled /\ h = Back(m.kind) /\ end.to = Host(m.kind)
<1>1. proxies[h] = EndsOf(h, tunnel)
  BY DEF Still
<1>2. CASE m.kind \in I2o
  <2>1. end \in EndsOf(h, tunnel).inlets
    BY <1>1, <1>2 DEF Emitters, is_i2o_message
  <2>2. WantsInlet(h, tunnel) /\ end = NewInlet(tunnel)
    BY <2>1 DEF EndsOf, Both
  <2> QED
    BY <1>2, <2>2 DEF WantsInlet, NewInlet, Host, Back
<1>3. CASE m.kind \notin I2o
  <2>1. end \in EndsOf(h, tunnel).outlets
    BY <1>1, <1>3 DEF Emitters, is_i2o_message
  <2>2. WantsOutlet(h, tunnel) /\ end = NewOutlet(tunnel)
    BY <2>1 DEF EndsOf, Both
  <2> QED
    BY <1>3, <2>2 DEF WantsOutlet, NewOutlet, Host, Back
<1> QED
  BY <1>2, <1>3

LEMMA Frame ==
  ASSUME UNCHANGED tunnel
  PROVE  /\ \A p : Mine(p)' = Mine(p)
         /\ Sent' = Sent /\ Held' = Held
         /\ \A p : Lists(p, tunnel)' = Lists(p, tunnel)
         /\ \A p : EndsOf(p, tunnel)' = EndsOf(p, tunnel)
         /\ \A k : Host(k)' = Host(k) /\ Back(k)' = Back(k)
  BY DEF Mine, Sent, Held, Host, Back, Apart

LEMMA PbIs ==
  ASSUME NEW m \in Msgs, NEW t
  PROVE  LET pb == proxy_message_2_pb(m, t)
         IN  pb.type[2] = m.kind /\ pb.body = m.id
  BY DEF proxy_message_2_pb

(* What a step adds to the histories: a message where its end is, or one   *)
(* whose player is offline.                                                *)
Records ==
  /\ landed' = landed \/ \E m \in Msgs : landed' = landed \cup {<<m.id, m.kind, Host(m.kind)>>}
  /\ \A l \in lost' : l \in lost \/ l[3] \in {"raced", "offline"}

(* An end sends what it emits.                                             *)
LEMMA EmitStill ==
  ASSUME ConstantsOK, Unmoved, Typed, Still, NEW kind \in Kinds,
         EmitAtServer(kind) \/ \E p \in Players : EmitAtClient(p, kind)
  PROVE  Still' /\ Records
<1> DEFINE m == Msg(emitted + 1, kind)
<1>1. m \in Msgs
  BY DEF Typed, Msg, Msgs, ConstantsOK, AllKinds
<1> HIDE DEF m
<1>2. UNCHANGED <<tunnel, copy, proxies, update, online, down, updates>>
  BY DEF EmitAtServer, EmitAtClient, links
<1>f. /\ \A p : Mine(p)' = Mine(p)
      /\ Sent' = Sent /\ Held' = Held
      /\ \A p : Lists(p, tunnel)' = Lists(p, tunnel) /\ EndsOf(p, tunnel)' = EndsOf(p, tunnel)
  BY <1>2, Frame
<1>3. CASE EmitAtServer(kind)
  <2>1. PICK end \in Emitters(0, m) : ServerSends(0, 0, end.to, m)
    BY <1>3 DEF EmitAtServer, m
  <2>2. tunnel.enabled /\ 0 = Back(m.kind) /\ end.to = Host(m.kind)
    BY <1>1, Emits
  <2>3. UNCHANGED up
    BY <1>3 DEF EmitAtServer, links
  <2>4. CASE end.to = 0
    <3>1. Input(0, m) /\ UNCHANGED hand
      BY <2>1, <2>4 DEF ServerSends, IsServer
    <3>2. landed' = landed \cup {<<m.id, m.kind, Host(m.kind)>>} /\ lost' = lost
      BY <1>1, <2>2, <2>4, <3>1, Lands
    <3>3. Still'
      BY <1>2, <1>f, <2>3, <3>1 DEF Still
    <3> QED
      BY <1>1, <3>2, <3>3 DEF Records
  <2>5. CASE end.to # 0
    <3> DEFINE new == [pc |-> "check", msg |-> m, from |-> 0, to |-> end.to]
    <3>1. hand' = [hand EXCEPT ![0] = new] /\ UNCHANGED history
      BY <2>1, <2>5 DEF ServerSends, IsServer
    <3>2. new \in Held
      <4>1. end.to \in Hosts
        BY <2>2 DEF ConstantsOK, Typed, Host
      <4>2. new \in Hands
        BY <1>1, <2>5, <4>1 DEF Hands, Hosts
      <4>3. Apart
        BY <2>2, <2>5 DEF Apart, Host, Back
      <4> QED
        BY <2>2, <4>2, <4>3 DEF Held
    <3> HIDE DEF new
    <3>3. \A h \in Hosts : hand'[h] \in Held \cup {Idle}
      BY <3>1, <3>2 DEF Typed, Still
    <3>4. Still'
      BY <1>2, <1>f, <2>3, <3>3 DEF Still
    <3> QED
      BY <3>1, <3>4 DEF Records, history
  <2> QED
    BY <2>4, <2>5
<1>4. ASSUME NEW p \in Players, EmitAtClient(p, kind)
      PROVE  Still' /\ Records
  <2>1. PICK end \in Emitters(p, m) : ClientSends(p, end.to, m)
    BY <1>4 DEF EmitAtClient, m
  <2>0. p \in online /\ UNCHANGED hand
    BY <1>4 DEF EmitAtClient
  <2>2. tunnel.enabled /\ p = Back(m.kind) /\ end.to = Host(m.kind)
    BY <1>1, <2>0, Emits
  <2>3. CASE end.to = p
    <3>1. Input(p, m) /\ UNCHANGED up
      BY <2>1, <2>3 DEF ClientSends
    <3>2. landed' = landed \cup {<<m.id, m.kind, Host(m.kind)>>} /\ lost' = lost
      BY <1>1, <2>0, <2>2, <2>3, <3>1, Lands
    <3>3. Still'
      BY <1>2, <1>f, <2>0, <3>1, ZenonT(30) DEF Still
    <3> QED
      BY <1>1, <3>2, <3>3 DEF Records
  <2>4. CASE end.to # p
    <3> DEFINE pb == proxy_message_2_pb(m, tunnel.id)
    <3>1. up' = [up EXCEPT ![p] = Append(@, pb)] /\ UNCHANGED history
      BY <2>1, <2>4 DEF ClientSends
    <3>2. Apart
      BY <2>2, <2>4 DEF Apart, Host, Back
    <3>3. pb \in Sent
      BY <1>1, <3>2, PbTyped DEF Sent, Typed
    <3> HIDE DEF pb
    <3>4. Append(up[p], pb) \in Seq(Sent)
      BY <3>3 DEF Still
    <3>5. \A q \in Players : up'[q] \in Seq(Sent)
      BY <3>1, <3>4 DEF Typed, Still
    <3>6. Still'
      BY <1>2, <1>f, <2>0, <3>5 DEF Still
    <3> QED
      BY <3>1, <3>6 DEF Records, history
  <2> QED
    BY <2>3, <2>4
<1> QED
  BY <1>3, <1>4

LEMMA ServerReceivesStill ==
  ASSUME ConstantsOK, Unmoved, Typed, Still, NEW p \in Players, ServerReceives(p)
  PROVE  Still' /\ Records
<1> DEFINE m == pb_2_proxy_message(Head(up[p]))
<1>1. up[p] \in Seq(Sent) /\ up[p] # <<>>
  BY DEF Still, ServerReceives
<1>2. Head(up[p]) \in Sent /\ Tail(up[p]) \in Seq(Sent)
  BY <1>1
<1>3. m \in Msgs /\ Apart
  BY <1>2, MsgTyped DEF Sent
<1>4. ServerSends(p, From(tunnel, m), To(tunnel, m), m)
  BY DEF ServerReceives
<1> HIDE DEF m
<1>5. From(tunnel, m) = Back(m.kind) /\ To(tunnel, m) = Host(m.kind)
  BY DEF From, To, Back, Host, is_i2o_message
<1>6. UNCHANGED <<tunnel, copy, proxies, update, online, down, updates>>
  BY DEF ServerReceives, counters
<1>f. /\ \A q : Mine(q)' = Mine(q)
      /\ Sent' = Sent /\ Held' = Held
      /\ \A q : Lists(q, tunnel)' = Lists(q, tunnel) /\ EndsOf(q, tunnel)' = EndsOf(q, tunnel)
  BY <1>6, Frame
<1>7. \A q \in Players : up'[q] \in Seq(Sent)
  BY <1>2 DEF Typed, Still, ServerReceives
<1>8. CASE Host(m.kind) = 0
  <2>1. Input(0, m) /\ UNCHANGED hand
    BY <1>4, <1>5, <1>8 DEF ServerSends, IsServer
  <2>2. landed' = landed \cup {<<m.id, m.kind, Host(m.kind)>>} /\ lost' = lost
    BY <1>3, <1>8, <2>1, Lands DEF Apart
  <2>3. Still'
    BY <1>6, <1>f, <1>7, <2>1 DEF Still
  <2> QED
    BY <1>3, <2>2, <2>3 DEF Records
<1>9. CASE Host(m.kind) # 0
  <2> DEFINE new == [pc |-> "check", msg |-> m, from |-> Back(m.kind), to |-> Host(m.kind)]
  <2>1. hand' = [hand EXCEPT ![p] = new] /\ UNCHANGED history
    BY <1>4, <1>5, <1>9 DEF ServerSends, IsServer
  <2>2. new \in Held
    <3>1. Host(m.kind) \in Players /\ Back(m.kind) \in Hosts
      BY <1>9 DEF ConstantsOK, Typed, Host, Back, Hosts
    <3>2. new \in Hands
      BY <1>3, <3>1 DEF Hands
    <3> QED
      BY <1>3, <3>2 DEF Held
  <2> HIDE DEF new
  <2>3. \A h \in Hosts : hand'[h] \in Held \cup {Idle}
    BY <2>1, <2>2 DEF Typed, Still
  <2>4. Still'
    BY <1>6, <1>f, <1>7, <2>3 DEF Still
  <2> QED
    BY <2>1, <2>4 DEF Records, history
<1> QED
  BY <1>8, <1>9

(* What is pushed to a player is bound for the player.                     *)
LEMMA PushedMine ==
  ASSUME Typed, Still, NEW p \in Players, NEW pb \in Mine(p), UNCHANGED <<tunnel, online>>,
         down' = Pushed(p, pb)
  PROVE  \A q \in Players : down'[q] \in Seq(Mine(q)) /\ (q \notin online' => down'[q] = <<>>)
<1>1. CASE p \in online
  <2>1. down' = [down EXCEPT ![p] = Append(@, pb)]
    BY <1>1 DEF Pushed
  <2>2. Append(down[p], pb) \in Seq(Mine(p))
    BY DEF Still
  <2> QED
    BY <1>1, <2>1, <2>2 DEF Typed, Still
<1>2. CASE p \notin online
  BY <1>2 DEF Pushed, Still
<1> QED
  BY <1>1, <1>2

(* The answer given for an offline player goes the other way.              *)
LEMMA AnswerTurns ==
  ASSUME NEW m \in Msgs, OfflineAnswer(m.kind) # "none"
  PROVE  LET a == Msg(m.id, OfflineAnswer(m.kind))
         IN  a \in Msgs /\ a.id = m.id /\ (a.kind \in I2o <=> m.kind \notin I2o)
                        /\ Host(a.kind) = Back(m.kind)
  BY DEF OfflineAnswer, Msg, Msgs, AllKinds, I2o, O2i, Host, Back

LEMMA HandStill ==
  ASSUME ConstantsOK, Unmoved, Typed, Still, NEW h \in Hosts,
         CheckOnline(h) \/ Push(h) \/ Answer(h)
  PROVE  Still' /\ Records
<1>1. hand[h] \in Held
  <2>1. hand[h] # Idle
    BY DEF CheckOnline, Push, Answer, Idle
  <2> QED
    BY <2>1 DEF Still
<1>2. /\ hand[h].msg \in Msgs
      /\ hand[h].to \in Players
      /\ hand[h].from \in Hosts
      /\ Apart
      /\ hand[h].to = Host(hand[h].msg.kind)
      /\ hand[h].from = Back(hand[h].msg.kind)
  BY <1>1 DEF Hands, Held
<1>3. UNCHANGED <<tunnel, copy, proxies, update, online, up, updates>>
  BY DEF CheckOnline, Push, Answer, counters, links
<1>f. /\ \A q : Mine(q)' = Mine(q)
      /\ Sent' = Sent /\ Held' = Held
      /\ \A q : Lists(q, tunnel)' = Lists(q, tunnel) /\ EndsOf(q, tunnel)' = EndsOf(q, tunnel)
  BY <1>3, Frame
<1>t. tunnel \in Tunnels
  BY DEF Typed
<1>m. ASSUME NEW a \in Msgs
      PROVE  proxy_message_2_pb(a, tunnel.id) \in Mine(Host(a.kind))
  BY <1>2, <1>t, PbTyped, PbIs, ZenonT(30) DEF Mine, Apart
<1>4. CASE CheckOnline(h)
  <2>1. PICK pc \in {"push", "answer"} : hand' = [hand EXCEPT ![h].pc = pc]
    BY <1>4 DEF CheckOnline
  <2>2. [hand[h] EXCEPT !.pc = pc] \in Held
    <3>1. [hand[h] EXCEPT !.pc = pc] \in Hands
      BY <1>1 DEF Hands, Held
    <3>2. /\ [hand[h] EXCEPT !.pc = pc].to = hand[h].to
          /\ [hand[h] EXCEPT !.pc = pc].from = hand[h].from
          /\ [hand[h] EXCEPT !.pc = pc].msg = hand[h].msg
      BY <1>1 DEF Hands, Held
    <3> QED
      BY <1>2, <3>1, <3>2 DEF Held
  <2>3. \A g \in Hosts : hand'[g] \in Held \cup {Idle}
    BY <2>1, <2>2 DEF Typed, Still
  <2>4. UNCHANGED <<down, landed, lost>>
    BY <1>4 DEF CheckOnline, links, history
  <2>5. Still'
    BY <1>3, <1>f, <2>3, <2>4, ZenonT(30) DEF Still
  <2> QED
    BY <2>4, <2>5 DEF Records
<1>5. CASE Push(h) \/ Answer(h)
  <2>1. \A g \in Hosts : hand'[g] \in Held \cup {Idle}
    BY <1>5, ZenonT(30) DEF Push, Answer, Typed, Still
  <2>2. (\A q \in Players : down'[q] \in Seq(Mine(q)) /\ (q \notin online' => down'[q] = <<>>))
        => Still'
    BY <1>3, <1>f, <2>1, ZenonT(30) DEF Still
  <2>3. CASE Push(h)
    <3> DEFINE m == hand[h].msg
               to == hand[h].to
    <3>1. proxy_message_2_pb(m, tunnel.id) \in Mine(to)
      BY <1>2, <1>m, ZenonT(30)
    <3>2. down' = Pushed(to, proxy_message_2_pb(m, tunnel.id))
      BY <2>3 DEF Push
    <3>3. Still'
      BY <1>2, <1>3, <2>2, <3>1, <3>2, PushedMine
    <3>4. landed' = landed /\ (lost' = lost \/ lost' = lost \cup {<<m.id, m.kind, "raced">>})
      BY <2>3 DEF Push, Drop, history
    <3> QED
      BY <3>3, <3>4 DEF Records
  <2>4. CASE Answer(h)
    <3> DEFINE m == hand[h].msg
               a == Msg(m.id, OfflineAnswer(m.kind))
               from == hand[h].from
    <3>0. a.kind = OfflineAnswer(m.kind)
      BY DEF Msg
    <3>1. Still'
      <4>1. CASE a.kind = "none" \/ from = 0
        <5>1. down' = down
          BY <2>4, <4>1, ZenonT(30) DEF Answer
        <5> QED
          BY <1>3, <2>2, <5>1, ZenonT(30) DEF Still
      <4>2. CASE a.kind # "none" /\ from # 0
        <5>1. down' = Pushed(from, proxy_message_2_pb(a, tunnel.id))
          BY <2>4, <4>2, ZenonT(30) DEF Answer
        <5>2. from \in Players
          BY <1>2, <4>2 DEF Hosts
        <5>3. a \in Msgs /\ Host(a.kind) = from
          BY <1>2, <3>0, <4>2, AnswerTurns, ZenonT(30)
        <5> HIDE DEF a
        <5>4. proxy_message_2_pb(a, tunnel.id) \in Mine(from)
          BY <1>m, <5>3
        <5> HIDE DEF from
        <5> QED
          BY <1>3, <2>2, <5>1, <5>2, <5>4, PushedMine, ZenonT(30)
      <4> QED
        BY <4>1, <4>2
    <3>2. \/ landed' = landed
          \/ /\ a.kind # "none" /\ from = 0
             /\ landed' = landed \cup {<<a.id, a.kind, 0>>}
      <4> DEFINE E == {y \in Emitters(0, m) : a.kind # "none" /\ from = 0}
      <4>1. landed' = landed \cup {<<a.id, a.kind, 0>> : x \in E}
        BY <2>4, ZenonT(30) DEF Answer
      <4>2. E # {} => a.kind # "none" /\ from = 0
        BY ZenonT(30)
      <4> HIDE DEF E, a, from
      <4>3. CASE E = {}
        BY <4>1, <4>3, ZenonT(30)
      <4>4. CASE E # {}
        <5>1. {<<a.id, a.kind, 0>> : x \in E} = {<<a.id, a.kind, 0>>}
          BY <4>4
        <5> QED
          BY <4>1, <4>2, <4>4, <5>1
      <4> QED
        BY <4>3, <4>4
    <3>3. \/ landed' = landed
          \/ \E n \in Msgs : landed' = landed \cup {<<n.id, n.kind, Host(n.kind)>>}
      <4>1. a.kind # "none" /\ from = 0 => a \in Msgs /\ Host(a.kind) = 0
        BY <1>2, <3>0, AnswerTurns
      <4> HIDE DEF a
      <4> QED
        BY <3>2, <4>1
    <3>4. lost' = lost \cup {<<m.id, m.kind, "offline">>}
      BY <2>4, ZenonT(30) DEF Answer
    <3> QED
      BY <3>1, <3>3, <3>4 DEF Records
  <2> QED
    BY <1>5, <2>3, <2>4
<1> QED
  BY <1>4, <1>5

(* A client is only sent what lands there.                                 *)
LEMMA ClientReceivesStill ==
  ASSUME ConstantsOK, Unmoved, Typed, Still, NEW p \in Players, ClientReceives(p)
  PROVE  /\ Still' /\ Records
         /\ landed' = landed \cup {<<Head(down[p]).body, Head(down[p]).type[2], p>>}
         /\ lost' = lost
<1> DEFINE pb == Head(down[p])
           m == pb_2_proxy_message(pb)
<1>1. down[p] \in Seq(Mine(p)) /\ down[p] # <<>> /\ p \in online
  BY ZenonT(30) DEF Still, ClientReceives
<1>2. pb \in Mine(p) /\ Tail(down[p]) \in Seq(Mine(p))
  BY <1>1
<1>3. m \in Msgs /\ is_proxy_pb(pb) /\ tunnel.enabled /\ Host(pb.type[2]) = p
  BY <1>2, MsgTyped DEF Mine
<1>4. m.kind = pb.type[2] /\ m.id = pb.body
  BY DEF pb_2_proxy_message, Msg
<1>5. Concerns(tunnel, p)
  BY <1>3 DEF Concerns, Host
<1>6. copy[p] = {tunnel}
  BY <1>1, <1>5 DEF Still, Lists
<1>7. ClientSends(p, To(tunnel, m), m) /\ UNCHANGED <<copy, proxies>>
  BY <1>3, <1>6, ZenonT(30) DEF ClientReceives
<1> HIDE DEF m
<1>8. To(tunnel, m) = p
  BY <1>3, <1>4 DEF To, Host, is_i2o_message
<1>9. Input(p, m) /\ UNCHANGED up
  BY <1>7, <1>8 DEF ClientSends
<1>10. landed' = landed \cup {<<m.id, m.kind, p>>} /\ lost' = lost
  BY <1>1, <1>3, <1>4, <1>9, Lands, SMTT(30)
<1>11. UNCHANGED <<tunnel, copy, proxies, update, online, up, hand, updates>>
  BY <1>7, <1>9, ZenonT(30) DEF ClientReceives, counters
<1>f. /\ \A q : Mine(q)' = Mine(q)
      /\ Sent' = Sent /\ Held' = Held
      /\ \A q : Lists(q, tunnel)' = Lists(q, tunnel) /\ EndsOf(q, tunnel)' = EndsOf(q, tunnel)
  BY <1>11, Frame
<1>12. \A q \in Players : down'[q] \in Seq(Mine(q)) /\ (q \notin online => down'[q] = <<>>)
  BY <1>1, <1>2 DEF ClientReceives, Typed, Still
<1>13. Still'
  BY <1>11, <1>12, <1>f, ZenonT(30) DEF Still
<1> QED
  BY <1>3, <1>4, <1>10, <1>13, ZenonT(30) DEF Records

LEMMA ConnectionStill ==
  ASSUME ConstantsOK, Typed, Still, NEW p \in Players, Leave(p) \/ Login(p)
  PROVE  Still' /\ Records
<1>1. UNCHANGED <<tunnel, update, hand, updates, landed, lost>>
  BY DEF Leave, Login, history, counters
<1>f. /\ \A q : Mine(q)' = Mine(q)
      /\ Sent' = Sent /\ Held' = Held
      /\ \A q : Lists(q, tunnel)' = Lists(q, tunnel) /\ EndsOf(q, tunnel)' = EndsOf(q, tunnel)
  BY <1>1, Frame
<1>p. p # 0
  BY DEF ConstantsOK
<1>2. CASE Leave(p)
  <2>1. \A q \in online' : copy'[q] = Lists(q, tunnel) /\ proxies'[q] = EndsOf(q, tunnel)
    BY <1>2 DEF Leave, Typed, Still, Hosts
  <2>2. proxies'[0] = EndsOf(0, tunnel)
    BY <1>2, <1>p DEF Leave, Typed, Still, Hosts
  <2>3. \A q \in Players : /\ down'[q] \in Seq(Mine(q))
                           /\ up'[q] \in Seq(Sent)
                           /\ q \notin online' => down'[q] = <<>>
    BY <1>2 DEF Leave, Typed, Still
  <2>4. Still'
    BY <1>1, <1>f, <2>1, <2>2, <2>3 DEF Still
  <2> QED
    BY <1>1, <2>4 DEF Records
<1>3. CASE Login(p)
  <2>1. Synced(p, Lists(p, tunnel), NoProxies) = EndsOf(p, tunnel)
    <3>1. CASE Concerns(tunnel, p)
      BY <3>1, SyncedFresh DEF Lists
    <3>2. CASE ~ Concerns(tunnel, p)
      <4>1. EndsOf(p, tunnel) = NoProxies
        BY <3>2 DEF EndsOf, Both, NoProxies, Concerns, WantsOutlet, WantsInlet
      <4> QED
        BY <3>2, <4>1, SyncedNothing DEF Lists
    <3> QED
      BY <3>1, <3>2
  <2>2. \A q \in online' : copy'[q] = Lists(q, tunnel) /\ proxies'[q] = EndsOf(q, tunnel)
    BY <1>3, <2>1 DEF Login, Typed, Still, Hosts
  <2>3. proxies'[0] = EndsOf(0, tunnel)
    BY <1>3, <1>p DEF Login, Typed, Still, Hosts
  <2>4. UNCHANGED <<down, up>> /\ online \subseteq online'
    BY <1>3 DEF Login, links
  <2>5. Still'
    BY <1>1, <1>f, <2>2, <2>3, <2>4 DEF Still
  <2> QED
    BY <1>1, <2>5 DEF Records
<1> QED
  BY <1>2, <1>3

LEMMA StillStep ==
  ASSUME ConstantsOK, Unmoved, Typed, Still, [Next]_vars
  PROVE  Still' /\ Records
<1>1. CASE UNCHANGED vars
  BY <1>1, ZenonT(30)
  DEF vars, Still, links, counters, history, Records, Mine, Sent, Held, Apart, Host, Back
<1>2. ~ ((\E new \in Tunnels : Update(new)) \/ Tell \/ Store \/ Sync)
  BY DEF Still, Unmoved, Update, Tell, Store, Sync
<1> QED
  BY <1>1, <1>2, EmitStill, ServerReceivesStill, ClientReceivesStill, ConnectionStill,
     HandStill, SMTT(30) DEF Next

(* While nothing is updated a message lands at the end it is for and at no *)
(* other, and is lost only because the player of that end is offline, for  *)
(* any players, tunnels and lost connections: the records by which the     *)
(* server and the clients route it agree, and where a record sends it an   *)
(* end is running (send_proxy_message, handle_push).                       *)
THEOREM LandsAtRightEnd ==
  ASSUME ConstantsOK, MaxUpdates = 0, \A t \in Tunnels : KnownKind(t)
  PROVE  Spec => []RightEnd
<1>0. Unmoved
  BY DEF Unmoved
<1> DEFINE Inv == Typed /\ Still /\ RightEnd
<1>1. Init => Inv
  BY InitTyped, InitStill DEF Init, RightEnd
<1>2. Inv /\ [Next]_vars => Inv'
  <2> SUFFICES ASSUME Inv, [Next]_vars PROVE Inv'
    OBVIOUS
  <2>1. Still' /\ Records
    BY <1>0, StillStep
  <2>2. Typed'
    BY StepTyped
  <2>3. UNCHANGED tunnel
    BY <1>0, ZenonT(30)
    DEF Next, vars, Still, Unmoved, EmitAtServer, EmitAtClient, ServerReceives,
                ClientReceives, Leave, Login, CheckOnline, Push, Answer, Update, Tell, Store, Sync
  <2>4. \A l \in landed' : l \in landed \/ l[3] = Host(l[2])
    BY <2>1 DEF Records
  <2>5. RightEnd'
    BY <2>1, <2>3, <2>4 DEF RightEnd, Records, Host
  <2> QED
    BY <2>1, <2>2, <2>5
<1> QED
  BY <1>1, <1>2, PTL DEF Spec

-----------------------------------------------------------------------------
(* Answers in the name of an offline player, while at most one connection  *)
(* is lost.                                                                *)
Carries(p, l) ==
  \E i \in DOMAIN down[p] : /\ is_proxy_pb(down[p][i])
                            /\ down[p][i].body = l[1]
                            /\ down[p][i].type[2] \in IF l[2] \in I2o THEN O2i ELSE I2o
Given(l) == \E k \in landed : k[1] = l[1] /\ k[2] \in IF l[2] \in I2o THEN O2i ELSE I2o

LEMMA AnsweredIs ==
  ASSUME NEW l
  PROVE  Answered(l) <=> Given(l) \/ \E p \in Players : Carries(p, l)
  BY DEF Answered, Given, Carries

LEMMA PushKeeps ==
  ASSUME Typed, NEW q \in Players, NEW pb \in Pbs, down' = Pushed(q, pb),
         NEW p \in Players, NEW l, Carries(p, l)
  PROVE  Carries(p, l)'
<1>0. down \in [Players -> Seq(Pbs \cup Ntfs)]
  BY DEF Typed
<1>1. CASE q \in online /\ p = q
  <2>1. down'[p] = Append(down[p], pb)
    BY <1>0, <1>1 DEF Pushed
  <2>2. PICK s \in Seq(Pbs \cup Ntfs) : s = down[p]
    BY <1>0
  <2>3. \A i \in DOMAIN s : i \in DOMAIN Append(s, pb) /\ Append(s, pb)[i] = s[i]
    OBVIOUS
  <2> QED
    BY <2>1, <2>2, <2>3 DEF Carries
<1>2. CASE ~ (q \in online /\ p = q)
  <2>1. down'[p] = down[p]
    BY <1>0, <1>2 DEF Pushed
  <2> QED
    BY <2>1 DEF Carries
<1> QED
  BY <1>1, <1>2

(* A given answer stays given, and one under way is not lost unless a      *)
(* connection is.                                                          *)
LEMMA AnswersKept ==
  ASSUME ConstantsOK, Unmoved, Typed, Still, [Next]_vars, ~ \E p \in Players : Leave(p),
         NEW l, Answered(l)
  PROVE  Answered(l)'
<1>1. landed \subseteq landed'
  BY StillStep DEF Records
<1>2. CASE Given(l)
  <2>1. Given(l)'
    BY <1>1, <1>2 DEF Given
  <2> QED
    BY <2>1 DEF Answered, Given
<1>3. ASSUME NEW p \in Players, Carries(p, l)
      PROVE  Answered(l)'
  <2>1. CASE UNCHANGED down
    <3>1. Carries(p, l)'
      BY <1>3, <2>1 DEF Carries
    <3> QED
      BY <3>1 DEF Answered, Carries
  <2>2. ASSUME NEW q \in Players, NEW pb \in Pbs, down' = Pushed(q, pb)
        PROVE  Answered(l)'
    <3>1. Carries(p, l)'
      BY <1>3, <2>2, PushKeeps
    <3> QED
      BY <3>1 DEF Answered, Carries
  <2>3. ASSUME NEW q \in Players, ClientReceives(q)
        PROVE  Answered(l)'
    <3>1. CASE q # p
      <4>1. down'[p] = down[p]
        BY <2>3, <3>1 DEF ClientReceives, Typed
      <4>2. Carries(p, l)'
        BY <1>3, <4>1 DEF Carries
      <4> QED
        BY <4>2 DEF Answered, Carries
    <3>2. CASE q = p
      <4>1. PICK s \in Seq(Pbs \cup Ntfs) : s = down[p]
        BY DEF Typed
      <4>2. s # <<>> /\ down'[p] = Tail(s)
        BY <2>3, <3>2, <4>1 DEF ClientReceives, Typed
      <4>3. PICK i \in DOMAIN s : /\ is_proxy_pb(s[i])
                                  /\ s[i].body = l[1]
                                  /\ s[i].type[2] \in IF l[2] \in I2o THEN O2i ELSE I2o
        BY <1>3, <4>1 DEF Carries
      <4>4. CASE i = 1
        <5>1. s[1] = Head(s)
          BY <4>2
        <5>2. <<s[i].body, s[i].type[2], p>> \in landed'
          BY <2>3, <3>2, <4>1, <4>4, <5>1, ClientReceivesStill, ZenonT(30)
        <5>3. Given(l)'
          BY <4>3, <5>2 DEF Given
        <5> QED
          BY <5>3, ZenonT(30) DEF Answered, Given
      <4>5. CASE i # 1
        <5>1. i - 1 \in DOMAIN Tail(s) /\ Tail(s)[i - 1] = s[i]
          BY <4>2, <4>5
        <5>2. Carries(p, l)'
          BY <4>2, <4>3, <5>1 DEF Carries
        <5> QED
          BY <5>2 DEF Answered, Carries
      <4> QED
        BY <4>4, <4>5
    <3> QED
      BY <3>1, <3>2
  <2>4. ASSUME NEW h \in Hosts, Push(h) \/ Answer(h)
        PROVE  UNCHANGED down \/ \E q \in Players, pb \in Pbs : down' = Pushed(q, pb)
    <3>0. hand[h].pc \in {"push", "answer"}
      BY <2>4, ZenonT(30) DEF Push, Answer
    <3>1. hand[h] \in Hands /\ tunnel \in Tunnels
      BY <3>0 DEF Idle, Typed
    <3>2. hand[h].msg \in Msgs /\ hand[h].to \in Players /\ hand[h].from \in Hosts
      BY <3>1 DEF Hands
    <3>3. CASE Push(h)
      BY <3>1, <3>2, <3>3, PbTyped, ZenonT(30) DEF Push
    <3>4. CASE Answer(h)
      <4> DEFINE a == Msg(hand[h].msg.id, OfflineAnswer(hand[h].msg.kind))
      <4>1. \/ down' = down
            \/ /\ a.kind # "none"
               /\ hand[h].from # 0
               /\ down' = Pushed(hand[h].from, proxy_message_2_pb(a, tunnel.id))
        BY <3>4, ZenonT(30) DEF Answer
      <4>2. a.kind # "none" => a \in Msgs
        BY <3>2 DEF OfflineAnswer, Msg, Msgs, AllKinds, I2o, O2i
      <4> HIDE DEF a
      <4> QED
        BY <3>1, <3>2, <4>1, <4>2, PbTyped DEF Hosts
    <3> QED
      BY <2>4, <3>3, <3>4
  <2>5. \/ UNCHANGED down
        \/ \E q \in Players : ClientReceives(q)
        \/ \E h \in Hosts : Push(h) \/ Answer(h)
    BY DEF Next, vars, links, EmitAtServer, EmitAtClient, ServerReceives, Login, CheckOnline,
           Update, Tell, Store, Sync, Still, Unmoved
  <2> QED
    BY <2>1, <2>2, <2>3, <2>4, <2>5
<1> QED
  BY <1>2, <1>3, AnsweredIs

(* Who can be offline, and who the server then answers.                    *)
OneLeft ==
  /\ leaves <= 1
  /\ leaves = 0 => online = Players
  /\ \A p, q \in Players \ online : p = q
  /\ \A h \in Hosts : hand[h].pc = "answer" => leaves = 1 /\ hand[h].from \in online \cup {0}
  /\ \A l \in lost : l[3] = "offline" => leaves = 1

(* A message is given up as offline only by Answer.                        *)
LEMMA OnlyAnswerGivesUp ==
  ASSUME ConstantsOK, Unmoved, Typed, Still, [Next]_vars
  PROVE  \A l \in lost' : \/ l \in lost
                          \/ l[3] # "offline"
                          \/ \E h \in Hosts : /\ Answer(h)
                                              /\ l = <<hand[h].msg.id, hand[h].msg.kind, "offline">>
<1>1. ASSUME NEW h, NEW m, Input(h, m)
      PROVE  \A l \in lost' : l \in lost \/ l[3] # "offline"
  <2>1. PICK x : x = <<m.id, m.kind, "no end">>
    OBVIOUS
  <2>2. lost' = lost \/ lost' = lost \cup {x}
    BY <1>1, <2>1, ZenonT(30) DEF Input
  <2>3. x[3] = "no end"
    BY <2>1
  <2> QED
    BY <2>2, <2>3
<1>2. ASSUME NEW kind \in Kinds, EmitAtServer(kind)
      PROVE  \A l \in lost' : l \in lost \/ l[3] # "offline"
  BY <1>1, <1>2 DEF EmitAtServer, ServerSends, history
<1>3. ASSUME NEW kind \in Kinds, NEW p \in Players, EmitAtClient(p, kind)
      PROVE  \A l \in lost' : l \in lost \/ l[3] # "offline"
  BY <1>1, <1>3 DEF EmitAtClient, ClientSends, history
<1>4. ASSUME NEW p \in Players, ServerReceives(p)
      PROVE  \A l \in lost' : l \in lost \/ l[3] # "offline"
  BY <1>1, <1>4 DEF ServerReceives, ServerSends, history
<1>5. ASSUME NEW p \in Players, ClientReceives(p)
      PROVE  lost' = lost
  BY <1>5, ClientReceivesStill
<1>6. ASSUME NEW h \in Hosts, Push(h)
      PROVE  \A l \in lost' : l \in lost \/ l[3] # "offline"
  BY <1>6 DEF Push, Drop, history
<1>7. ASSUME NEW h \in Hosts, Answer(h)
      PROVE  lost' = lost \cup {<<hand[h].msg.id, hand[h].msg.kind, "offline">>}
  BY <1>7, ZenonT(30) DEF Answer
<1>8. CASE \/ UNCHANGED vars
           \/ \E h \in Hosts : CheckOnline(h)
           \/ \E p \in Players : Leave(p) \/ Login(p)
           \/ (\E new \in Tunnels : Update(new)) \/ Tell \/ Store \/ Sync
  BY <1>8 DEF vars, history, CheckOnline, Leave, Login, Update, Tell, Store, Sync
<1> QED
  BY <1>2, <1>3, <1>4, <1>5, <1>6, <1>7, <1>8, ZenonT(30) DEF Next

LEMMA OneLeftStep ==
  ASSUME ConstantsOK, Unmoved, MaxLeaves <= 1, Typed, Still, OneLeft, [Next]_vars
  PROVE  OneLeft'
<1> USE DEF OneLeft
<1>0. leaves \in Nat /\ online \subseteq Players /\ hand \in [Hosts -> Hands \cup {Idle}]
  BY DEF Typed
<1>i. Idle.pc # "answer"
  BY DEF Idle
<1>1. CASE UNCHANGED vars
  BY <1>1, ZenonT(30) DEF vars, counters, history
<1>2. ASSUME NEW p \in Players, Leave(p)
      PROVE  OneLeft'
  <2>1. leaves = 0 /\ leaves' = 1
    BY <1>0, <1>2 DEF Leave, ConstantsOK
  <2>2. online' = Players \ {p} /\ UNCHANGED <<hand, lost>>
    BY <1>2, <2>1 DEF Leave, history
  <2>3. \A h \in Hosts : hand[h].pc # "answer"
    BY <2>1
  <2>4. \A l \in lost : l[3] # "offline"
    BY <2>1
  <2> QED
    BY <2>1, <2>2, <2>3, <2>4
<1>3. ASSUME NEW p \in Players, Login(p)
      PROVE  OneLeft'
  <2>1. UNCHANGED <<leaves, hand, lost>> /\ online' = online \cup {p}
    BY <1>3 DEF Login, counters, history
  <2> QED
    BY <1>0, <2>1
<1>4. ASSUME NEW h \in Hosts, CheckOnline(h)
      PROVE  OneLeft'
  <2>1. UNCHANGED <<leaves, online, lost>>
    BY <1>4 DEF CheckOnline, counters, history
  <2>2. hand[h] \in Held
    BY <1>4 DEF CheckOnline, Idle, Still
  <2>3. hand[h] \in Hands /\ hand[h].from # hand[h].to /\ hand[h].from \in Hosts
        /\ hand[h].to \in Players
    BY <2>2 DEF Held, Hands, Apart, Host, Back
  <2>4. PICK pc : pc = IF hand[h].to \in online THEN "push" ELSE "answer"
    OBVIOUS
  <2>5. hand' = [hand EXCEPT ![h] = [hand[h] EXCEPT !.pc = pc]]
    BY <1>4, <2>4 DEF CheckOnline
  <2>6. PICK new : new = [hand[h] EXCEPT !.pc = pc]
    OBVIOUS
  <2>7. new.pc = pc /\ new.from = hand[h].from
    BY <2>3, <2>6 DEF Hands
  <2>8. pc = "answer" => leaves = 1 /\ hand[h].from \in online \cup {0}
    <3>1. SUFFICES ASSUME hand[h].to \notin online
                   PROVE  leaves = 1 /\ hand[h].from \in online \cup {0}
      BY <2>4
    <3>2. leaves = 1
      BY <1>0, <2>3, <3>1
    <3> QED
      BY <2>3, <3>1, <3>2 DEF Hosts
  <2>9. hand'[h] = new /\ \A g \in Hosts : g # h => hand'[g] = hand[g]
    BY <1>0, <2>5, <2>6
  <2>10. \A g \in Hosts : hand'[g].pc = "answer" => leaves = 1 /\ hand'[g].from \in online \cup {0}
    BY <2>7, <2>8, <2>9
  <2> QED
    BY <2>1, <2>10
<1>5. ASSUME NEW h \in Hosts, Push(h) \/ Answer(h)
      PROVE  OneLeft'
  <2>1. UNCHANGED <<leaves, online>> /\ hand' = [hand EXCEPT ![h] = Idle]
    BY <1>5, ZenonT(30) DEF Push, Answer, counters
  <2>2. \A l \in lost' : l[3] = "offline" => leaves = 1
    BY <1>5, OnlyAnswerGivesUp, ZenonT(30) DEF Answer
  <2>3. \A g \in Hosts : hand'[g] = Idle \/ hand'[g] = hand[g]
    BY <1>0, <2>1
  <2> QED
    BY <1>i, <2>1, <2>2, <2>3, SMTT(30)
<1>6. ASSUME NEW h \in Hosts, NEW from, NEW to, NEW m, ServerSends(h, from, to, m)
      PROVE  \A g \in Hosts : hand'[g] = hand[g] \/ hand'[g].pc = "check"
  BY <1>0, <1>6 DEF ServerSends
<1>7. ASSUME UNCHANGED <<leaves, online>>,
             \A g \in Hosts : hand'[g] = hand[g] \/ hand'[g].pc = "check",
             \A h \in Hosts : ~ Answer(h)
      PROVE  OneLeft'
  <2>1. \A l \in lost' : l[3] = "offline" => leaves = 1
    BY <1>7, OnlyAnswerGivesUp
  <2> QED
    BY <1>7, <2>1, ZenonT(30)
<1>8. \A h \in Hosts : Answer(h) => leaves = leaves'
  BY ZenonT(30) DEF Answer, counters
<1>9. ASSUME NEW kind \in Kinds, EmitAtServer(kind)
      PROVE  OneLeft'
  <2>1. UNCHANGED <<leaves, online>> /\ \E to, m : ServerSends(0, 0, to, m)
    BY <1>9, ZenonT(30) DEF EmitAtServer
  <2>2. 0 \in Hosts
    BY DEF Hosts
  <2>3. \A g \in Hosts : hand'[g] = hand[g] \/ hand'[g].pc = "check"
    BY <1>6, <2>1, <2>2, ZenonT(30)
  <2>4. emitted' # emitted
    BY <1>9 DEF EmitAtServer, Typed, ConstantsOK
  <2>5. \A h \in Hosts : ~ Answer(h)
    BY <2>4, ZenonT(30) DEF Answer, counters
  <2> QED
    BY <1>7, <2>1, <2>3, <2>5, SMTT(30)
<1>10. ASSUME NEW kind \in Kinds, NEW p \in Players, EmitAtClient(p, kind)
       PROVE  OneLeft'
  <2>1. UNCHANGED <<leaves, online, hand>>
    BY <1>10 DEF EmitAtClient
  <2>2. emitted' # emitted
    BY <1>10, SMTT(30) DEF EmitAtClient, Typed, ConstantsOK
  <2>3. \A h \in Hosts : ~ Answer(h)
    BY <2>2, ZenonT(30) DEF Answer, counters
  <2> QED
    BY <1>7, <2>1, <2>3
<1>11. ASSUME NEW p \in Players, ServerReceives(p)
       PROVE  OneLeft'
  <2>0. UNCHANGED <<leaves, online>>
    BY <1>11, ZenonT(30) DEF ServerReceives, counters
  <2>1. \E from, to, m : ServerSends(p, from, to, m)
    BY <1>11, ZenonT(30) DEF ServerReceives
  <2>2. p \in Hosts
    BY DEF Hosts
  <2>3. \A g \in Hosts : hand'[g] = hand[g] \/ hand'[g].pc = "check"
    BY <1>6, <2>1, <2>2, ZenonT(30)
  <2>4. up'[p] # up[p]
    <3>1. PICK s \in Seq(Pbs) : s = up[p]
      BY DEF Typed
    <3>2. s # <<>> /\ up'[p] = Tail(s)
      BY <1>11, <3>1 DEF ServerReceives, Typed
    <3>3. Len(Tail(s)) # Len(s)
      BY <3>2
    <3> QED
      BY <3>1, <3>2, <3>3
  <2>5. \A h \in Hosts : ~ Answer(h)
    BY <2>4, ZenonT(30) DEF Answer
  <2> QED
    BY <1>7, <2>0, <2>3, <2>5, SMTT(30)
<1>12. ASSUME NEW p \in Players, ClientReceives(p)
       PROVE  OneLeft'
  <2>1. UNCHANGED <<leaves, online, hand>> /\ lost' = lost
    BY <1>12, ClientReceivesStill, ZenonT(30) DEF ClientReceives, counters
  <2> QED
    BY <2>1
<1>13. ~ ((\E new \in Tunnels : Update(new)) \/ Tell \/ Store \/ Sync)
  BY DEF Still, Unmoved, Update, Tell, Store, Sync
<1> QED
  BY <1>1, <1>2, <1>3, <1>4, <1>5, <1>9, <1>10, <1>11, <1>12, <1>13, ZenonT(30) DEF Next

(* The answer is given at once at the server, or sent to the client.       *)
LEMMA AnswerGives ==
  ASSUME ConstantsOK, Unmoved, Typed, Still, OneLeft, NEW h \in Hosts, Answer(h),
         NEW m, m = hand[h].msg, m.kind \in Waiting,
         NEW l, l = <<m.id, m.kind, "offline">>
  PROVE  Answered(l)'
<1> DEFINE from == hand[h].from
           a == Msg(m.id, OfflineAnswer(m.kind))
           side == IF m.kind \in I2o THEN O2i ELSE I2o
<1>0. hand[h].pc = "answer" /\ hand[h] \in Held \cup {Idle}
  BY ZenonT(30) DEF Still, Answer
<1>1. hand[h] \in Held /\ hand[h].pc = "answer"
  BY <1>0 DEF Idle
<1>2. m \in Msgs /\ Apart /\ from = Back(m.kind) /\ from \in online \cup {0} /\ from \in Hosts
  BY <1>1 DEF Held, Hands, OneLeft
<1>3. OfflineAnswer(m.kind) # "none" /\ OfflineAnswer(m.kind) \in side
  BY DEF OfflineAnswer, Waiting, I2o, O2i
<1>4. a \in Msgs /\ a.id = m.id /\ a.kind = OfflineAnswer(m.kind)
  BY <1>2, <1>3, AnswerTurns, ZenonT(30) DEF Msg
<1>5. a.id = m.id /\ a.kind \in side /\ a.kind # "none"
  BY <1>3, <1>4
<1>6. CASE from = 0
  <2>1. landed' = landed \cup
           {<<a.id, a.kind, 0>> : x \in {y \in Emitters(0, m) : a.kind # "none" /\ from = 0}}
    BY ZenonT(30) DEF Answer
  <2> HIDE DEF a
  <2>2. Emitters(0, m) # {}
    <3>1. proxies[0] = EndsOf(0, tunnel) /\ KnownKind(tunnel) /\ tunnel.enabled
      BY <1>2, ZenonT(30) DEF Still, Unmoved, Typed, Apart
    <3>2. CASE m.kind \in I2o
      <4>1. WantsInlet(0, tunnel)
        BY <1>2, <1>6, <3>1, <3>2 DEF Back, WantsInlet
      <4>2. proxies[0].inlets = {NewInlet(tunnel)}
        BY <3>1, <4>1 DEF EndsOf, Both
      <4> QED
        BY <3>2, <4>2, ZenonT(30) DEF Emitters, is_i2o_message
    <3>3. CASE m.kind \notin I2o
      <4>1. WantsOutlet(0, tunnel)
        BY <1>2, <1>6, <3>1, <3>3 DEF Back, WantsOutlet
      <4>2. proxies[0].outlets = {NewOutlet(tunnel)}
        BY <3>1, <4>1 DEF EndsOf, Both
      <4> QED
        BY <3>3, <4>2 DEF Emitters, is_i2o_message
    <3> QED
      BY <3>2, <3>3
  <2>3. <<a.id, a.kind, 0>> \in landed'
    BY <1>5, <1>6, <2>1, <2>2, SMTT(30)
  <2> QED
    BY <1>5, <2>3, ZenonT(30) DEF Answered
<1>7. CASE from # 0
  <2> DEFINE pb == proxy_message_2_pb(a, tunnel.id)
  <2>1. down' = Pushed(from, pb)
    BY <1>5, <1>7, ZenonT(30) DEF Answer
  <2>2. pb \in Pbs /\ is_proxy_pb(pb) /\ pb.body = m.id /\ pb.type[2] \in side
    <3>1. tunnel \in Tunnels
      BY DEF Typed
    <3> HIDE DEF a
    <3> QED
      BY <1>4, <1>5, <3>1, PbTyped, PbIs, MsgTyped, ZenonT(30)
  <2> HIDE DEF pb, a
  <2>3. from \in online /\ from \in Players
    BY <1>2, <1>7 DEF Typed
  <2>4. PICK p \in Players : p = from
    BY <2>3
  <2>5. PICK s \in Seq(Pbs \cup Ntfs) : s = down[p]
    BY DEF Typed
  <2>6. down'[p] = Append(s, pb)
    BY <2>1, <2>3, <2>4, <2>5 DEF Pushed, Typed
  <2>7. Len(s) + 1 \in DOMAIN Append(s, pb) /\ Append(s, pb)[Len(s) + 1] = pb
    BY <2>2
  <2> QED
    BY <2>2, <2>4, <2>6, <2>7, ZenonT(30) DEF Answered
<1> QED
  BY <1>6, <1>7

(* While nothing is updated and at most one connection is lost, a message  *)
(* that finds its player offline is answered in the player's name whenever *)
(* the session it came from waits, and the answer arrives: for any players *)
(* and tunnels and however many messages are on their way                  *)
(* (send_proxy_message).                                                   *)
THEOREM OfflineIsAnswered ==
  ASSUME ConstantsOK, MaxUpdates = 0, MaxLeaves <= 1, \A t \in Tunnels : KnownKind(t)
  PROVE  Spec => []OfflineAnswered
<1>0. Unmoved
  BY DEF Unmoved
<1> DEFINE Inv == Typed /\ Still /\ OneLeft /\ OfflineAnswered
<1>1. Init => Inv
  <2> SUFFICES ASSUME Init PROVE OneLeft /\ OfflineAnswered
    BY InitTyped, InitStill
  <2>1. \A h \in Hosts : hand[h].pc # "answer"
    BY DEF Init, Idle
  <2> QED
    BY <2>1 DEF Init, OneLeft, OfflineAnswered
<1>2. Inv /\ [Next]_vars => Inv'
  <2> SUFFICES ASSUME Inv, [Next]_vars PROVE Inv'
    OBVIOUS
  <2>1. Still' /\ Typed' /\ OneLeft'
    BY <1>0, StillStep, StepTyped, OneLeftStep
  <2>2. ASSUME NEW l \in lost', l[2] \in Waiting, l[3] = "offline"
        PROVE  Answered(l)'
    <3>1. CASE l \in lost
      <4>1. leaves = 1
        BY <2>2, <3>1 DEF OneLeft
      <4>2. ~ \E p \in Players : Leave(p)
        <5>1. MaxLeaves \in Nat /\ ~ (leaves < MaxLeaves)
          BY <4>1 DEF ConstantsOK
        <5> QED
          BY <5>1, ZenonT(30) DEF Leave
      <4>3. PICK k : k = l
        OBVIOUS
      <4>4. Answered(k)
        BY <2>2, <3>1, <4>3 DEF OfflineAnswered
      <4>5. Answered(k)'
        BY <1>0, <4>2, <4>4, AnswersKept
      <4> QED
        BY <4>3, <4>5
    <3>2. CASE l \notin lost
      <4>1. PICK h \in Hosts : /\ Answer(h)
                               /\ l = <<hand[h].msg.id, hand[h].msg.kind, "offline">>
        BY <1>0, <2>2, <3>2, OnlyAnswerGivesUp
      <4>2. PICK m : m = hand[h].msg
        OBVIOUS
      <4>3. m.kind \in Waiting /\ l = <<m.id, m.kind, "offline">>
        BY <2>2, <4>1, <4>2
      <4> QED
        BY <1>0, <4>1, <4>2, <4>3, AnswerGives
    <3> QED
      BY <3>1, <3>2
  <2>3. OfflineAnswered'
    BY <2>2 DEF OfflineAnswered
  <2> QED
    BY <2>1, <2>3
<1> QED
  BY <1>1, <1>2, PTL DEF Spec
=============================================================================
