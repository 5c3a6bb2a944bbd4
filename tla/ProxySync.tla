------------------------------ MODULE ProxySync ------------------------------
(***************************************************************************)
(* ProxyManager::sync_tunnels on the server, step by step.  Each change of *)
(* the list of tunnels is followed by a sync in the same task, and the     *)
(* syncs of several tasks overlap: each holds only a read guard on the     *)
(* list.  The maps of outlets and inlets have a lock each.  Its write      *)
(* guard is a temporary of the `if let` that removes an entry, so it lives *)
(* until the removed proxy has stopped.                                    *)
(***************************************************************************)
EXTENDS Proxies

CONSTANTS
  Tasks,      \* tasks that change the list and then sync
  Lists,      \* the lists of tunnels there may be
  MaxChanges  \* bound: changes in all

ConstantsOK ==
  /\ MaxChanges \in Nat
  /\ \A list \in Lists : \A t, u \in list :
       t.id = u.id \/ (t.receiver = u.receiver /\ t.port = u.port) => t = u

VARIABLES
  list,     \* TunnelManager.tunnels
  outlets,  \* ProxyManager.outlets
  inlets,   \* ProxyManager.inlets
  bound,    \* ports with a listener of ours
  task,     \* each task: [pc, keys (ids to drop), adds (tunnels to look at),
            \* now (the inlet being stopped or the tunnel being started)]
  changes

vars == <<list, outlets, inlets, bound, task, changes>>

Server == 0
Idle == [pc |-> "idle", keys |-> {}, adds |-> {}, now |-> {}]

Init ==
  /\ list = {}
  /\ outlets = {}
  /\ inlets = {}
  /\ bound = {}
  /\ task = [k \in Tasks |-> Idle]
  /\ changes = 0

At(k, pc) == task[k].pc = pc
Drop(k, pc, keys, now) ==
  task' = [task EXCEPT ![k] = [Idle EXCEPT !.pc = pc, !.keys = keys, !.now = now]]
Add(k, pc, adds, now) ==
  task' = [task EXCEPT ![k] = [Idle EXCEPT !.pc = pc, !.adds = adds, !.now = now]]

(* Who holds the guards that live across an await.                         *)
ListFree == \A k \in Tasks : task[k].pc \in {"idle", "changed"}
InletsFree == \A k \in Tasks : ~ At(k, "stop_inlet")

OutletsFree == \A k \in Tasks : ~ At(k, "stop_outlet")

(* A request stores its change under the write lock of the list.           *)
Change(k, new) ==
  /\ At(k, "idle")
  /\ ListFree
  /\ changes < MaxChanges
  /\ changes' = changes + 1
  /\ list' = new
  /\ Drop(k, "changed", {}, {})
  /\ UNCHANGED <<outlets, inlets, bound>>

CollectOutlets(k) ==
  /\ At(k, "changed")
  /\ OutletsFree
  /\ Drop(k, "drop_outlets",
          {o.id : o \in {x \in outlets : ~ RetainOutlet(Server, list, x)}}, {})
  /\ UNCHANGED <<list, outlets, inlets, bound, changes>>

(* An entry that another sync has removed already is passed over.          *)
DropOutlet(k, id) ==
  /\ At(k, "drop_outlets")
  /\ OutletsFree
  /\ outlets' = {o \in outlets : o.id # id}
  /\ Drop(k, IF outlets' = outlets THEN "drop_outlets" ELSE "stop_outlet",
          task[k].keys \ {id}, {})
  /\ UNCHANGED <<list, inlets, bound, changes>>

(* Outlet::stop returns, after 10 s at the latest; the guard is dropped.   *)
StopOutlet(k) ==
  /\ At(k, "stop_outlet")
  /\ Drop(k, "drop_outlets", task[k].keys, {})
  /\ UNCHANGED <<list, outlets, inlets, bound, changes>>

(* Mutant: an inlet is looked up by its id alone.                          *)
InvalidInletsById == {i \in inlets : Lacks(list, i)}

InvalidInlets == {i \in inlets : ~ RetainInlet(Server, list, i)}

CollectInlets(k) ==
  /\ At(k, "drop_outlets")
  /\ task[k].keys = {}
  /\ InletsFree
  /\ Drop(k, "drop_inlets", {i.id : i \in InvalidInlets}, {})
  /\ UNCHANGED <<list, outlets, inlets, bound, changes>>

DropInlet(k, id) ==
  LET gone == {i \in inlets : i.id = id}
  IN  /\ At(k, "drop_inlets")
      /\ InletsFree
      /\ inlets' = inlets \ gone
      /\ Drop(k, IF gone = {} THEN "drop_inlets" ELSE "stop_inlet",
              task[k].keys \ {id}, gone)
      /\ UNCHANGED <<list, outlets, bound, changes>>

Released(stopped) == bound \ {i.port : i \in stopped}

(* Inlet::stop waits until the listener and its sessions have ended.       *)
StopInlet(k) ==
  /\ At(k, "stop_inlet")
  /\ bound' = Released(task[k].now)
  /\ Drop(k, "drop_inlets", task[k].keys, {})
  /\ UNCHANGED <<list, outlets, inlets, changes>>

BeginAdds(k) ==
  /\ At(k, "drop_inlets")
  /\ task[k].keys = {}
  /\ Add(k, "add_outlets", {t \in list : WantsOutlet(Server, t)}, {})
  /\ UNCHANGED <<list, outlets, inlets, bound, changes>>

(* contains_key; an outlet that is missing is created and inserted at the  *)
(* next await, where it replaces one that was inserted meanwhile.          *)
CheckOutlet(k, t) ==
  /\ At(k, "add_outlets")
  /\ OutletsFree
  /\ Add(k, IF Lacks(outlets, t) THEN "create" ELSE "add_outlets",
         task[k].adds \ {t}, IF Lacks(outlets, t) THEN {t} ELSE {})
  /\ UNCHANGED <<list, outlets, inlets, bound, changes>>
InsertOutlet(k, t) ==
  /\ At(k, "create")
  /\ OutletsFree
  /\ outlets' = {o \in outlets : o.id # t.id} \cup {NewOutlet(t)}
  /\ Add(k, "add_outlets", task[k].adds, {})
  /\ UNCHANGED <<list, inlets, bound, changes>>

BeginInlets(k) ==
  /\ At(k, "add_outlets")
  /\ task[k].adds = {}
  /\ Add(k, "add_inlets", {t \in list : WantsInlet(Server, t)}, {})
  /\ UNCHANGED <<list, outlets, inlets, bound, changes>>

CheckInlet(k, t) ==
  LET start == Lacks(inlets, t) /\ KnownKind(t)
  IN  /\ At(k, "add_inlets")
      /\ InletsFree
      /\ Add(k, IF start THEN "start" ELSE "add_inlets",
             task[k].adds \ {t}, IF start THEN {t} ELSE {})
      /\ UNCHANGED <<list, outlets, inlets, bound, changes>>

(* Inlet::start: an address in use is an error, and the tunnel is skipped. *)
StartInlet(k, t) ==
  /\ At(k, "start")
  /\ IF t.port \in bound THEN Add(k, "add_inlets", task[k].adds, {})
                          ELSE Add(k, "started", task[k].adds, {t})
  /\ bound' = bound \cup {t.port}
  /\ UNCHANGED <<list, outlets, inlets, changes>>
InsertInlet(k, t) ==
  /\ At(k, "started")
  /\ InletsFree
  /\ inlets' = {i \in inlets : i.id # t.id} \cup {NewInlet(t)}
  /\ Add(k, "add_inlets", task[k].adds, {})
  /\ UNCHANGED <<list, outlets, bound, changes>>

Finish(k) ==
  /\ At(k, "add_inlets")
  /\ task[k].adds = {}
  /\ task' = [task EXCEPT ![k] = Idle]
  /\ UNCHANGED <<list, outlets, inlets, bound, changes>>

Sync(k) ==
  \/ CollectOutlets(k) \/ StopOutlet(k) \/ CollectInlets(k) \/ StopInlet(k)
  \/ BeginAdds(k) \/ BeginInlets(k) \/ Finish(k)
  \/ \E id \in task[k].keys : DropOutlet(k, id) \/ DropInlet(k, id)
  \/ \E t \in task[k].adds : CheckOutlet(k, t) \/ CheckInlet(k, t)
  \/ \E t \in task[k].now :
       InsertOutlet(k, t) \/ StartInlet(k, t) \/ InsertInlet(k, t)

Next == \E k \in Tasks : Sync(k) \/ \E new \in Lists : Change(k, new)

Spec == Init /\ [][Next]_vars

-----------------------------------------------------------------------------
(* A listening port belongs to one inlet: in the map, being stopped, or    *)
(* started and on its way into the map; and each of those has its port.    *)
Holders(p) ==
  {<<"map", i.id>> : i \in {x \in inlets : x.port = p}} \cup
  {<<"stop", k>> : k \in {j \in Tasks : /\ At(j, "stop_inlet")
                                        /\ \E i \in task[j].now : i.port = p}}
  \cup
  {<<"new", k>> : k \in {j \in Tasks : /\ At(j, "started")
                                       /\ \E t \in task[j].now : t.port = p}}
OnePortOneInlet ==
  \A p \in {t.port : t \in UNION Lists} :
    IF p \in bound THEN \E h \in Holders(p) : Holders(p) = {h}
                   ELSE Holders(p) = {}

(* When the last of several overlapping syncs is done, the proxies are     *)
(* those the list asks for: a sync that was refused a port another one was *)
(* still using, or whose fresh proxy another one removed, is made up for.  *)
Converged ==
  (\A k \in Tasks : At(k, "idle")) =>
    /\ {o.description : o \in outlets} =
         {outlet_description(t) : t \in {u \in list : WantsOutlet(Server, u)}}
    /\ {i.description : i \in inlets} =
         {inlet_description(t) : t \in {u \in list : WantsInlet(Server, u)
                                                     /\ KnownKind(u)}}

(* Syncs that hold the list while they wait for the maps, and the maps     *)
(* while they stop proxies, never all wait for each other: while one is    *)
(* under way, one can go on.                                               *)
NotStuck == (\E k \in Tasks : ~ At(k, "idle")) => ENABLED \E k \in Tasks : Sync(k)
========================================
