-------------------------- MODULE TunnelAdminProofs --------------------------
(***************************************************************************)
(* Proofs about ProxySync, for any number of tasks, lists and changes.     *)
(***************************************************************************)
EXTENDS ProxySync, TLAPS

-----------------------------------------------------------------------------
(* Types of the state, and what a task works on.  A task that is past      *)
(* "changed" holds a read guard on the list, so the tunnels it was given   *)
(* are those of the list.                                                  *)
All == UNION Lists
Outs == {NewOutlet(t) : t \in All}
Ins == {NewInlet(t) : t \in All}
Stages == {"idle", "changed", "drop_outlets", "stop_outlet", "drop_inlets", "stop_inlet",
           "add_outlets", "create", "add_inlets", "start", "started"}
Works == [pc : Stages, keys : SUBSET {t.id : t \in All}, adds : SUBSET All,
          now : SUBSET (All \cup Ins)]

WantO == {t \in list : WantsOutlet(Server, t)}
WantI == {t \in list : WantsInlet(Server, t)}
RunI == {t \in WantI : KnownKind(t)}

Typed ==
  /\ list \in Lists \cup {{}}
  /\ outlets \subseteq Outs
  /\ inlets \subseteq Ins
  /\ task \in [Tasks -> Works]

Given(k) ==
  /\ task[k].pc \in {"add_outlets", "create"} => task[k].adds \subseteq WantO
  /\ task[k].pc = "create" => task[k].now \subseteq WantO
  /\ task[k].pc \in {"add_inlets", "start", "started"} => task[k].adds \subseteq WantI
  /\ task[k].pc \in {"start", "started"} => task[k].now \subseteq RunI
  /\ task[k].pc = "stop_inlet" => task[k].now \subseteq Ins
  /\ \A x, y \in task[k].now : x = y

(* An id has one outlet and one inlet.                                     *)
Unique ==
  /\ \A o, u \in outlets : o.id = u.id => o = u
  /\ \A i, u \in inlets : i.id = u.id => i = u

Sound == Typed /\ Unique /\ \A k \in Tasks : Given(k)

LEMMA ListUnique ==
  ASSUME ConstantsOK, Typed, NEW t \in list, NEW u \in list,
         t.id = u.id \/ (t.receiver = u.receiver /\ t.port = u.port)
  PROVE  t = u
<1>1. list \in Lists
  BY DEF Typed
<1> QED
  BY <1>1 DEF ConstantsOK

LEMMA ListTyped ==
  ASSUME Typed, NEW t \in list
  PROVE  t \in All
  BY DEF Typed, All

LEMMA OutIs ==
  ASSUME NEW o \in Outs
  PROVE  \E t \in All : /\ o.id = t.id /\ o.id = o.description[1]
                        /\ o.description = outlet_description(t)
  BY DEF Outs, NewOutlet, outlet_description

LEMMA InIs ==
  ASSUME NEW i \in Ins
  PROVE  \E t \in All : /\ i.id = t.id /\ i.port = t.port
                        /\ i.id = i.description[1] /\ i.port = i.description[2]
                        /\ i.description = inlet_description(t)
  BY DEF Ins, NewInlet, inlet_description

(* A task goes on.                                                         *)
Moves(k, pc, keys, adds, now) ==
  /\ task'[k].pc = pc
  /\ task'[k].keys = keys
  /\ task'[k].adds = adds
  /\ task'[k].now = now
  /\ \A j \in Tasks : j # k => task'[j] = task[j]

LEMMA DropMoves ==
  ASSUME Typed, NEW k \in Tasks, NEW pc \in Stages, NEW keys \in SUBSET {t.id : t \in All},
         NEW now \in SUBSET (All \cup Ins), Drop(k, pc, keys, now)
  PROVE  Moves(k, pc, keys, {}, now) /\ task' \in [Tasks -> Works]
<1> DEFINE new == [pc |-> pc, keys |-> keys, adds |-> {}, now |-> now]
<1>1. [Idle EXCEPT !.pc = pc, !.keys = keys, !.now = now] = new
  <2>1. PICK a : a = [Idle EXCEPT !.pc = pc]
    OBVIOUS
  <2>2. PICK b : b = [a EXCEPT !.keys = keys]
    OBVIOUS
  <2>3. a = [pc |-> pc, keys |-> {}, adds |-> {}, now |-> {}]
    BY <2>1 DEF Idle
  <2>4. b = [pc |-> pc, keys |-> keys, adds |-> {}, now |-> {}]
    BY <2>2, <2>3
  <2>5. [b EXCEPT !.now = now] = new
    BY <2>4
  <2> QED
    BY <2>1, <2>2, <2>5, Zenon
<1>2. task' = [task EXCEPT ![k] = new]
  BY <1>1 DEF Drop
<1>3. new \in Works
  BY DEF Works
<1>4. new.pc = pc /\ new.keys = keys /\ new.adds = {} /\ new.now = now
  OBVIOUS
<1> HIDE DEF new
<1> QED
  BY <1>2, <1>3, <1>4 DEF Typed, Moves

LEMMA AddMoves ==
  ASSUME Typed, NEW k \in Tasks, NEW pc \in Stages, NEW adds \in SUBSET All,
         NEW now \in SUBSET (All \cup Ins), Add(k, pc, adds, now)
  PROVE  Moves(k, pc, {}, adds, now) /\ task' \in [Tasks -> Works]
<1> DEFINE new == [pc |-> pc, keys |-> {}, adds |-> adds, now |-> now]
<1>1. [Idle EXCEPT !.pc = pc, !.adds = adds, !.now = now] = new
  <2>1. PICK a : a = [Idle EXCEPT !.pc = pc]
    OBVIOUS
  <2>2. PICK b : b = [a EXCEPT !.adds = adds]
    OBVIOUS
  <2>3. a = [pc |-> pc, keys |-> {}, adds |-> {}, now |-> {}]
    BY <2>1 DEF Idle
  <2>4. b = [pc |-> pc, keys |-> {}, adds |-> adds, now |-> {}]
    BY <2>2, <2>3
  <2>5. [b EXCEPT !.now = now] = new
    BY <2>4
  <2> QED
    BY <2>1, <2>2, <2>5, Zenon
<1>2. task' = [task EXCEPT ![k] = new]
  BY <1>1 DEF Add
<1>3. new \in Works
  BY DEF Works
<1>4. new.pc = pc /\ new.keys = {} /\ new.adds = adds /\ new.now = now
  OBVIOUS
<1> HIDE DEF new
<1> QED
  BY <1>2, <1>3, <1>4 DEF Typed, Moves

LEMMA TaskTyped ==
  ASSUME Typed, NEW k \in Tasks
  PROVE  /\ task[k].pc \in Stages
         /\ task[k].keys \in SUBSET {t.id : t \in All}
         /\ task[k].adds \in SUBSET All
         /\ task[k].now \in SUBSET (All \cup Ins)
  BY DEF Typed, Works

-----------------------------------------------------------------------------
(* Each step of a sync, by what becomes of the task.                       *)
OutletsKeys == {o.id : o \in {x \in outlets : ~ RetainOutlet(Server, list, x)}}
InletsKeys == {i.id : i \in {x \in inlets : ~ RetainInlet(Server, list, x)}}

LEMMA ChangeIs ==
  ASSUME Typed, NEW k \in Tasks, NEW new \in Lists, Change(k, new)
  PROVE  Moves(k, "changed", {}, {}, {}) /\ task' \in [Tasks -> Works]
<1>1. "changed" \in Stages
  BY DEF Stages
<1> QED
  BY <1>1, DropMoves DEF Change

LEMMA CollectOutletsIs ==
  ASSUME Typed, NEW k \in Tasks, CollectOutlets(k)
  PROVE  Moves(k, "drop_outlets", OutletsKeys, {}, {}) /\ task' \in [Tasks -> Works]
<1>1. "drop_outlets" \in Stages
  BY DEF Stages
<1>2. OutletsKeys \in SUBSET {t.id : t \in All}
  BY OutIs DEF Typed, OutletsKeys
<1> QED
  BY <1>1, <1>2, DropMoves DEF CollectOutlets, OutletsKeys

LEMMA DropOutletIs ==
  ASSUME Typed, NEW k \in Tasks, NEW id \in task[k].keys, DropOutlet(k, id)
  PROVE  /\ task' \in [Tasks -> Works]
         /\ \E pc \in {"drop_outlets", "stop_outlet"} : Moves(k, pc, task[k].keys \ {id}, {}, {})
<1>1. "drop_outlets" \in Stages /\ "stop_outlet" \in Stages
  BY DEF Stages
<1>2. task[k].keys \ {id} \in SUBSET {t.id : t \in All}
  BY TaskTyped
<1>3. PICK pc \in {"drop_outlets", "stop_outlet"} : Drop(k, pc, task[k].keys \ {id}, {})
  <2>1. CASE outlets' = outlets
    BY <2>1 DEF DropOutlet
  <2>2. CASE outlets' # outlets
    BY <2>2 DEF DropOutlet
  <2> QED
    BY <2>1, <2>2
<1> QED
  BY <1>1, <1>2, <1>3, DropMoves

LEMMA StopOutletIs ==
  ASSUME Typed, NEW k \in Tasks, StopOutlet(k)
  PROVE  Moves(k, "drop_outlets", task[k].keys, {}, {}) /\ task' \in [Tasks -> Works]
<1>1. "drop_outlets" \in Stages
  BY DEF Stages
<1>2. task[k].keys \in SUBSET {t.id : t \in All} /\ {} \in SUBSET (All \cup Ins)
  BY TaskTyped
<1>3. Drop(k, "drop_outlets", task[k].keys, {})
  BY DEF StopOutlet
<1> QED
  BY <1>1, <1>2, <1>3, DropMoves

LEMMA CollectInletsIs ==
  ASSUME Typed, NEW k \in Tasks, CollectInlets(k)
  PROVE  Moves(k, "drop_inlets", InletsKeys, {}, {}) /\ task' \in [Tasks -> Works]
<1>1. "drop_inlets" \in Stages
  BY DEF Stages
<1>2. InletsKeys \in SUBSET {t.id : t \in All}
  BY InIs DEF Typed, InletsKeys
<1> QED
  BY <1>1, <1>2, DropMoves DEF CollectInlets, InletsKeys, InvalidInlets

LEMMA DropInletIs ==
  ASSUME Typed, NEW k \in Tasks, NEW id \in task[k].keys, DropInlet(k, id)
  PROVE  /\ task' \in [Tasks -> Works]
         /\ LET gone == {i \in inlets : i.id = id}
            IN  Moves(k, IF gone = {} THEN "drop_inlets" ELSE "stop_inlet",
                      task[k].keys \ {id}, {}, gone)
<1>1. "drop_inlets" \in Stages /\ "stop_inlet" \in Stages
  BY DEF Stages
<1>2. task[k].keys \ {id} \in SUBSET {t.id : t \in All}
  BY TaskTyped
<1>3. {i \in inlets : i.id = id} \in SUBSET (All \cup Ins)
  BY DEF Typed
<1> QED
  BY <1>1, <1>2, <1>3, DropMoves DEF DropInlet

LEMMA StopInletIs ==
  ASSUME Typed, NEW k \in Tasks, StopInlet(k)
  PROVE  Moves(k, "drop_inlets", task[k].keys, {}, {}) /\ task' \in [Tasks -> Works]
<1>1. "drop_inlets" \in Stages
  BY DEF Stages
<1>2. task[k].keys \in SUBSET {t.id : t \in All} /\ {} \in SUBSET (All \cup Ins)
  BY TaskTyped
<1>3. Drop(k, "drop_inlets", task[k].keys, {})
  BY DEF StopInlet
<1> QED
  BY <1>1, <1>2, <1>3, DropMoves

LEMMA BeginAddsIs ==
  ASSUME Typed, NEW k \in Tasks, BeginAdds(k)
  PROVE  Moves(k, "add_outlets", {}, WantO, {}) /\ task' \in [Tasks -> Works]
<1>1. "add_outlets" \in Stages
  BY DEF Stages
<1>2. WantO \in SUBSET All
  BY ListTyped DEF WantO
<1> QED
  BY <1>1, <1>2, AddMoves DEF BeginAdds, WantO

LEMMA CheckOutletIs ==
  ASSUME Typed, NEW k \in Tasks, NEW t \in task[k].adds, CheckOutlet(k, t)
  PROVE  /\ task' \in [Tasks -> Works]
         /\ IF Lacks(outlets, t) THEN Moves(k, "create", {}, task[k].adds \ {t}, {t})
                                 ELSE Moves(k, "add_outlets", {}, task[k].adds \ {t}, {})
<1>1. "add_outlets" \in Stages /\ "create" \in Stages
  BY DEF Stages
<1>2. task[k].adds \ {t} \in SUBSET All /\ {t} \in SUBSET (All \cup Ins)
  BY TaskTyped
<1>3. CASE Lacks(outlets, t)
  <2>1. Add(k, "create", task[k].adds \ {t}, {t})
    BY <1>3 DEF CheckOutlet
  <2> QED
    BY <1>1, <1>2, <1>3, <2>1, AddMoves
<1>4. CASE ~ Lacks(outlets, t)
  <2>1. Add(k, "add_outlets", task[k].adds \ {t}, {})
    BY <1>4 DEF CheckOutlet
  <2> QED
    BY <1>1, <1>2, <1>4, <2>1, AddMoves
<1> QED
  BY <1>3, <1>4

LEMMA InsertOutletIs ==
  ASSUME Typed, NEW k \in Tasks, NEW t, InsertOutlet(k, t)
  PROVE  Moves(k, "add_outlets", {}, task[k].adds, {}) /\ task' \in [Tasks -> Works]
<1>1. "add_outlets" \in Stages
  BY DEF Stages
<1>2. task[k].adds \in SUBSET All /\ {} \in SUBSET (All \cup Ins)
  BY TaskTyped
<1>3. Add(k, "add_outlets", task[k].adds, {})
  BY DEF InsertOutlet
<1> QED
  BY <1>1, <1>2, <1>3, AddMoves

LEMMA BeginInletsIs ==
  ASSUME Typed, NEW k \in Tasks, BeginInlets(k)
  PROVE  Moves(k, "add_inlets", {}, WantI, {}) /\ task' \in [Tasks -> Works]
<1>1. "add_inlets" \in Stages
  BY DEF Stages
<1>2. WantI \in SUBSET All
  BY ListTyped DEF WantI
<1> QED
  BY <1>1, <1>2, AddMoves DEF BeginInlets, WantI

LEMMA CheckInletIs ==
  ASSUME Typed, NEW k \in Tasks, NEW t \in task[k].adds, CheckInlet(k, t)
  PROVE  /\ task' \in [Tasks -> Works]
         /\ IF Lacks(inlets, t) /\ KnownKind(t)
              THEN Moves(k, "start", {}, task[k].adds \ {t}, {t})
              ELSE Moves(k, "add_inlets", {}, task[k].adds \ {t}, {})
<1>1. "add_inlets" \in Stages /\ "start" \in Stages
  BY DEF Stages
<1>2. task[k].adds \ {t} \in SUBSET All /\ {t} \in SUBSET (All \cup Ins)
  BY TaskTyped
<1>e. {} \in SUBSET (All \cup Ins)
  OBVIOUS
<1>3. CASE Lacks(inlets, t) /\ KnownKind(t)
  <2>1. Add(k, "start", task[k].adds \ {t}, {t})
    BY <1>3 DEF CheckInlet
  <2> QED
    BY <1>1, <1>2, <1>3, <2>1, AddMoves
<1>4. CASE ~ (Lacks(inlets, t) /\ KnownKind(t))
  <2>1. Add(k, "add_inlets", task[k].adds \ {t}, {})
    BY <1>4 DEF CheckInlet
  <2> QED
    BY <1>1, <1>2, <1>4, <1>e, <2>1, AddMoves
<1> QED
  BY <1>3, <1>4

LEMMA StartInletIs ==
  ASSUME Typed, NEW k \in Tasks, NEW t \in task[k].now, StartInlet(k, t)
  PROVE  /\ task' \in [Tasks -> Works]
         /\ IF t.port \in bound THEN Moves(k, "add_inlets", {}, task[k].adds, {})
                                ELSE Moves(k, "started", {}, task[k].adds, {t})
<1>1. "add_inlets" \in Stages /\ "started" \in Stages
  BY DEF Stages
<1>2. task[k].adds \in SUBSET All /\ {t} \in SUBSET (All \cup Ins)
  BY TaskTyped
<1>3. CASE t.port \in bound
  BY <1>1, <1>2, <1>3, AddMoves DEF StartInlet
<1>4. CASE t.port \notin bound
  BY <1>1, <1>2, <1>4, AddMoves DEF StartInlet
<1> QED
  BY <1>3, <1>4

LEMMA InsertInletIs ==
  ASSUME Typed, NEW k \in Tasks, NEW t, InsertInlet(k, t)
  PROVE  Moves(k, "add_inlets", {}, task[k].adds, {}) /\ task' \in [Tasks -> Works]
<1>1. "add_inlets" \in Stages
  BY DEF Stages
<1>2. task[k].adds \in SUBSET All /\ {} \in SUBSET (All \cup Ins)
  BY TaskTyped
<1>3. Add(k, "add_inlets", task[k].adds, {})
  BY DEF InsertInlet
<1> QED
  BY <1>1, <1>2, <1>3, AddMoves

LEMMA FinishIs ==
  ASSUME Typed, NEW k \in Tasks, Finish(k)
  PROVE  Moves(k, "idle", {}, {}, {}) /\ task' \in [Tasks -> Works]
<1>1. task' = [task EXCEPT ![k] = Idle]
  BY DEF Finish
<1>2. Idle \in Works /\ Idle.pc = "idle" /\ Idle.keys = {} /\ Idle.adds = {} /\ Idle.now = {}
  BY DEF Idle, Works, Stages
<1> QED
  BY <1>1, <1>2 DEF Typed, Moves

-----------------------------------------------------------------------------
(* Sound is inductive.                                                     *)
Fits(pc, adds, now) ==
  /\ pc \in {"add_outlets", "create"} => adds \subseteq WantO
  /\ pc = "create" => now \subseteq WantO
  /\ pc \in {"add_inlets", "start", "started"} => adds \subseteq WantI
  /\ pc \in {"start", "started"} => now \subseteq RunI
  /\ pc = "stop_inlet" => now \subseteq Ins
  /\ \A x, y \in now : x = y

LEMMA SoundAfter ==
  ASSUME Sound, UNCHANGED list, task' \in [Tasks -> Works],
         outlets' \subseteq Outs, inlets' \subseteq Ins, Unique',
         NEW k \in Tasks, NEW pc, NEW keys, NEW adds, NEW now,
         Moves(k, pc, keys, adds, now), Fits(pc, adds, now)
  PROVE  Sound'
<1>1. WantO' = WantO /\ WantI' = WantI /\ RunI' = RunI
  BY DEF WantO, WantI, RunI
<1>2. Typed'
  BY DEF Sound, Typed
<1>3. ASSUME NEW j \in Tasks PROVE Given(j)'
  <2>1. CASE j = k
    BY <1>1, <2>1 DEF Given, Moves, Fits
  <2>2. CASE j # k
    <3>1. task'[j] = task[j] /\ Given(j)
      BY <2>2 DEF Moves, Sound
    <3> QED
      BY <1>1, <3>1 DEF Given
  <2> QED
    BY <2>1, <2>2
<1> QED
  BY <1>2, <1>3 DEF Sound

LEMMA SoundInit == Init => Sound
<1> SUFFICES ASSUME Init PROVE Sound
  OBVIOUS
<1>1. Idle \in Works /\ Idle.pc = "idle" /\ Idle.now = {}
  BY DEF Idle, Works, Stages
<1>2. Typed
  BY <1>1 DEF Init, Typed
<1>3. Unique
  BY DEF Init, Unique
<1>4. ASSUME NEW k \in Tasks PROVE Given(k)
  <2>1. task[k] = Idle
    BY DEF Init
  <2> QED
    BY <1>1, <2>1 DEF Given
<1> QED
  BY <1>2, <1>3, <1>4 DEF Sound

(* What is stopped or started is where it was given from.                  *)
LEMMA NowOf ==
  ASSUME Sound, NEW k \in Tasks, NEW t \in task[k].now
  PROVE  /\ task[k].now = {t}
         /\ task[k].pc = "create" => t \in WantO /\ t \in list /\ t \in All
         /\ task[k].pc \in {"start", "started"} => t \in RunI /\ t \in list /\ t \in All
         /\ task[k].pc = "stop_inlet" => t \in Ins
<1>1. Given(k)
  BY DEF Sound
<1>2. task[k].now = {t}
  BY <1>1 DEF Given
<1> QED
  BY <1>1, <1>2, ListTyped DEF Given, Sound, WantO, WantI, RunI

LEMMA SyncSound ==
  ASSUME ConstantsOK, Sound, NEW k \in Tasks, Sync(k)
  PROVE  Sound'
<1>0. Typed /\ Unique /\ Given(k) /\ outlets \subseteq Outs /\ inlets \subseteq Ins
  BY DEF Sound, Typed
<1>u. UNCHANGED outlets /\ UNCHANGED inlets => Unique'
  BY <1>0 DEF Unique
<1>1. CASE CollectOutlets(k)
  <2>1. Fits("drop_outlets", {}, {})
    BY DEF Fits
  <2> QED
    BY <1>0, <1>1, <1>u, <2>1, CollectOutletsIs, SoundAfter DEF CollectOutlets
<1>2. ASSUME NEW id \in task[k].keys, DropOutlet(k, id)
      PROVE  Sound'
  <2>1. PICK pc \in {"drop_outlets", "stop_outlet"} : Moves(k, pc, task[k].keys \ {id}, {}, {})
    BY <1>0, <1>2, DropOutletIs
  <2>2. Fits(pc, {}, {})
    BY DEF Fits
  <2>3. UNCHANGED <<list, inlets>> /\ outlets' \subseteq outlets /\ task' \in [Tasks -> Works]
    BY <1>0, <1>2, DropOutletIs DEF DropOutlet
  <2>4. Unique'
    BY <1>0, <2>3 DEF Unique
  <2> QED
    BY <1>0, <2>1, <2>2, <2>3, <2>4, SoundAfter
<1>3. CASE StopOutlet(k)
  <2>1. Fits("drop_outlets", {}, {})
    BY DEF Fits
  <2> QED
    BY <1>0, <1>3, <1>u, <2>1, StopOutletIs, SoundAfter DEF StopOutlet
<1>4. CASE CollectInlets(k)
  <2>1. Fits("drop_inlets", {}, {})
    BY DEF Fits
  <2> QED
    BY <1>0, <1>4, <1>u, <2>1, CollectInletsIs, SoundAfter DEF CollectInlets
<1>5. ASSUME NEW id \in task[k].keys, DropInlet(k, id)
      PROVE  Sound'
  <2> DEFINE gone == {i \in inlets : i.id = id}
             pc == IF gone = {} THEN "drop_inlets" ELSE "stop_inlet"
  <2>1. Moves(k, pc, task[k].keys \ {id}, {}, gone) /\ task' \in [Tasks -> Works]
    BY <1>0, <1>5, DropInletIs
  <2>2. Fits(pc, {}, gone)
    BY <1>0 DEF Fits, Unique
  <2>3. UNCHANGED <<list, outlets>> /\ inlets' \subseteq inlets
    BY <1>5 DEF DropInlet
  <2>4. Unique'
    BY <1>0, <2>3 DEF Unique
  <2> HIDE DEF gone, pc
  <2> QED
    BY <1>0, <2>1, <2>2, <2>3, <2>4, SoundAfter
<1>6. CASE StopInlet(k)
  <2>1. Fits("drop_inlets", {}, {})
    BY DEF Fits
  <2> QED
    BY <1>0, <1>6, <1>u, <2>1, StopInletIs, SoundAfter DEF StopInlet
<1>7. CASE BeginAdds(k)
  <2>1. Fits("add_outlets", WantO, {})
    BY DEF Fits
  <2> QED
    BY <1>0, <1>7, <1>u, <2>1, BeginAddsIs, SoundAfter DEF BeginAdds
<1>8. ASSUME NEW t \in task[k].adds, CheckOutlet(k, t)
      PROVE  Sound'
  <2>0. task[k].adds \subseteq WantO
    BY <1>0, <1>8 DEF CheckOutlet, At, Given
  <2>1. Fits("create", task[k].adds \ {t}, {t}) /\ Fits("add_outlets", task[k].adds \ {t}, {})
    BY <2>0 DEF Fits
  <2>2. UNCHANGED <<list, outlets, inlets>> /\ task' \in [Tasks -> Works]
    BY <1>0, <1>8, CheckOutletIs DEF CheckOutlet
  <2>3. \/ Moves(k, "create", {}, task[k].adds \ {t}, {t})
        \/ Moves(k, "add_outlets", {}, task[k].adds \ {t}, {})
    BY <1>0, <1>8, CheckOutletIs
  <2> QED
    BY <1>0, <1>u, <2>1, <2>2, <2>3, SoundAfter
<1>9. ASSUME NEW t \in task[k].now, InsertOutlet(k, t)
      PROVE  Sound'
  <2>0. task[k].adds \subseteq WantO /\ task[k].pc = "create"
    BY <1>0, <1>9 DEF InsertOutlet, At, Given
  <2>1. Fits("add_outlets", task[k].adds, {})
    BY <2>0 DEF Fits
  <2>2. UNCHANGED <<list, inlets>> /\ outlets' = {o \in outlets : o.id # t.id} \cup {NewOutlet(t)}
    BY <1>9 DEF InsertOutlet
  <2>3. NewOutlet(t) \in Outs /\ NewOutlet(t).id = t.id
    BY <2>0, NowOf DEF Outs, NewOutlet
  <2>4. outlets' \subseteq Outs
    BY <1>0, <2>2, <2>3
  <2>5. Unique'
    BY <1>0, <2>2, <2>3 DEF Unique
  <2> QED
    BY <1>0, <1>9, <2>1, <2>2, <2>4, <2>5, InsertOutletIs, SoundAfter
<1>10. CASE BeginInlets(k)
  <2>1. Fits("add_inlets", WantI, {})
    BY DEF Fits
  <2> QED
    BY <1>0, <1>10, <1>u, <2>1, BeginInletsIs, SoundAfter DEF BeginInlets
<1>11. ASSUME NEW t \in task[k].adds, CheckInlet(k, t)
       PROVE  Sound'
  <2>0. task[k].adds \subseteq WantI
    BY <1>0, <1>11 DEF CheckInlet, At, Given
  <2>2. UNCHANGED <<list, outlets, inlets>> /\ task' \in [Tasks -> Works]
    BY <1>0, <1>11, CheckInletIs DEF CheckInlet
  <2>3. CASE Lacks(inlets, t) /\ KnownKind(t)
    <3>1. Fits("start", task[k].adds \ {t}, {t})
      BY <2>0, <2>3 DEF Fits, RunI
    <3>2. Moves(k, "start", {}, task[k].adds \ {t}, {t})
      BY <1>0, <1>11, <2>3, CheckInletIs
    <3> QED
      BY <1>0, <1>u, <2>2, <3>1, <3>2, SoundAfter
  <2>4. CASE ~ (Lacks(inlets, t) /\ KnownKind(t))
    <3>1. Fits("add_inlets", task[k].adds \ {t}, {})
      BY <2>0 DEF Fits
    <3>2. Moves(k, "add_inlets", {}, task[k].adds \ {t}, {})
      BY <1>0, <1>11, <2>4, CheckInletIs
    <3> QED
      BY <1>0, <1>u, <2>2, <3>1, <3>2, SoundAfter
  <2> QED
    BY <2>3, <2>4
<1>12. ASSUME NEW t \in task[k].now, StartInlet(k, t)
       PROVE  Sound'
  <2>0. task[k].adds \subseteq WantI /\ t \in RunI
    BY <1>0, <1>12 DEF StartInlet, At, Given
  <2>1. Fits("started", task[k].adds, {t}) /\ Fits("add_inlets", task[k].adds, {})
    BY <2>0 DEF Fits
  <2>2. UNCHANGED <<list, outlets, inlets>> /\ task' \in [Tasks -> Works]
    BY <1>0, <1>12, StartInletIs DEF StartInlet
  <2>3. \/ Moves(k, "started", {}, task[k].adds, {t})
        \/ Moves(k, "add_inlets", {}, task[k].adds, {})
    BY <1>0, <1>12, StartInletIs
  <2> QED
    BY <1>0, <1>u, <2>1, <2>2, <2>3, SoundAfter
<1>13. ASSUME NEW t \in task[k].now, InsertInlet(k, t)
       PROVE  Sound'
  <2>0. task[k].adds \subseteq WantI /\ task[k].pc = "started"
    BY <1>0, <1>13 DEF InsertInlet, At, Given
  <2>1. Fits("add_inlets", task[k].adds, {})
    BY <2>0 DEF Fits
  <2>2. UNCHANGED <<list, outlets>> /\ inlets' = {i \in inlets : i.id # t.id} \cup {NewInlet(t)}
    BY <1>13 DEF InsertInlet
  <2>3. NewInlet(t) \in Ins /\ NewInlet(t).id = t.id
    BY <2>0, NowOf DEF Ins, NewInlet
  <2>4. inlets' \subseteq Ins
    BY <1>0, <2>2, <2>3
  <2>5. Unique'
    BY <1>0, <2>2, <2>3 DEF Unique
  <2> QED
    BY <1>0, <1>13, <2>1, <2>2, <2>4, <2>5, InsertInletIs, SoundAfter
<1>14. CASE Finish(k)
  <2>1. Fits("idle", {}, {})
    BY DEF Fits
  <2> QED
    BY <1>0, <1>14, <1>u, <2>1, FinishIs, SoundAfter DEF Finish
<1> QED
  BY <1>1, <1>2, <1>3, <1>4, <1>5, <1>6, <1>7, <1>8, <1>9, <1>10, <1>11, <1>12, <1>13, <1>14
     DEF Sync

LEMMA ChangeSound ==
  ASSUME Sound, NEW k \in Tasks, NEW new \in Lists, Change(k, new)
  PROVE  Sound'
<1>1. Moves(k, "changed", {}, {}, {}) /\ task' \in [Tasks -> Works]
  BY ChangeIs DEF Sound
<1>2. Typed'
  BY <1>1 DEF Sound, Typed, Change
<1>3. Unique'
  BY DEF Sound, Unique, Change
<1>4. ASSUME NEW j \in Tasks PROVE Given(j)'
  <2>1. CASE j = k
    BY <1>1, <2>1 DEF Given, Moves
  <2>2. CASE j # k
    <3>1. task'[j] = task[j] /\ task[j].pc \in {"idle", "changed"} /\ Given(j)
      BY <1>1, <2>2 DEF Moves, Change, ListFree, Sound
    <3> QED
      BY <3>1 DEF Given
  <2> QED
    BY <2>1, <2>2
<1> QED
  BY <1>2, <1>3, <1>4 DEF Sound

-----------------------------------------------------------------------------
(* Outlets.  One that the list no longer asks for has a task that will     *)
(* drop it; a tunnel without its outlet has a task that will come to it.   *)
Dropping == {"drop_outlets", "stop_outlet"}
Early == {"changed", "drop_outlets", "stop_outlet", "drop_inlets", "stop_inlet"}

OutletDoomed(id) ==
  \E k \in Tasks : \/ task[k].pc = "changed"
                   \/ task[k].pc \in Dropping /\ id \in task[k].keys
OutletDue(t) ==
  \E k \in Tasks : \/ task[k].pc \in Early
                   \/ task[k].pc \in {"add_outlets", "create"} /\ t \in task[k].adds
                   \/ task[k].pc = "create" /\ t \in task[k].now
OutletRuns(t) == \E o \in outlets : o.description = outlet_description(t)

OutletsFollow ==
  /\ \A o \in outlets : RetainOutlet(Server, list, o) \/ OutletDoomed(o.id)
  /\ \A t \in WantO : OutletRuns(t) \/ OutletDue(t)

(* An outlet under the id of a tunnel is the tunnel's, or it is doomed.    *)
LEMMA OutletThere ==
  ASSUME ConstantsOK, Sound, OutletsFollow, NEW t \in WantO, NEW o \in outlets, o.id = t.id
  PROVE  OutletRuns(t) \/ OutletDue(t)
<1>1. CASE RetainOutlet(Server, list, o)
  <2>1. PICK u \in list : u.id = o.id /\ outlet_description(u) = o.description
    BY <1>1 DEF RetainOutlet
  <2>2. u = t
    BY <2>1, ListUnique DEF Sound, WantO
  <2> QED
    BY <2>1, <2>2 DEF OutletRuns
<1>2. CASE OutletDoomed(o.id)
  BY <1>2 DEF OutletDoomed, OutletDue, Dropping, Early
<1> QED
  BY <1>1, <1>2 DEF OutletsFollow

LEMMA OutletOfId ==
  ASSUME Typed, NEW o \in outlets, NEW t, o.description = outlet_description(t)
  PROVE  o.id = t.id
<1>1. o.id = o.description[1]
  BY OutIs DEF Typed
<1> QED
  BY <1>1 DEF outlet_description

(* A step of task k hands on what it was to drop and to add.               *)
DoomKept(k) ==
  \A o \in outlets :
    /\ ~ RetainOutlet(Server, list, o)
    /\ \/ task[k].pc = "changed"
       \/ task[k].pc \in Dropping /\ o.id \in task[k].keys
    => \/ task'[k].pc = "changed"
       \/ task'[k].pc \in Dropping /\ o.id \in task'[k].keys
DueKept(k) ==
  \A t \in WantO :
    \/ task[k].pc \in Early
    \/ task[k].pc \in {"add_outlets", "create"} /\ t \in task[k].adds
    \/ task[k].pc = "create" /\ t \in task[k].now
    => \/ task'[k].pc \in Early
       \/ task'[k].pc \in {"add_outlets", "create"} /\ t \in task'[k].adds
       \/ task'[k].pc = "create" /\ t \in task'[k].now
       \/ OutletRuns(t)
       \/ OutletDue(t)'

LEMMA OutletsQuiet ==
  ASSUME OutletsFollow, UNCHANGED <<list, outlets>>, NEW k \in Tasks,
         \A j \in Tasks : j # k => task'[j] = task[j], DoomKept(k), DueKept(k)
  PROVE  OutletsFollow'
<1>1. WantO' = WantO /\ \A t : OutletRuns(t)' = OutletRuns(t)
  BY DEF WantO, OutletRuns
<1>2. ASSUME NEW o \in outlets, ~ RetainOutlet(Server, list, o)
      PROVE  OutletDoomed(o.id)'
  <2>1. PICK id : id = o.id
    OBVIOUS
  <2>2. OutletDoomed(id)
    BY <1>2, <2>1 DEF OutletsFollow
  <2>3. PICK j \in Tasks : task[j].pc = "changed" \/ (task[j].pc \in Dropping /\ id \in task[j].keys)
    BY <2>2 DEF OutletDoomed
  <2>4. task'[j].pc = "changed" \/ (task'[j].pc \in Dropping /\ id \in task'[j].keys)
    BY <1>2, <2>1, <2>3 DEF DoomKept
  <2> QED
    BY <2>1, <2>4 DEF OutletDoomed
<1>3. ASSUME NEW t \in WantO PROVE OutletRuns(t) \/ OutletDue(t)'
  <2>1. CASE OutletRuns(t)
    BY <2>1
  <2>2. CASE OutletDue(t)
    <3>1. PICK j \in Tasks : \/ task[j].pc \in Early
                             \/ task[j].pc \in {"add_outlets", "create"} /\ t \in task[j].adds
                             \/ task[j].pc = "create" /\ t \in task[j].now
      BY <2>2 DEF OutletDue
    <3>2. CASE j = k
      BY <3>1, <3>2 DEF OutletDue, DueKept
    <3>3. CASE j # k
      BY <3>1, <3>3 DEF OutletDue
    <3> QED
      BY <3>2, <3>3
  <2> QED
    BY <2>1, <2>2 DEF OutletsFollow
<1>4. \A o : RetainOutlet(Server, list, o)' = RetainOutlet(Server, list, o)
  BY DEF RetainOutlet
<1>5. \A o \in outlets' : RetainOutlet(Server, list, o)' \/ OutletDoomed(o.id)'
  BY <1>2, <1>4
<1>6. \A t \in WantO' : OutletRuns(t)' \/ OutletDue(t)'
  BY <1>1, <1>3
<1> QED
  BY <1>5, <1>6 DEF OutletsFollow

LEMMA SyncOutlets ==
  ASSUME ConstantsOK, Sound, OutletsFollow, NEW k \in Tasks, Sync(k)
  PROVE  OutletsFollow'
<1>0. Typed /\ Given(k)
  BY DEF Sound
<1> USE DEF At
<1>1. CASE CollectOutlets(k)
  <2>1. Moves(k, "drop_outlets", OutletsKeys, {}, {})
    BY <1>0, <1>1, CollectOutletsIs
  <2>2. DoomKept(k)
    BY <2>1 DEF DoomKept, Moves, OutletsKeys, Dropping
  <2>3. DueKept(k)
    BY <2>1 DEF DueKept, Moves, Early
  <2> QED
    BY <1>1, <2>1, <2>2, <2>3, OutletsQuiet DEF CollectOutlets, Moves
<1>2. ASSUME NEW id \in task[k].keys, DropOutlet(k, id)
      PROVE  OutletsFollow'
  <2>1. PICK pc \in Dropping : Moves(k, pc, task[k].keys \ {id}, {}, {})
    BY <1>0, <1>2, DropOutletIs DEF Dropping
  <2>2. list' = list /\ outlets' = {o \in outlets : o.id # id} /\ task[k].pc = "drop_outlets"
    BY <1>2 DEF DropOutlet
  <2>3. ASSUME NEW o \in outlets' PROVE RetainOutlet(Server, list, o)' \/ OutletDoomed(o.id)'
    <3>0. o \in outlets /\ o.id # id
      BY <2>2
    <3>1. RetainOutlet(Server, list, o)' <=> RetainOutlet(Server, list, o)
      BY <2>2 DEF RetainOutlet
    <3>2. CASE OutletDoomed(o.id)
      <4>1. PICK j \in Tasks : \/ task[j].pc = "changed"
                               \/ task[j].pc \in Dropping /\ o.id \in task[j].keys
        BY <3>2 DEF OutletDoomed
      <4>2. CASE j = k
        BY <2>1, <2>2, <3>0, <4>1, <4>2 DEF OutletDoomed, Moves
      <4>3. CASE j # k
        BY <2>1, <4>1, <4>3 DEF OutletDoomed, Moves
      <4> QED
        BY <4>2, <4>3
    <3> QED
      BY <3>0, <3>1, <3>2 DEF OutletsFollow
  <2>4. \A t : OutletDue(t)'
    BY <2>1 DEF OutletDue, Moves, Early, Dropping
  <2> QED
    BY <2>3, <2>4 DEF OutletsFollow
<1>3. CASE StopOutlet(k)
  <2>1. Moves(k, "drop_outlets", task[k].keys, {}, {})
    BY <1>0, <1>3, StopOutletIs
  <2>2. DoomKept(k)
    BY <1>3, <2>1 DEF DoomKept, Moves, Dropping, StopOutlet
  <2>3. DueKept(k)
    BY <2>1 DEF DueKept, Moves, Early
  <2> QED
    BY <1>3, <2>1, <2>2, <2>3, OutletsQuiet DEF StopOutlet, Moves
<1>4. CASE CollectInlets(k)
  <2>1. Moves(k, "drop_inlets", InletsKeys, {}, {})
    BY <1>0, <1>4, CollectInletsIs
  <2>2. DoomKept(k)
    BY <1>4 DEF DoomKept, CollectInlets
  <2>3. DueKept(k)
    BY <2>1 DEF DueKept, Moves, Early
  <2> QED
    BY <1>4, <2>1, <2>2, <2>3, OutletsQuiet DEF CollectInlets, Moves
<1>5. ASSUME NEW id \in task[k].keys, DropInlet(k, id)
      PROVE  OutletsFollow'
  <2>1. PICK pc \in {"drop_inlets", "stop_inlet"} :
          \E keys, now : Moves(k, pc, keys, {}, now)
    BY <1>0, <1>5, DropInletIs
  <2>2. DoomKept(k)
    BY <1>5 DEF DoomKept, DropInlet, Dropping
  <2>3. DueKept(k)
    BY <2>1 DEF DueKept, Moves, Early
  <2> QED
    BY <1>5, <2>1, <2>2, <2>3, OutletsQuiet DEF DropInlet, Moves
<1>6. CASE StopInlet(k)
  <2>1. Moves(k, "drop_inlets", task[k].keys, {}, {})
    BY <1>0, <1>6, StopInletIs
  <2>2. DoomKept(k)
    BY <1>6 DEF DoomKept, StopInlet, Dropping
  <2>3. DueKept(k)
    BY <2>1 DEF DueKept, Moves, Early
  <2> QED
    BY <1>6, <2>1, <2>2, <2>3, OutletsQuiet DEF StopInlet, Moves
<1>7. CASE BeginAdds(k)
  <2>1. Moves(k, "add_outlets", {}, WantO, {})
    BY <1>0, <1>7, BeginAddsIs
  <2>2. DoomKept(k)
    BY <1>7 DEF DoomKept, BeginAdds, Dropping
  <2>3. DueKept(k)
    BY <2>1 DEF DueKept, Moves
  <2> QED
    BY <1>7, <2>1, <2>2, <2>3, OutletsQuiet DEF BeginAdds, Moves
<1>8. ASSUME NEW t \in task[k].adds, CheckOutlet(k, t)
      PROVE  OutletsFollow'
  <2>0. UNCHANGED <<list, outlets>> /\ task[k].pc = "add_outlets"
    BY <1>8 DEF CheckOutlet
  <2>1. t \in WantO
    BY <1>0, <2>0 DEF Given
  <2>2. DoomKept(k)
    BY <2>0 DEF DoomKept, Dropping
  <2>3. CASE Lacks(outlets, t)
    <3>1. Moves(k, "create", {}, task[k].adds \ {t}, {t})
      BY <1>0, <1>8, <2>3, CheckOutletIs
    <3>2. DueKept(k)
      BY <2>0, <3>1 DEF DueKept, Moves, Early
    <3> QED
      BY <2>0, <2>2, <3>1, <3>2, OutletsQuiet DEF Moves
  <2>4. CASE ~ Lacks(outlets, t)
    <3>1. Moves(k, "add_outlets", {}, task[k].adds \ {t}, {})
      BY <1>0, <1>8, <2>4, CheckOutletIs
    <3>2. PICK o \in outlets : o.id = t.id
      BY <2>4 DEF Lacks
    <3>3. CASE OutletRuns(t)
      <4>1. DueKept(k)
        BY <2>0, <3>1, <3>3 DEF DueKept, Moves, Early
      <4> QED
        BY <2>0, <2>2, <3>1, <4>1, OutletsQuiet DEF Moves
    <3>4. CASE OutletDoomed(t.id)
      <4>1. PICK j \in Tasks : task[j].pc \in Early
        BY <3>4 DEF OutletDoomed, Dropping, Early
      <4>2. task'[j] = task[j]
        BY <2>0, <3>1, <4>1 DEF Moves, Early
      <4>3. \A u : OutletDue(u)'
        BY <4>1, <4>2 DEF OutletDue
      <4>4. DueKept(k)
        BY <4>3 DEF DueKept
      <4> QED
        BY <2>0, <2>2, <3>1, <4>4, OutletsQuiet DEF Moves
    <3>5. OutletRuns(t) \/ OutletDoomed(t.id)
      <4>1. CASE RetainOutlet(Server, list, o)
        <5>1. PICK u \in list : u.id = o.id /\ outlet_description(u) = o.description
          BY <4>1 DEF RetainOutlet
        <5>2. u = t
          BY <1>0, <2>1, <3>2, <5>1, ListUnique DEF WantO
        <5> QED
          BY <5>1, <5>2 DEF OutletRuns
      <4> QED
        BY <3>2, <4>1 DEF OutletsFollow
    <3> QED
      BY <3>3, <3>4, <3>5
  <2> QED
    BY <2>3, <2>4
<1>9. ASSUME NEW t \in task[k].now, InsertOutlet(k, t)
      PROVE  OutletsFollow'
  <2>0. /\ list' = list
        /\ task[k].pc = "create"
        /\ outlets' = {o \in outlets : o.id # t.id} \cup {NewOutlet(t)}
    BY <1>9 DEF InsertOutlet
  <2>1. Moves(k, "add_outlets", {}, task[k].adds, {})
    BY <1>0, <1>9, InsertOutletIs
  <2>2. task[k].now = {t} /\ t \in WantO /\ t \in list
    BY <2>0, NowOf
  <2>3. WantO' = WantO /\ \A o : RetainOutlet(Server, list, o)' <=> RetainOutlet(Server, list, o)
    BY <2>0 DEF WantO, RetainOutlet
  <2>4. RetainOutlet(Server, list, NewOutlet(t))
    BY <2>2 DEF RetainOutlet, NewOutlet, WantO
  <2>5. \A id : OutletDoomed(id) => OutletDoomed(id)'
    BY <2>0, <2>1 DEF OutletDoomed, Moves, Dropping
  <2>6. \A o \in outlets' : RetainOutlet(Server, list, o)' \/ OutletDoomed(o.id)'
    BY <2>0, <2>3, <2>4, <2>5 DEF OutletsFollow
  <2>7. ASSUME NEW u \in WantO PROVE OutletRuns(u)' \/ OutletDue(u)'
    <3>1. CASE u = t
      <4>1. NewOutlet(u) \in outlets' /\ NewOutlet(u).description = outlet_description(u)
        BY <2>0, <3>1 DEF NewOutlet
      <4> QED
        BY <4>1 DEF OutletRuns
    <3>2. CASE u # t
      <4>1. u.id # t.id
        BY <1>0, <2>2, <3>2, ListUnique DEF WantO
      <4>2. CASE OutletRuns(u)
        <5>1. PICK o \in outlets : o.description = outlet_description(u)
          BY <4>2 DEF OutletRuns
        <5>2. o \in outlets'
          BY <1>0, <2>0, <4>1, <5>1, OutletOfId
        <5> QED
          BY <5>1, <5>2 DEF OutletRuns
      <4>3. CASE OutletDue(u)
        <5>1. PICK j \in Tasks : \/ task[j].pc \in Early
                                 \/ task[j].pc \in {"add_outlets", "create"} /\ u \in task[j].adds
                                 \/ task[j].pc = "create" /\ u \in task[j].now
          BY <4>3 DEF OutletDue
        <5>2. CASE j = k
          BY <2>0, <2>1, <2>2, <3>2, <5>1, <5>2 DEF OutletDue, Moves, Early
        <5>3. CASE j # k
          BY <2>1, <5>1, <5>3 DEF OutletDue, Moves
        <5> QED
          BY <5>2, <5>3
      <4> QED
        BY <4>2, <4>3 DEF OutletsFollow
    <3> QED
      BY <3>1, <3>2
  <2> QED
    BY <2>3, <2>6, <2>7 DEF OutletsFollow
<1>10. CASE BeginInlets(k)
  <2>1. Moves(k, "add_inlets", {}, WantI, {})
    BY <1>0, <1>10, BeginInletsIs
  <2>2. DoomKept(k) /\ DueKept(k)
    BY <1>10 DEF DoomKept, DueKept, BeginInlets, Dropping, Early
  <2> QED
    BY <1>10, <2>1, <2>2, OutletsQuiet DEF BeginInlets, Moves
<1>11. CASE task[k].pc \in {"add_inlets", "start", "started"} /\ UNCHANGED <<list, outlets>>
            /\ \A j \in Tasks : j # k => task'[j] = task[j]
  <2>1. DoomKept(k) /\ DueKept(k)
    BY <1>11 DEF DoomKept, DueKept, Dropping, Early
  <2> QED
    BY <1>11, <2>1, OutletsQuiet
<1>12. ASSUME NEW t \in task[k].adds, CheckInlet(k, t)
       PROVE  OutletsFollow'
  <2>1. \A j \in Tasks : j # k => task'[j] = task[j]
    BY <1>0, <1>12, CheckInletIs DEF Moves
  <2> QED
    BY <1>11, <1>12, <2>1 DEF CheckInlet
<1>13. ASSUME NEW t \in task[k].now, StartInlet(k, t)
       PROVE  OutletsFollow'
  <2>1. \A j \in Tasks : j # k => task'[j] = task[j]
    BY <1>0, <1>13, StartInletIs DEF Moves
  <2> QED
    BY <1>11, <1>13, <2>1 DEF StartInlet
<1>14. ASSUME NEW t \in task[k].now, InsertInlet(k, t)
       PROVE  OutletsFollow'
  <2>1. \A j \in Tasks : j # k => task'[j] = task[j]
    BY <1>0, <1>14, InsertInletIs DEF Moves
  <2> QED
    BY <1>11, <1>14, <2>1 DEF InsertInlet
<1>15. CASE Finish(k)
  <2>1. \A j \in Tasks : j # k => task'[j] = task[j]
    BY <1>0, <1>15, FinishIs DEF Moves
  <2> QED
    BY <1>11, <1>15, <2>1 DEF Finish
<1> QED
  BY <1>1, <1>2, <1>3, <1>4, <1>5, <1>6, <1>7, <1>8, <1>9, <1>10, <1>12, <1>13, <1>14, <1>15
     DEF Sync

LEMMA ChangeOutlets ==
  ASSUME Sound, NEW k \in Tasks, NEW new \in Lists, Change(k, new)
  PROVE  OutletsFollow'
<1>1. Moves(k, "changed", {}, {}, {})
  BY ChangeIs DEF Sound
<1>2. \A id : OutletDoomed(id)' /\ OutletDue(id)'
  BY <1>1 DEF OutletDoomed, OutletDue, Moves, Early
<1> QED
  BY <1>2 DEF OutletsFollow

-----------------------------------------------------------------------------
(* Ports.  A tunnel that is being started has no other inlet in the way:   *)
(* none is in the map under its id once it listens, and before that only   *)
(* one that listens on its port.                                           *)
OneHolder ==
  \A p : IF p \in bound THEN \E h \in Holders(p) : Holders(p) = {h} ELSE Holders(p) = {}
Clear ==
  \A k \in Tasks : \A t \in task[k].now :
    /\ task[k].pc = "start" => \A i \in inlets : i.id = t.id => i.port = t.port
    /\ task[k].pc = "started" => Lacks(inlets, t)
PortsKept == OneHolder /\ Clear

InMap(h, p) == \E i \in inlets : i.port = p /\ h = <<"map", i.id>>
Stopping(h, p) ==
  \E k \in Tasks : /\ task[k].pc = "stop_inlet"
                   /\ h = <<"stop", k>>
                   /\ \E i \in task[k].now : i.port = p
Starting(h, p) ==
  \E k \in Tasks : /\ task[k].pc = "started"
                   /\ h = <<"new", k>>
                   /\ \E t \in task[k].now : t.port = p

LEMMA HolderIs ==
  ASSUME NEW h, NEW p
  PROVE  h \in Holders(p) <=> InMap(h, p) \/ Stopping(h, p) \/ Starting(h, p)
  BY DEF Holders, InMap, Stopping, Starting, At

LEMMA HolderIsNext ==
  ASSUME NEW h, NEW p
  PROVE  h \in Holders(p)' <=> InMap(h, p)' \/ Stopping(h, p)' \/ Starting(h, p)'
  BY DEF Holders, InMap, Stopping, Starting, At

LEMMA HoldersQuiet ==
  ASSUME OneHolder, UNCHANGED <<inlets, bound>>, NEW k \in Tasks,
         \A j \in Tasks : j # k => task'[j] = task[j],
         task[k].pc \notin {"stop_inlet", "started"},
         task'[k].pc \notin {"stop_inlet", "started"}
  PROVE  OneHolder'
<1>1. ASSUME NEW p PROVE Holders(p)' = Holders(p)
  <2>1. ASSUME NEW h PROVE h \in Holders(p)' <=> h \in Holders(p)
    <3>1. InMap(h, p)' <=> InMap(h, p)
      BY DEF InMap
    <3>2. Stopping(h, p)' <=> Stopping(h, p)
      BY DEF Stopping
    <3>3. Starting(h, p)' <=> Starting(h, p)
      BY DEF Starting
    <3> QED
      BY <3>1, <3>2, <3>3, HolderIs, HolderIsNext
  <2>2. \A h : h \in Holders(p)' <=> h \in Holders(p)
    BY <2>1
  <2> QED
    BY <2>2
<1>2. bound' = bound
  OBVIOUS
<1> QED
  BY <1>1, <1>2 DEF OneHolder

LEMMA ClearQuiet ==
  ASSUME Clear, inlets' \subseteq inlets, NEW k \in Tasks,
         \A j \in Tasks : j # k => task'[j] = task[j],
         task'[k].pc \notin {"start", "started"}
  PROVE  Clear'
<1>1. ASSUME NEW j \in Tasks, NEW t \in task'[j].now
      PROVE  /\ task'[j].pc = "start" => \A i \in inlets' : i.id = t.id => i.port = t.port
             /\ task'[j].pc = "started" => Lacks(inlets', t)
  <2>1. CASE j = k
    BY <2>1
  <2>2. CASE j # k
    BY <1>1, <2>2 DEF Clear, Lacks
  <2> QED
    BY <2>1, <2>2
<1> QED
  BY <1>1 DEF Clear, Lacks

(* An inlet leaves the map to be stopped, with its port.                   *)
LEMMA DropInletPorts ==
  ASSUME Sound, PortsKept, NEW k \in Tasks, NEW id \in task[k].keys, DropInlet(k, id)
  PROVE  PortsKept'
<1> DEFINE gone == {i \in inlets : i.id = id}
<1>1. /\ task[k].pc = "drop_inlets"
      /\ UNCHANGED bound
      /\ inlets' = inlets \ gone
      /\ Moves(k, IF gone = {} THEN "drop_inlets" ELSE "stop_inlet", task[k].keys \ {id}, {}, gone)
  BY DropInletIs DEF DropInlet, At, Sound
<1>2. Clear'
  BY <1>1, ClearQuiet DEF Moves, PortsKept
<1>3. CASE gone = {}
  <2>1. UNCHANGED inlets /\ task'[k].pc = "drop_inlets"
    BY <1>1, <1>3 DEF Moves
  <2> HIDE DEF gone
  <2> QED
    BY <1>1, <1>2, <2>1, HoldersQuiet DEF Moves, PortsKept
<1>4. CASE gone # {}
  <2>1. PICK i \in inlets : i.id = id
    BY <1>4
  <2>2. gone = {i}
    BY <2>1 DEF Sound, Unique
  <2>3. /\ inlets' = inlets \ {i}
        /\ task'[k].pc = "stop_inlet" /\ task'[k].now = {i}
        /\ \A j \in Tasks : j # k => task'[j] = task[j]
    BY <1>1, <1>4, <2>2 DEF Moves
  <2> HIDE DEF gone
  <2>4. PICK q : q = i.port
    OBVIOUS
  <2>5. <<"map", id>> \in Holders(q)
    BY <2>1, <2>4, HolderIs DEF InMap
  <2>6. q \in bound /\ Holders(q) = {<<"map", id>>}
    BY <2>5 DEF PortsKept, OneHolder
  <2>7. ASSUME NEW p, NEW h
        PROVE  h \in Holders(p)' <=> IF p = q THEN h = <<"stop", k>> ELSE h \in Holders(p)
    <3>1. InMap(h, p)' <=> InMap(h, p) /\ h # <<"map", id>>
      BY <2>1, <2>3 DEF InMap, Sound, Unique
    <3>2. Stopping(h, p)' <=> Stopping(h, p) \/ (h = <<"stop", k>> /\ p = q)
      BY <1>1, <2>3, <2>4 DEF Stopping
    <3>3. Starting(h, p)' <=> Starting(h, p)
      BY <1>1, <2>3 DEF Starting
    <3>4. Stopping(h, p) \/ Starting(h, p) => h # <<"map", id>>
      BY DEF Stopping, Starting
    <3>5. h \in Holders(p)' <=> (h \in Holders(p) /\ h # <<"map", id>>) \/ (h = <<"stop", k>> /\ p = q)
      BY <3>1, <3>2, <3>3, <3>4, HolderIs, HolderIsNext
    <3>6. p # q => <<"map", id>> \notin Holders(p)
      <4>1. ASSUME <<"map", id>> \in Holders(p) PROVE p = q
        <5>1. InMap(<<"map", id>>, p)
          BY <4>1, HolderIs DEF Stopping, Starting
        <5> QED
          BY <2>1, <2>4, <5>1 DEF InMap, Sound, Unique
      <4> QED
        BY <4>1
    <3> QED
      BY <2>6, <3>5, <3>6
  <2>8. ASSUME NEW p
        PROVE  IF p \in bound' THEN \E h \in Holders(p)' : Holders(p)' = {h} ELSE Holders(p)' = {}
    <3>1. CASE p = q
      <4>1. \A h : h \in Holders(p)' <=> h = <<"stop", k>>
        BY <2>7, <3>1
      <4>2. Holders(p)' = {<<"stop", k>>}
        BY <4>1
      <4> QED
        BY <1>1, <2>6, <3>1, <4>2
    <3>2. CASE p # q
      <4>1. \A h : h \in Holders(p)' <=> h \in Holders(p)
        BY <2>7, <3>2
      <4>2. Holders(p)' = Holders(p)
        BY <4>1
      <4> QED
        BY <1>1, <4>2 DEF PortsKept, OneHolder
    <3> QED
      BY <3>1, <3>2
  <2> QED
    BY <1>2, <2>8 DEF PortsKept, OneHolder
<1> QED
  BY <1>2, <1>3, <1>4 DEF PortsKept

(* A stopped inlet gives its port back.                                    *)
LEMMA StopInletPorts ==
  ASSUME Sound, PortsKept, NEW k \in Tasks, StopInlet(k)
  PROVE  PortsKept'
<1>1. /\ task[k].pc = "stop_inlet"
      /\ UNCHANGED inlets
      /\ bound' = bound \ {i.port : i \in task[k].now}
      /\ Moves(k, "drop_inlets", task[k].keys, {}, {})
  BY StopInletIs DEF StopInlet, At, Sound, Released
<1>2. Clear'
  BY <1>1, ClearQuiet DEF Moves, PortsKept
<1>3. ASSUME NEW p, NEW h
      PROVE  h \in Holders(p)' <=> h \in Holders(p) /\ h # <<"stop", k>>
  <2>1. InMap(h, p)' <=> InMap(h, p)
    BY <1>1 DEF InMap
  <2>2. Stopping(h, p)' <=> Stopping(h, p) /\ h # <<"stop", k>>
    BY <1>1 DEF Stopping, Moves
  <2>3. Starting(h, p)' <=> Starting(h, p)
    BY <1>1 DEF Starting, Moves
  <2>4. InMap(h, p) \/ Starting(h, p) => h # <<"stop", k>>
    BY DEF InMap, Starting
  <2> QED
    BY <2>1, <2>2, <2>3, <2>4, HolderIs, HolderIsNext
<1>4. ASSUME NEW p
      PROVE  IF p \in bound' THEN \E h \in Holders(p)' : Holders(p)' = {h} ELSE Holders(p)' = {}
  <2>1. CASE \E i \in task[k].now : i.port = p
    <3>1. <<"stop", k>> \in Holders(p)
      BY <1>1, <2>1, HolderIs DEF Stopping
    <3>2. Holders(p) = {<<"stop", k>>}
      BY <3>1 DEF PortsKept, OneHolder
    <3>3. Holders(p)' = {}
      BY <1>3, <3>2
    <3>4. p \notin bound'
      BY <1>1, <2>1
    <3> QED
      BY <3>3, <3>4
  <2>2. CASE ~ \E i \in task[k].now : i.port = p
    <3>1. <<"stop", k>> \notin Holders(p)
      BY <2>2, HolderIs DEF InMap, Stopping, Starting
    <3>2. \A h : h \in Holders(p)' <=> h \in Holders(p)
      BY <1>3, <3>1
    <3>3. Holders(p)' = Holders(p)
      BY <3>2
    <3>4. p \in bound' <=> p \in bound
      BY <1>1, <2>2
    <3> QED
      BY <3>3, <3>4 DEF PortsKept, OneHolder
  <2> QED
    BY <2>1, <2>2
<1> QED
  BY <1>2, <1>4 DEF PortsKept, OneHolder

(* An inlet that starts takes a port nobody has.                           *)
LEMMA StartInletPorts ==
  ASSUME Sound, PortsKept, NEW k \in Tasks, NEW t \in task[k].now, StartInlet(k, t)
  PROVE  PortsKept'
<1>1. /\ task[k].pc = "start"
      /\ UNCHANGED inlets
      /\ bound' = bound \cup {t.port}
      /\ IF t.port \in bound THEN Moves(k, "add_inlets", {}, task[k].adds, {})
                             ELSE Moves(k, "started", {}, task[k].adds, {t})
  BY StartInletIs DEF StartInlet, At, Sound
<1>2. CASE t.port \in bound
  <2>1. bound' = bound /\ Moves(k, "add_inlets", {}, task[k].adds, {})
    BY <1>1, <1>2
  <2>2. Clear'
    BY <1>1, <2>1, ClearQuiet DEF Moves, PortsKept
  <2> QED
    BY <1>1, <2>1, <2>2, HoldersQuiet DEF Moves, PortsKept
<1>3. CASE t.port \notin bound
  <2>1. Moves(k, "started", {}, task[k].adds, {t})
    BY <1>1, <1>3
  <2>2. PICK q : q = t.port
    OBVIOUS
  <2>3. ASSUME NEW p, NEW h
        PROVE  h \in Holders(p)' <=> h \in Holders(p) \/ (h = <<"new", k>> /\ p = q)
    <3>1. InMap(h, p)' <=> InMap(h, p)
      BY <1>1 DEF InMap
    <3>2. Stopping(h, p)' <=> Stopping(h, p)
      BY <1>1, <2>1 DEF Stopping, Moves
    <3>3. Starting(h, p)' <=> Starting(h, p) \/ (h = <<"new", k>> /\ p = q)
      BY <1>1, <2>1, <2>2 DEF Starting, Moves
    <3> QED
      BY <3>1, <3>2, <3>3, HolderIs, HolderIsNext
  <2>4. Holders(q) = {}
    BY <1>3, <2>2 DEF PortsKept, OneHolder
  <2>5. ASSUME NEW p
        PROVE  IF p \in bound' THEN \E h \in Holders(p)' : Holders(p)' = {h} ELSE Holders(p)' = {}
    <3>1. CASE p = q
      <4>1. \A h : h \in Holders(p)' <=> h = <<"new", k>>
        BY <2>3, <2>4, <3>1
      <4>2. Holders(p)' = {<<"new", k>>}
        BY <4>1
      <4> QED
        BY <1>1, <2>2, <3>1, <4>2
    <3>2. CASE p # q
      <4>1. \A h : h \in Holders(p)' <=> h \in Holders(p)
        BY <2>3, <3>2
      <4>2. Holders(p)' = Holders(p)
        BY <4>1
      <4>3. p \in bound' <=> p \in bound
        BY <1>1, <2>2, <3>2
      <4> QED
        BY <4>2, <4>3 DEF PortsKept, OneHolder
    <3> QED
      BY <3>1, <3>2
  <2>6. ASSUME NEW i \in inlets PROVE i.id # t.id
    <3>1. SUFFICES ASSUME i.id = t.id PROVE FALSE
      OBVIOUS
    <3>2. i.port = q
      BY <1>1, <2>2, <3>1 DEF PortsKept, Clear
    <3>3. <<"map", i.id>> \in Holders(q)
      BY <3>2, HolderIs DEF InMap
    <3> QED
      BY <2>4, <3>3
  <2>7. ASSUME NEW j \in Tasks, NEW u \in task'[j].now
        PROVE  /\ task'[j].pc = "start" => \A i \in inlets : i.id = u.id => i.port = u.port
               /\ task'[j].pc = "started" => Lacks(inlets, u)
    <3>1. CASE j = k
      BY <2>1, <2>6, <2>7, <3>1 DEF Moves, Lacks
    <3>2. CASE j # k
      BY <2>1, <2>7, <3>2 DEF Moves, PortsKept, Clear
    <3> QED
      BY <3>1, <3>2
  <2>8. Clear'
    BY <1>1, <2>7 DEF Clear, Lacks
  <2> QED
    BY <2>5, <2>8 DEF PortsKept, OneHolder
<1> QED
  BY <1>2, <1>3

(* An inlet that was started enters the map with its port.                 *)
LEMMA InsertInletPorts ==
  ASSUME ConstantsOK, Sound, PortsKept, NEW k \in Tasks, NEW t \in task[k].now, InsertInlet(k, t)
  PROVE  PortsKept'
<1>1. /\ task[k].pc = "started"
      /\ bound' = bound
      /\ inlets' = {i \in inlets : i.id # t.id} \cup {NewInlet(t)}
      /\ Moves(k, "add_inlets", {}, task[k].adds, {})
  BY InsertInletIs DEF InsertInlet, At, Sound
<1>2. task[k].now = {t} /\ t \in list
  BY <1>1, NowOf
<1>3. PICK n : n = NewInlet(t)
  OBVIOUS
<1>4. n.id = t.id /\ n.port = t.port
  BY <1>3 DEF NewInlet
<1>5. inlets' = inlets \cup {n} /\ \A i \in inlets : i.id # t.id
  BY <1>1, <1>3 DEF PortsKept, Clear, Lacks
<1>6. PICK q : q = t.port
  OBVIOUS
<1>7. Holders(q) = {<<"new", k>>} /\ q \in bound
  <2>1. <<"new", k>> \in Holders(q)
    BY <1>1, <1>6, HolderIs DEF Starting
  <2> QED
    BY <2>1 DEF PortsKept, OneHolder
<1>8. ASSUME NEW p, NEW h
      PROVE  h \in Holders(p)' <=> \/ h \in Holders(p) /\ h # <<"new", k>>
                                   \/ h = <<"map", t.id>> /\ p = q
  <2>1. InMap(h, p)' <=> InMap(h, p) \/ (h = <<"map", t.id>> /\ p = q)
    BY <1>4, <1>5, <1>6 DEF InMap
  <2>2. Stopping(h, p)' <=> Stopping(h, p)
    BY <1>1 DEF Stopping, Moves
  <2>3. Starting(h, p)' <=> Starting(h, p) /\ h # <<"new", k>>
    BY <1>1 DEF Starting, Moves
  <2>4. InMap(h, p) \/ Stopping(h, p) => h # <<"new", k>>
    BY DEF InMap, Stopping
  <2> QED
    BY <2>1, <2>2, <2>3, <2>4, HolderIs, HolderIsNext
<1>9. ASSUME NEW p
      PROVE  IF p \in bound' THEN \E h \in Holders(p)' : Holders(p)' = {h} ELSE Holders(p)' = {}
  <2>1. CASE p = q
    <3>1. \A h : h \in Holders(p)' <=> h = <<"map", t.id>>
      BY <1>7, <1>8, <2>1
    <3>2. Holders(p)' = {<<"map", t.id>>}
      BY <3>1
    <3> QED
      BY <1>1, <1>7, <2>1, <3>2
  <2>2. CASE p # q
    <3>1. <<"new", k>> \notin Holders(p)
      BY <1>2, <1>6, <2>2, HolderIs DEF InMap, Stopping, Starting
    <3>2. \A h : h \in Holders(p)' <=> h \in Holders(p)
      BY <1>8, <2>2, <3>1
    <3>3. Holders(p)' = Holders(p)
      BY <3>2
    <3> QED
      BY <1>1, <3>3 DEF PortsKept, OneHolder
  <2> QED
    BY <2>1, <2>2
<1>10. ASSUME NEW j \in Tasks, NEW u \in task'[j].now
       PROVE  /\ task'[j].pc = "start" => \A i \in inlets' : i.id = u.id => i.port = u.port
              /\ task'[j].pc = "started" => Lacks(inlets', u)
  <2>1. CASE j = k
    BY <1>1, <2>1 DEF Moves
  <2>2. CASE j # k
    <3>1. task'[j] = task[j] /\ u \in task[j].now
      BY <1>1, <1>10, <2>2 DEF Moves
    <3>2. /\ task[j].pc = "start" => \A i \in inlets : i.id = u.id => i.port = u.port
          /\ task[j].pc = "started" => Lacks(inlets, u)
      BY <3>1 DEF PortsKept, Clear
    <3>3. task[j].pc \in {"start", "started"} /\ u.id = t.id => u = t
      BY <1>2, <3>1, NowOf, ListUnique DEF Sound
    <3>4. task[j].pc = "started" => u # t
      <4>1. SUFFICES ASSUME task[j].pc = "started", u = t PROVE FALSE
        OBVIOUS
      <4>2. <<"new", j>> \in Holders(q)
        BY <1>6, <3>1, <4>1, HolderIs DEF Starting
      <4> QED
        BY <1>7, <2>2, <4>2
    <3> QED
      BY <1>4, <1>5, <3>1, <3>2, <3>3, <3>4 DEF Lacks
  <2> QED
    BY <2>1, <2>2
<1>11. Clear'
  BY <1>10 DEF Clear, Lacks
<1> QED
  BY <1>9, <1>11 DEF PortsKept, OneHolder

LEMMA SyncPorts ==
  ASSUME ConstantsOK, Sound, PortsKept, NEW k \in Tasks, Sync(k)
  PROVE  PortsKept'
<1>0. Typed
  BY DEF Sound
<1> USE DEF At
<1>q. ASSUME UNCHANGED <<inlets, bound>>, \A j \in Tasks : j # k => task'[j] = task[j],
             task[k].pc \notin {"stop_inlet", "started"},
             task'[k].pc \notin {"stop_inlet", "start", "started"}
      PROVE  PortsKept'
  <2>1. OneHolder'
    BY <1>q, HoldersQuiet DEF PortsKept
  <2>2. Clear'
    BY <1>q, ClearQuiet DEF PortsKept
  <2> QED
    BY <2>1, <2>2 DEF PortsKept
<1>1. CASE CollectOutlets(k)
  BY <1>0, <1>1, <1>q, CollectOutletsIs, ZenonT(30) DEF CollectOutlets, Moves
<1>2. ASSUME NEW id \in task[k].keys, DropOutlet(k, id)
      PROVE  PortsKept'
  BY <1>0, <1>2, <1>q, DropOutletIs DEF DropOutlet, Moves
<1>3. CASE StopOutlet(k)
  BY <1>0, <1>3, <1>q, StopOutletIs DEF StopOutlet, Moves
<1>4. CASE CollectInlets(k)
  BY <1>0, <1>4, <1>q, CollectInletsIs DEF CollectInlets, Moves
<1>5. CASE BeginAdds(k)
  BY <1>0, <1>5, <1>q, BeginAddsIs DEF BeginAdds, Moves
<1>6. ASSUME NEW t \in task[k].adds, CheckOutlet(k, t)
      PROVE  PortsKept'
  <2>1. \/ Moves(k, "create", {}, task[k].adds \ {t}, {t})
        \/ Moves(k, "add_outlets", {}, task[k].adds \ {t}, {})
    BY <1>0, <1>6, CheckOutletIs
  <2> QED
    BY <1>6, <1>q, <2>1 DEF CheckOutlet, Moves
<1>7. ASSUME NEW t \in task[k].now, InsertOutlet(k, t)
      PROVE  PortsKept'
  BY <1>0, <1>7, <1>q, InsertOutletIs DEF InsertOutlet, Moves
<1>8. CASE BeginInlets(k)
  BY <1>0, <1>8, <1>q, BeginInletsIs, ZenonT(30) DEF BeginInlets, Moves
<1>9. ASSUME NEW t \in task[k].adds, CheckInlet(k, t)
      PROVE  PortsKept'
  <2>0. UNCHANGED <<inlets, bound>> /\ task[k].pc = "add_inlets"
    BY <1>9 DEF CheckInlet
  <2>1. CASE Lacks(inlets, t) /\ KnownKind(t)
    <3>1. Moves(k, "start", {}, task[k].adds \ {t}, {t})
      BY <1>0, <1>9, <2>1, CheckInletIs, ZenonT(30)
    <3>2. OneHolder'
      BY <2>0, <3>1, HoldersQuiet DEF PortsKept, Moves
    <3>3. ASSUME NEW j \in Tasks, NEW u \in task'[j].now
          PROVE  /\ task'[j].pc = "start" => \A i \in inlets : i.id = u.id => i.port = u.port
                 /\ task'[j].pc = "started" => Lacks(inlets, u)
      <4>1. CASE j = k
        BY <2>1, <3>1, <3>3, <4>1 DEF Moves, Lacks
      <4>2. CASE j # k
        BY <3>1, <3>3, <4>2 DEF Moves, PortsKept, Clear
      <4> QED
        BY <4>1, <4>2
    <3>4. Clear'
      BY <2>0, <3>3 DEF Clear, Lacks
    <3> QED
      BY <3>2, <3>4 DEF PortsKept
  <2>2. CASE ~ (Lacks(inlets, t) /\ KnownKind(t))
    <3>1. Moves(k, "add_inlets", {}, task[k].adds \ {t}, {})
      BY <1>0, <1>9, <2>2, CheckInletIs
    <3> QED
      BY <1>q, <2>0, <3>1 DEF Moves
  <2> QED
    BY <2>1, <2>2
<1>10. CASE Finish(k)
  BY <1>0, <1>10, <1>q, FinishIs DEF Finish, Moves
<1> QED
  BY <1>1, <1>2, <1>3, <1>4, <1>5, <1>6, <1>7, <1>8, <1>9, <1>10,
     DropInletPorts, StopInletPorts, StartInletPorts, InsertInletPorts, ZenonT(30) DEF Sync

LEMMA ChangePorts ==
  ASSUME Sound, PortsKept, NEW k \in Tasks, NEW new \in Lists, Change(k, new)
  PROVE  PortsKept'
<1>1. Moves(k, "changed", {}, {}, {})
  BY ChangeIs DEF Sound
<1>2. UNCHANGED <<inlets, bound>> /\ task[k].pc = "idle"
  BY DEF Change, At
<1>3. OneHolder'
  BY <1>1, <1>2, HoldersQuiet DEF PortsKept, Moves
<1>4. Clear'
  BY <1>1, <1>2, ClearQuiet DEF PortsKept, Moves
<1> QED
  BY <1>3, <1>4 DEF PortsKept

-----------------------------------------------------------------------------
(* Inlets, as the outlets.  A tunnel that was refused its port is not lost:*)
(* whoever has the port is an inlet that goes away, and then a task that   *)
(* has still to look at every tunnel, or another start of the same tunnel. *)
First == {"changed", "drop_outlets", "stop_outlet"}
Dropping2 == {"drop_inlets", "stop_inlet"}
Early2 == Early \cup {"add_outlets", "create"}
Adding2 == {"add_inlets", "start", "started"}
Starts == {"start", "started"}

InletDoomed(id) ==
  \E k \in Tasks : task[k].pc \in First \/ (task[k].pc \in Dropping2 /\ id \in task[k].keys)
InletDue(t) ==
  \E k \in Tasks : \/ task[k].pc \in Early2
                   \/ task[k].pc \in Adding2 /\ t \in task[k].adds
                   \/ task[k].pc \in Starts /\ t \in task[k].now
InletRuns(t) == \E i \in inlets : i.description = inlet_description(t)

InletsFollow ==
  /\ \A i \in inlets : RetainInlet(Server, list, i) \/ InletDoomed(i.id)
  /\ \A t \in RunI : InletRuns(t) \/ InletDue(t)
  /\ \A i \in inlets : i.description[5] \in 0..2

DoomKept2(k) ==
  \A i \in inlets :
    /\ ~ RetainInlet(Server, list, i)
    /\ task[k].pc \in First \/ (task[k].pc \in Dropping2 /\ i.id \in task[k].keys)
    => task'[k].pc \in First \/ (task'[k].pc \in Dropping2 /\ i.id \in task'[k].keys)
DueKept2(k) ==
  \A t \in RunI :
    \/ task[k].pc \in Early2
    \/ task[k].pc \in Adding2 /\ t \in task[k].adds
    \/ task[k].pc \in Starts /\ t \in task[k].now
    => \/ task'[k].pc \in Early2
       \/ task'[k].pc \in Adding2 /\ t \in task'[k].adds
       \/ task'[k].pc \in Starts /\ t \in task'[k].now
       \/ InletRuns(t)
       \/ InletDue(t)'

LEMMA InletOfId ==
  ASSUME Typed, NEW i \in inlets, NEW t, i.description = inlet_description(t)
  PROVE  i.id = t.id /\ i.port = t.port
<1>1. i.id = i.description[1] /\ i.port = i.description[2]
  BY InIs DEF Typed
<1> QED
  BY <1>1 DEF inlet_description

(* An inlet under the id of a tunnel or on its port is the tunnel's, or it *)
(* is doomed.                                                              *)
LEMMA InletThere ==
  ASSUME ConstantsOK, Sound, InletsFollow, NEW t \in RunI, NEW i \in inlets,
         i.id = t.id \/ i.port = t.port
  PROVE  InletRuns(t) \/ InletDoomed(i.id)
<1>1. CASE RetainInlet(Server, list, i)
  <2>1. PICK u \in list : WantsInlet(Server, u) /\ inlet_description(u) = i.description
    BY <1>1 DEF RetainInlet
  <2>2. u.id = i.id /\ u.port = i.port
    BY <2>1, InletOfId DEF Sound
  <2>3. u.receiver = t.receiver /\ t \in list
    BY <2>1 DEF WantsInlet, RunI, WantI
  <2>4. u = t
    BY <2>1, <2>2, <2>3, ListUnique DEF Sound
  <2> QED
    BY <2>1, <2>4 DEF InletRuns
<1> QED
  BY <1>1 DEF InletsFollow

LEMMA InletsQuiet ==
  ASSUME InletsFollow, UNCHANGED <<list, inlets>>, NEW k \in Tasks,
         \A j \in Tasks : j # k => task'[j] = task[j], DoomKept2(k), DueKept2(k)
  PROVE  InletsFollow'
<1>1. RunI' = RunI /\ \A t : InletRuns(t)' = InletRuns(t)
  BY DEF RunI, WantI, InletRuns
<1>2. ASSUME NEW i \in inlets, ~ RetainInlet(Server, list, i)
      PROVE  InletDoomed(i.id)'
  <2>1. PICK id : id = i.id
    OBVIOUS
  <2>2. InletDoomed(id)
    BY <1>2, <2>1 DEF InletsFollow
  <2>3. PICK j \in Tasks : task[j].pc \in First \/ (task[j].pc \in Dropping2 /\ id \in task[j].keys)
    BY <2>2 DEF InletDoomed
  <2>4. task'[j].pc \in First \/ (task'[j].pc \in Dropping2 /\ id \in task'[j].keys)
    BY <1>2, <2>1, <2>3 DEF DoomKept2
  <2> QED
    BY <2>1, <2>4 DEF InletDoomed
<1>3. ASSUME NEW t \in RunI PROVE InletRuns(t) \/ InletDue(t)'
  <2>1. CASE InletRuns(t)
    BY <2>1
  <2>2. CASE InletDue(t)
    <3>1. PICK j \in Tasks : \/ task[j].pc \in Early2
                             \/ task[j].pc \in Adding2 /\ t \in task[j].adds
                             \/ task[j].pc \in Starts /\ t \in task[j].now
      BY <2>2 DEF InletDue
    <3>2. CASE j = k
      BY <3>1, <3>2 DEF InletDue, DueKept2
    <3>3. CASE j # k
      BY <3>1, <3>3 DEF InletDue
    <3> QED
      BY <3>2, <3>3
  <2> QED
    BY <2>1, <2>2 DEF InletsFollow
<1>4. \A i : RetainInlet(Server, list, i)' = RetainInlet(Server, list, i)
  BY DEF RetainInlet
<1>5. \A i \in inlets' : RetainInlet(Server, list, i)' \/ InletDoomed(i.id)'
  BY <1>2, <1>4
<1>6. \A t \in RunI' : InletRuns(t)' \/ InletDue(t)'
  BY <1>1, <1>3
<1> QED
  BY <1>5, <1>6 DEF InletsFollow

(* A task that has still to look at every tunnel covers them all.          *)
LEMMA DueByOther ==
  ASSUME NEW j \in Tasks, task'[j].pc \in Early2
  PROVE  \A t : InletDue(t)'
  BY DEF InletDue

LEMMA DropInletFollows ==
  ASSUME Sound, InletsFollow, NEW k \in Tasks, NEW id \in task[k].keys, DropInlet(k, id)
  PROVE  InletsFollow'
<1>1. PICK pc \in Dropping2 : \E now : Moves(k, pc, task[k].keys \ {id}, {}, now)
  BY DropInletIs DEF Sound, Dropping2
<1>2. list' = list /\ inlets' = {i \in inlets : i.id # id} /\ task[k].pc = "drop_inlets"
  BY DEF DropInlet, At
<1>3. ASSUME NEW i \in inlets' PROVE RetainInlet(Server, list, i)' \/ InletDoomed(i.id)'
  <2>0. i \in inlets /\ i.id # id
    BY <1>2
  <2>1. RetainInlet(Server, list, i)' <=> RetainInlet(Server, list, i)
    BY <1>2 DEF RetainInlet
  <2>2. CASE InletDoomed(i.id)
    <3>1. PICK j \in Tasks : task[j].pc \in First \/ (task[j].pc \in Dropping2 /\ i.id \in task[j].keys)
      BY <2>2 DEF InletDoomed
    <3>2. CASE j = k
      BY <1>1, <1>2, <2>0, <3>1, <3>2 DEF InletDoomed, Moves, First
    <3>3. CASE j # k
      BY <1>1, <3>1, <3>3 DEF InletDoomed, Moves
    <3> QED
      BY <3>2, <3>3
  <2> QED
    BY <2>0, <2>1, <2>2 DEF InletsFollow
<1>4. \A t : InletDue(t)'
  <2>1. task'[k].pc \in Early2
    BY <1>1 DEF Moves, Dropping2, Early2, Early
  <2> QED
    BY <2>1, DueByOther
<1>5. \A i \in inlets' : i.description[5] \in 0..2
  BY <1>2 DEF InletsFollow
<1> QED
  BY <1>3, <1>4, <1>5 DEF InletsFollow

LEMMA CheckInletFollows ==
  ASSUME ConstantsOK, Sound, InletsFollow, NEW k \in Tasks, NEW t \in task[k].adds, CheckInlet(k, t)
  PROVE  InletsFollow'
<1>0. UNCHANGED <<list, inlets>> /\ task[k].pc = "add_inlets" /\ Typed
  BY DEF CheckInlet, At, Sound
<1>1. DoomKept2(k)
  BY <1>0 DEF DoomKept2, First, Dropping2
<1>2. CASE Lacks(inlets, t) /\ KnownKind(t)
  <2>1. Moves(k, "start", {}, task[k].adds \ {t}, {t})
    BY <1>0, <1>2, CheckInletIs
  <2>2. DueKept2(k)
    BY <1>0, <2>1 DEF DueKept2, Moves, Early2, Early, Adding2, Starts
  <2> QED
    BY <1>0, <1>1, <2>1, <2>2, InletsQuiet DEF Moves
<1>3. CASE ~ (Lacks(inlets, t) /\ KnownKind(t))
  <2>1. Moves(k, "add_inlets", {}, task[k].adds \ {t}, {})
    BY <1>0, <1>3, CheckInletIs
  <2>2. t \in RunI => InletRuns(t) \/ InletDue(t)'
    <3>1. SUFFICES ASSUME t \in RunI PROVE InletRuns(t) \/ InletDue(t)'
      OBVIOUS
    <3>2. PICK i \in inlets : i.id = t.id
      BY <1>3, <3>1 DEF Lacks, RunI
    <3>3. CASE InletDoomed(i.id)
      <4>1. PICK j \in Tasks : task[j].pc \in First \cup Dropping2
        BY <3>3 DEF InletDoomed
      <4>2. task'[j] = task[j] /\ task[j].pc \in Early2
        BY <1>0, <2>1, <4>1 DEF Moves, First, Dropping2, Early2, Early
      <4> QED
        BY <4>2, DueByOther
    <3> QED
      BY <3>1, <3>2, <3>3, InletThere
  <2>3. DueKept2(k)
    BY <1>0, <2>1, <2>2 DEF DueKept2, Moves, Early2, Early, Adding2, Starts
  <2> QED
    BY <1>0, <1>1, <2>1, <2>3, InletsQuiet DEF Moves
<1> QED
  BY <1>2, <1>3

LEMMA StartInletFollows ==
  ASSUME ConstantsOK, Sound, PortsKept, InletsFollow,
         NEW k \in Tasks, NEW t \in task[k].now, StartInlet(k, t)
  PROVE  InletsFollow'
<1>0. UNCHANGED <<list, inlets>> /\ task[k].pc = "start" /\ Typed
  BY DEF StartInlet, At, Sound
<1>1. DoomKept2(k)
  BY <1>0 DEF DoomKept2, First, Dropping2
<1>2. task[k].now = {t} /\ t \in RunI /\ t \in list
  BY <1>0, NowOf
<1>3. CASE t.port \notin bound
  <2>1. Moves(k, "started", {}, task[k].adds, {t})
    BY <1>0, <1>3, StartInletIs
  <2>2. DueKept2(k)
    BY <1>0, <1>2, <2>1 DEF DueKept2, Moves, Early2, Early, Adding2, Starts
  <2> QED
    BY <1>0, <1>1, <2>1, <2>2, InletsQuiet DEF Moves
<1>4. CASE t.port \in bound
  <2>1. Moves(k, "add_inlets", {}, task[k].adds, {})
    BY <1>0, <1>4, StartInletIs
  <2>o. ASSUME NEW j \in Tasks, task[j].pc \in Early PROVE InletDue(t)'
    <3>1. task'[j].pc \in Early2
      BY <1>0, <2>1, <2>o DEF Moves, Early2, Early
    <3> QED
      BY <3>1, DueByOther
  <2>2. InletRuns(t) \/ InletDue(t)'
    <3>1. PICK h : h \in Holders(t.port)
      BY <1>4 DEF PortsKept, OneHolder
    <3>2. CASE InMap(h, t.port)
      <4>1. PICK i \in inlets : i.port = t.port
        BY <3>2 DEF InMap
      <4>2. CASE InletDoomed(i.id)
        BY <2>o, <4>2 DEF InletDoomed, First, Dropping2, Early
      <4> QED
        BY <1>2, <4>1, <4>2, InletThere
    <3>3. CASE Stopping(h, t.port)
      BY <2>o, <3>3 DEF Stopping, Early
    <3>4. CASE Starting(h, t.port)
      <4>1. PICK j \in Tasks : task[j].pc = "started" /\ \E u \in task[j].now : u.port = t.port
        BY <3>4 DEF Starting
      <4>2. PICK u \in task[j].now : u.port = t.port
        BY <4>1
      <4>3. u \in RunI /\ u \in list
        BY <4>1, NowOf
      <4>4. u = t
        BY <1>2, <4>2, <4>3, ListUnique DEF Sound, RunI, WantI, WantsInlet
      <4>5. task'[j] = task[j]
        BY <1>0, <2>1, <4>1 DEF Moves
      <4> QED
        BY <4>1, <4>2, <4>4, <4>5 DEF InletDue, Starts
    <3> QED
      BY <3>1, <3>2, <3>3, <3>4, HolderIs
  <2>3. DueKept2(k)
    BY <1>0, <1>2, <2>1, <2>2 DEF DueKept2, Moves, Early2, Early, Adding2, Starts
  <2> QED
    BY <1>0, <1>1, <2>1, <2>3, InletsQuiet DEF Moves
<1> QED
  BY <1>3, <1>4

LEMMA InsertInletFollows ==
  ASSUME ConstantsOK, Sound, InletsFollow, NEW k \in Tasks, NEW t \in task[k].now, InsertInlet(k, t)
  PROVE  InletsFollow'
<1>0. /\ list' = list
      /\ task[k].pc = "started" /\ Typed
      /\ inlets' = {i \in inlets : i.id # t.id} \cup {NewInlet(t)}
  BY DEF InsertInlet, At, Sound
<1>1. Moves(k, "add_inlets", {}, task[k].adds, {})
  BY <1>0, InsertInletIs
<1>2. task[k].now = {t} /\ t \in RunI /\ t \in list
  BY <1>0, NowOf
<1>3. RunI' = RunI /\ \A i : RetainInlet(Server, list, i)' <=> RetainInlet(Server, list, i)
  BY <1>0 DEF RunI, WantI, RetainInlet
<1>4. PICK n : n = NewInlet(t)
  OBVIOUS
<1>5. n.id = t.id /\ n.description = inlet_description(t) /\ n \in inlets'
  BY <1>0, <1>4 DEF NewInlet
<1>6. RetainInlet(Server, list, n)
  BY <1>2, <1>5 DEF RetainInlet, RunI, WantI
<1>7. n.description[5] \in 0..2
  BY <1>2, <1>5 DEF inlet_description, RunI, KnownKind
<1>8. \A id : InletDoomed(id) => InletDoomed(id)'
  BY <1>0, <1>1 DEF InletDoomed, Moves, First, Dropping2
<1>9. /\ \A i \in inlets' : RetainInlet(Server, list, i)' \/ InletDoomed(i.id)'
      /\ \A i \in inlets' : i.description[5] \in 0..2
  <2>1. ASSUME NEW i \in inlets'
        PROVE  (RetainInlet(Server, list, i)' \/ InletDoomed(i.id)') /\ i.description[5] \in 0..2
    <3>1. CASE i = n
      BY <1>3, <1>6, <1>7, <3>1
    <3>2. CASE i \in inlets
      BY <1>3, <1>8, <3>2 DEF InletsFollow
    <3> QED
      BY <1>0, <1>4, <3>1, <3>2
  <2> QED
    BY <2>1
<1>10. ASSUME NEW u \in RunI PROVE InletRuns(u)' \/ InletDue(u)'
  <2>1. CASE u = t
    BY <1>5, <2>1 DEF InletRuns
  <2>2. CASE u # t
    <3>1. u.id # t.id
      BY <1>0, <1>2, <2>2, ListUnique DEF RunI, WantI
    <3>2. CASE InletRuns(u)
      <4>1. PICK i \in inlets : i.description = inlet_description(u)
        BY <3>2 DEF InletRuns
      <4>2. i \in inlets'
        BY <1>0, <3>1, <4>1, InletOfId
      <4> QED
        BY <4>1, <4>2 DEF InletRuns
    <3>3. CASE InletDue(u)
      <4>1. PICK j \in Tasks : \/ task[j].pc \in Early2
                               \/ task[j].pc \in Adding2 /\ u \in task[j].adds
                               \/ task[j].pc \in Starts /\ u \in task[j].now
        BY <3>3 DEF InletDue
      <4>2. CASE j = k
        BY <1>0, <1>1, <1>2, <2>2, <4>1, <4>2
        DEF InletDue, Moves, Early2, Early, Adding2, Starts
      <4>3. CASE j # k
        BY <1>1, <4>1, <4>3 DEF InletDue, Moves
      <4> QED
        BY <4>2, <4>3
    <3> QED
      BY <3>2, <3>3 DEF InletsFollow
  <2> QED
    BY <2>1, <2>2
<1> QED
  BY <1>3, <1>9, <1>10 DEF InletsFollow

LEMMA SyncInlets ==
  ASSUME ConstantsOK, Sound, PortsKept, InletsFollow, NEW k \in Tasks, Sync(k)
  PROVE  InletsFollow'
<1>0. Typed /\ Given(k)
  BY DEF Sound
<1> USE DEF At
<1>q. ASSUME UNCHANGED <<list, inlets>>, \A j \in Tasks : j # k => task'[j] = task[j],
             task'[k].pc \in Early2, DoomKept2(k)
      PROVE  InletsFollow'
  <2>1. DueKept2(k)
    BY <1>q DEF DueKept2
  <2> QED
    BY <1>q, <2>1, InletsQuiet
<1>1. CASE CollectOutlets(k)
  <2>1. Moves(k, "drop_outlets", OutletsKeys, {}, {})
    BY <1>0, <1>1, CollectOutletsIs
  <2>2. DoomKept2(k) /\ task'[k].pc \in Early2
    BY <2>1 DEF DoomKept2, Moves, First, Early2, Early
  <2> QED
    BY <1>1, <1>q, <2>1, <2>2 DEF CollectOutlets, Moves
<1>2. ASSUME NEW id \in task[k].keys, DropOutlet(k, id)
      PROVE  InletsFollow'
  <2>1. PICK pc \in Dropping : Moves(k, pc, task[k].keys \ {id}, {}, {})
    BY <1>0, <1>2, DropOutletIs DEF Dropping
  <2>2. DoomKept2(k) /\ task'[k].pc \in Early2
    BY <2>1 DEF DoomKept2, Moves, First, Dropping, Early2, Early
  <2> QED
    BY <1>2, <1>q, <2>1, <2>2 DEF DropOutlet, Moves
<1>3. CASE StopOutlet(k)
  <2>1. Moves(k, "drop_outlets", task[k].keys, {}, {})
    BY <1>0, <1>3, StopOutletIs
  <2>2. DoomKept2(k) /\ task'[k].pc \in Early2
    BY <2>1 DEF DoomKept2, Moves, First, Early2, Early
  <2> QED
    BY <1>3, <1>q, <2>1, <2>2 DEF StopOutlet, Moves
<1>4. CASE CollectInlets(k)
  <2>1. Moves(k, "drop_inlets", InletsKeys, {}, {})
    BY <1>0, <1>4, CollectInletsIs
  <2>2. \A i \in inlets : ~ RetainInlet(Server, list, i) => i.id \in InletsKeys
    BY DEF InletsKeys, InvalidInlets
  <2>3. DoomKept2(k) /\ task'[k].pc \in Early2
    BY <2>1, <2>2 DEF DoomKept2, Moves, Dropping2, Early2, Early
  <2> QED
    BY <1>4, <1>q, <2>1, <2>3 DEF CollectInlets, Moves
<1>5. CASE StopInlet(k)
  <2>1. Moves(k, "drop_inlets", task[k].keys, {}, {})
    BY <1>0, <1>5, StopInletIs
  <2>2. DoomKept2(k) /\ task'[k].pc \in Early2
    BY <1>5, <2>1 DEF DoomKept2, Moves, First, Dropping2, Early2, Early, StopInlet
  <2> QED
    BY <1>5, <1>q, <2>1, <2>2 DEF StopInlet, Moves
<1>6. CASE BeginAdds(k)
  <2>1. Moves(k, "add_outlets", {}, WantO, {})
    BY <1>0, <1>6, BeginAddsIs
  <2>2. DoomKept2(k) /\ task'[k].pc \in Early2
    BY <1>6, <2>1, ZenonT(30) DEF DoomKept2, Moves, First, Dropping2, Early2, BeginAdds
  <2> QED
    BY <1>6, <1>q, <2>1, <2>2 DEF BeginAdds, Moves
<1>7. ASSUME NEW t \in task[k].adds, CheckOutlet(k, t)
      PROVE  InletsFollow'
  <2>1. \/ Moves(k, "create", {}, task[k].adds \ {t}, {t})
        \/ Moves(k, "add_outlets", {}, task[k].adds \ {t}, {})
    BY <1>0, <1>7, CheckOutletIs, ZenonT(30)
  <2>2. DoomKept2(k) /\ task'[k].pc \in Early2
    BY <1>7, <2>1 DEF DoomKept2, Moves, First, Dropping2, Early2, CheckOutlet
  <2> QED
    BY <1>7, <1>q, <2>1, <2>2, ZenonT(30) DEF CheckOutlet, Moves
<1>8. ASSUME NEW t \in task[k].now, InsertOutlet(k, t)
      PROVE  InletsFollow'
  <2>1. Moves(k, "add_outlets", {}, task[k].adds, {})
    BY <1>0, <1>8, InsertOutletIs
  <2>2. DoomKept2(k) /\ task'[k].pc \in Early2
    BY <1>8, <2>1, ZenonT(30) DEF DoomKept2, Moves, First, Dropping2, Early2, InsertOutlet
  <2> QED
    BY <1>8, <1>q, <2>1, <2>2 DEF InsertOutlet, Moves
<1>9. CASE BeginInlets(k)
  <2>1. Moves(k, "add_inlets", {}, WantI, {})
    BY <1>0, <1>9, BeginInletsIs
  <2>2. DoomKept2(k)
    BY <1>9 DEF DoomKept2, First, Dropping2, BeginInlets
  <2>3. DueKept2(k)
    BY <2>1 DEF DueKept2, Moves, Adding2, RunI
  <2> QED
    BY <1>9, <2>1, <2>2, <2>3, InletsQuiet DEF BeginInlets, Moves
<1>10. CASE Finish(k)
  <2>1. Moves(k, "idle", {}, {}, {})
    BY <1>0, <1>10, FinishIs
  <2>2. DoomKept2(k)
    BY <1>10 DEF DoomKept2, First, Dropping2, Finish
  <2>3. DueKept2(k)
    BY <1>10 DEF DueKept2, Early2, Early, Adding2, Starts, Finish
  <2> QED
    BY <1>10, <2>1, <2>2, <2>3, InletsQuiet DEF Finish, Moves
<1> QED
  BY <1>1, <1>2, <1>3, <1>4, <1>5, <1>6, <1>7, <1>8, <1>9, <1>10,
     DropInletFollows, CheckInletFollows, StartInletFollows, InsertInletFollows, ZenonT(30) DEF Sync

LEMMA ChangeInlets ==
  ASSUME Sound, InletsFollow, NEW k \in Tasks, NEW new \in Lists, Change(k, new)
  PROVE  InletsFollow'
<1>1. Moves(k, "changed", {}, {}, {})
  BY ChangeIs DEF Sound
<1>2. \A id : InletDoomed(id)' /\ InletDue(id)'
  BY <1>1 DEF InletDoomed, InletDue, Moves, Early2, Early, First
<1>3. \A i \in inlets' : i.description[5] \in 0..2
  BY DEF InletsFollow, Change
<1> QED
  BY <1>2, <1>3 DEF InletsFollow

-----------------------------------------------------------------------------
Follow == Sound /\ PortsKept /\ OutletsFollow /\ InletsFollow

LEMMA FollowInit == ConstantsOK /\ Init => Follow
<1> SUFFICES ASSUME Init PROVE Follow
  OBVIOUS
<1>1. Sound
  BY SoundInit
<1>2. \A k \in Tasks : task[k].pc = "idle" /\ task[k].now = {}
  BY DEF Init, Idle
<1>3. ASSUME NEW p PROVE Holders(p) = {}
  <2>1. ASSUME NEW h PROVE h \notin Holders(p)
    BY <1>2, HolderIs DEF InMap, Stopping, Starting, Init
  <2> QED
    BY <2>1
<1>4. PortsKept
  BY <1>2, <1>3 DEF PortsKept, OneHolder, Clear, Init
<1>5. OutletsFollow /\ InletsFollow
  BY DEF OutletsFollow, InletsFollow, WantO, WantI, RunI, Init
<1> QED
  BY <1>1, <1>4, <1>5 DEF Follow

LEMMA FollowStep ==
  ASSUME ConstantsOK, Follow, [Next]_vars
  PROVE  Follow'
<1>1. CASE UNCHANGED vars
  <2>1. WantO' = WantO /\ WantI' = WantI /\ RunI' = RunI
    BY <1>1 DEF vars, WantO, WantI, RunI
  <2>2. Sound'
    BY <1>1, <2>1 DEF Follow, Sound, Typed, Unique, Given, vars
  <2>3. \A p : Holders(p)' = Holders(p)
    BY <1>1 DEF Holders, At, vars
  <2>4. Clear'
    BY <1>1 DEF Follow, PortsKept, Clear, Lacks, vars
  <2>5. PortsKept'
    BY <1>1, <2>3, <2>4 DEF Follow, PortsKept, OneHolder, vars
  <2>6. OutletsFollow'
    BY <1>1, <2>1
    DEF Follow, OutletsFollow, OutletDoomed, OutletDue, OutletRuns, RetainOutlet, vars
  <2>7. InletsFollow'
    BY <1>1, <2>1 DEF Follow, InletsFollow, InletDoomed, InletDue, InletRuns, RetainInlet, vars
  <2> QED
    BY <2>2, <2>5, <2>6, <2>7 DEF Follow
<1>2. ASSUME NEW k \in Tasks, Sync(k) PROVE Follow'
  BY <1>2, SyncSound, SyncPorts, SyncOutlets, SyncInlets DEF Follow
<1>3. ASSUME NEW k \in Tasks, NEW new \in Lists, Change(k, new) PROVE Follow'
  BY <1>3, ChangeSound, ChangePorts, ChangeOutlets, ChangeInlets DEF Follow
<1> QED
  BY <1>1, <1>2, <1>3 DEF Next

(* Every port a listener of the server is on has exactly one owner, an     *)
(* inlet of the map, one that is being stopped or one on its way into the  *)
(* map, and every such inlet has its port, whatever syncs overlap.         *)
THEOREM OneInletPerPort ==
  ASSUME ConstantsOK
  PROVE  Spec => []OnePortOneInlet
<1>1. Follow => OnePortOneInlet
  BY DEF Follow, PortsKept, OneHolder, OnePortOneInlet
<1> QED
  BY <1>1, FollowInit, FollowStep, PTL DEF Spec

(* Once no sync is under way the server runs exactly the outlets and       *)
(* inlets its list asks for, with the parameters the list has, however     *)
(* many changes and syncs overlapped before.                               *)
THEOREM SyncsConverge ==
  ASSUME ConstantsOK
  PROVE  Spec => []Converged
<1>1. ASSUME Follow PROVE Converged
  <2>1. SUFFICES ASSUME \A k \in Tasks : task[k].pc = "idle"
                 PROVE  /\ {o.description : o \in outlets} = {outlet_description(t) : t \in WantO}
                        /\ {i.description : i \in inlets} = {inlet_description(t) : t \in RunI}
    <3>1. RunI = {u \in list : WantsInlet(Server, u) /\ KnownKind(u)}
      BY DEF RunI, WantI
    <3> QED
      BY <3>1 DEF Converged, At, WantO
  <2>2. /\ \A id : ~ OutletDoomed(id) /\ ~ OutletDue(id)
        /\ \A id : ~ InletDoomed(id) /\ ~ InletDue(id)
    BY <2>1 DEF OutletDoomed, OutletDue, InletDoomed, InletDue, Dropping, Early,
                First, Dropping2, Early2, Adding2, Starts
  <2>3. \A o \in outlets : \E t \in WantO : o.description = outlet_description(t)
    BY <1>1, <2>2 DEF Follow, OutletsFollow, RetainOutlet, WantO
  <2>4. \A t \in WantO : \E o \in outlets : o.description = outlet_description(t)
    BY <1>1, <2>2 DEF Follow, OutletsFollow, OutletRuns
  <2>5. ASSUME NEW i \in inlets PROVE \E t \in RunI : i.description = inlet_description(t)
    <3>1. PICK t \in WantI : inlet_description(t) = i.description
      BY <1>1, <2>2 DEF Follow, InletsFollow, RetainInlet, WantI
    <3>2. inlet_description(t)[5] = t.kind
      BY DEF inlet_description
    <3>3. t \in RunI
      BY <1>1, <3>1, <3>2 DEF Follow, InletsFollow, RunI, KnownKind
    <3> QED
      BY <3>1, <3>3
  <2>6. \A t \in RunI : \E i \in inlets : i.description = inlet_description(t)
    BY <1>1, <2>2 DEF Follow, InletsFollow, InletRuns
  <2>7. {o.description : o \in outlets} = {outlet_description(t) : t \in WantO}
    BY <2>3, <2>4
  <2>8. {i.description : i \in inlets} = {inlet_description(t) : t \in RunI}
    BY <2>5, <2>6
  <2> QED
    BY <2>7, <2>8
<1>2. Follow => Converged
  BY <1>1
<1> QED
  BY <1>2, FollowInit, FollowStep, PTL DEF Spec

-----------------------------------------------------------------------------
(* tunnel_detection, the test a tunnel has to pass before it enters the    *)
(* list, keeps ports apart, for any receivers, ports and number of         *)
(* tunnels.                                                                *)
CONSTANTS Receivers, Ports, MaxTunnels
VARIABLE checked   \* the tunnels stored, as Detection has them
D == INSTANCE Detection WITH tunnels <- checked

(* What is stored was accepted, and an id belongs to one tunnel.           *)
Accepted ==
  /\ checked \subseteq [id : Nat \ {0}, req : D!Requests]
  /\ \A x \in checked : x.req.source.form \in {"v4", "v6"}
  /\ \A x, y \in checked : x.id = y.id => x = y

Apart == Accepted /\ D!NoSharedPort

(* A request that tunnel_detection accepts for id shares no port with any  *)
(* tunnel but id's own.                                                    *)
LEMMA AcceptedApart ==
  ASSUME NEW id, NEW req \in D!Requests, D!tunnel_detection(id, req), Accepted,
         NEW x \in checked, x.id # id, x.req.receiver = req.receiver,
         x.req.source.form = req.source.form
  PROVE  req.source.form = "v4" /\ x.req.source.port # req.source.port
<1>1. req.source.form \in {"v4", "v6"}
  BY DEF D!tunnel_detection, D!is_valid_tunnel_source_address
<1>2. D!get_tunnel_address_port(x.req.source) # D!get_tunnel_address_port(req.source)
  BY DEF D!tunnel_detection, D!port_conflict_detection
<1>3. CASE req.source.form = "v6"
  BY <1>2, <1>3 DEF D!get_tunnel_address_port, D!Parts
<1>4. CASE req.source.form = "v4"
  BY <1>2, <1>4 DEF D!get_tunnel_address_port, D!Parts
<1> QED BY <1>1, <1>3, <1>4

(* Replacing the tunnels of one id by an accepted request with that id.    *)
LEMMA StoreApart ==
  ASSUME Apart, NEW id \in Nat, NEW new \in Nat \ {0}, NEW req \in D!Requests,
         D!tunnel_detection(id, req), NEW rest \in SUBSET checked,
         \A x \in rest : x.id # id /\ x.id # new,
         checked' = rest \cup {[id |-> new, req |-> req]}
  PROVE  Apart'
<1> DEFINE n == [id |-> new, req |-> req]
<1>1. n.id = new /\ n.req = req /\ n \in [id : Nat \ {0}, req : D!Requests]
  OBVIOUS
<1>2. req.source.form \in {"v4", "v6"}
  BY DEF D!tunnel_detection, D!is_valid_tunnel_source_address
<1>3. Accepted'
  BY <1>1, <1>2 DEF Apart, Accepted
<1>4. ASSUME NEW x \in rest, x.req.receiver = req.receiver,
             x.req.source.form = req.source.form
      PROVE  req.source.form = "v4" /\ x.req.source.port # req.source.port
  BY <1>4, AcceptedApart DEF Apart
<1>5. D!NoSharedPort'
  <2> SUFFICES ASSUME NEW x \in checked', NEW y \in checked', x.id # y.id,
                      x.req.receiver = y.req.receiver,
                      x.req.source.form = y.req.source.form
               PROVE  x.req.source.form = "v4" /\ x.req.source.port # y.req.source.port
    BY DEF D!NoSharedPort
  <2>1. CASE x \in rest /\ y \in rest
    BY <2>1 DEF Apart, D!NoSharedPort
  <2>2. CASE x = n /\ y \in rest
    BY <1>1, <1>4, <2>2
  <2>3. CASE x \in rest /\ y = n
    BY <1>1, <1>4, <2>3
  <2> QED BY <1>1, <2>1, <2>2, <2>3
<1> QED BY <1>3, <1>5 DEF Apart

(* Add, Update and Delete keep the invariant.                              *)
LEMMA StepApart == Apart /\ [D!Next]_D!vars => Apart'
<1> SUFFICES ASSUME Apart, [D!Next]_D!vars PROVE Apart'
  OBVIOUS
<1>1. ASSUME NEW req \in D!Requests, D!Add(req) PROVE Apart'
  <2>1. PICK i \in D!Ids : /\ \A x \in checked : x.id # i
                         /\ checked' = checked \cup {[id |-> i, req |-> req]}
    BY <1>1 DEF D!Add
  <2>2. i \in Nat \ {0} /\ 0 \in Nat /\ D!tunnel_detection(0, req)
        /\ \A x \in checked : x.id # 0
    BY <1>1 DEF D!Add, D!Ids, Apart, Accepted
  <2>3. checked \in SUBSET checked /\ \A x \in checked : x.id # 0 /\ x.id # i
    BY <2>1, <2>2
  <2> QED BY <2>1, <2>2, <2>3, StoreApart
<1>2. ASSUME NEW req \in D!Requests, NEW old \in checked, D!Update(old, req) PROVE Apart'
  <2>1. old.id \in Nat \ {0} /\ \A x \in checked \ {old} : x.id # old.id
    BY DEF Apart, Accepted
  <2> DEFINE rest == checked \ {old}
  <2>2. /\ rest \in SUBSET checked /\ old.id \in Nat
        /\ D!tunnel_detection(old.id, req)
        /\ checked' = rest \cup {[id |-> old.id, req |-> req]}
    BY <1>2, <2>1 DEF D!Update
  <2>3. \A x \in rest : x.id # old.id /\ x.id # old.id
    BY <2>1
  <2> HIDE DEF rest
  <2> QED BY <2>1, <2>2, <2>3, StoreApart
<1>3. ASSUME NEW old \in checked, D!Delete(old) PROVE Apart'
  BY <1>3 DEF D!Delete, Apart, Accepted, D!NoSharedPort
<1>4. CASE UNCHANGED D!vars
  BY <1>4 DEF D!vars, Apart, Accepted, D!NoSharedPort
<1> QED BY <1>1, <1>2, <1>3, <1>4 DEF D!Next, D!vars

(* Requests that come one at a time never bring two tunnels of a receiver  *)
(* to one IPv4 port, nor two IPv6 sources to one receiver                  *)
(* (port_conflict_detection, get_tunnel_address_port).                     *)
THEOREM PortsApart == D!Spec => []D!NoSharedPort
<1>1. D!Init => Apart
  BY DEF D!Init, Apart, Accepted, D!NoSharedPort
<1>2. Apart => D!NoSharedPort
  BY DEF Apart
<1> QED BY <1>1, <1>2, StepApart, PTL DEF D!Spec, D!vars
=============================================================================
