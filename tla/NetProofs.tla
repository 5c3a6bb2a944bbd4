----------------------------- MODULE NetProofs -----------------------------
(***************************************************************************)
(* The parts of the network side, each for every value of its constants.   *)
(* The session table of the UDP server: an address has one session at      *)
(* most, the idle timeout comes no more than a second early, a datagram is *)
(* only lost to a session that is ending.  The client's connections (L):   *)
(* each starts from nothing, and the first frame the client reads of one   *)
(* is never the answer to a ping.  The lives of an inlet (R): an entry of  *)
(* the outlet has its task, and frames stay in their session within one    *)
(* life.  Addresses (A): what is written is what is read back.             *)
(***************************************************************************)
EXTENDS UdpServer, SequenceTheorems, TLAPS

(* Two sequences joined: first the one, then the other.                    *)
LEMMA Joined ==
  ASSUME NEW s \in Seq(Int), NEW t \in Seq(Int)
  PROVE  /\ s \o t \in Seq(Int) /\ Len(s \o t) = Len(s) + Len(t)
         /\ \A i \in 1 .. Len(s) : (s \o t)[i] = s[i]
         /\ \A i \in 1 .. Len(t) : (s \o t)[Len(s) + i] = t[i]
OBVIOUS

(* A stretch of a sequence.                                                *)
LEMMA Stretch ==
  ASSUME NEW S, NEW s \in Seq(S), NEW n \in Nat, n + 1 <= Len(s)
  PROVE  /\ SubSeq(s, 2, n + 1) \in Seq(S) /\ Len(SubSeq(s, 2, n + 1)) = n
         /\ \A i \in 1 .. n : SubSeq(s, 2, n + 1)[i] = s[i + 1]
OBVIOUS

States == {"none", "starting", "open", "handing", "closing", "removing", "gone"}

(* Every id is given out for a datagram of its own.                        *)
Pending == IF rx.pc \in {"lookup", "insert"} THEN 1 ELSE 0

Shape ==
  /\ rx \in [pc : {"recv", "lookup", "insert", "send", "down"},
             addr : Addrs \cup {0}, calm : BOOLEAN]
  /\ rx.pc \in {"lookup", "insert", "send"} => rx.addr \in Addrs
  /\ hashmap \in [Addrs -> Nat]
  /\ addrOf \in Seq(Addrs)
  /\ received \in 0 .. MaxDatagrams
  /\ Len(addrOf) + Pending <= received
  /\ state \in [Ids -> States]

(* The table and the tasks agree: a session that has not finished has its  *)
(* address, an entry leads to a session of its address that has not, and   *)
(* the loop inserts only where there is no entry.                          *)
Table ==
  /\ OneOwner
  /\ \A a \in Addrs : hashmap[a] # 0 =>
       /\ hashmap[a] \in Opened
       /\ addrOf[hashmap[a]] = a
       /\ state[hashmap[a]] # "gone"
  /\ rx.pc = "insert" => hashmap[rx.addr] = 0

(* As long as no session of the datagram's address ended since it came,    *)
(* they all take datagrams or are gone, and once the loop is to send there *)
(* is one that takes them.                                                 *)
Calm ==
  rx.pc \in {"lookup", "insert", "send"} /\ rx.calm =>
    /\ \A s \in Opened : addrOf[s] = rx.addr => state[s] \in Receiving \cup {"gone"}
    /\ rx.pc = "send" => hashmap[rx.addr] # 0

(* last_active_time lags less than a second behind the traffic.            *)
Lag ==
  /\ age \in [Ids -> Nat]
  /\ idle \in [Ids -> Nat]
  /\ \A s \in Ids : age[s] < idle[s] + SECOND

Safe == Shape /\ Table /\ Calm /\ ~ dropped
Timely == Lag /\ ~ early

(* The ids given out are ids of the model.                                 *)
LEMMA OpenedIds ==
  ASSUME ConstantsOK, Shape
  PROVE  /\ Opened = 1 .. Len(addrOf)
         /\ Len(addrOf) \in Nat
         /\ \A s \in Opened : s \in Ids /\ s # 0 /\ addrOf[s] \in Addrs
         /\ 0 \notin Addrs
         /\ MaxDatagrams \in Nat
<1>1. /\ Len(addrOf) \in Nat
      /\ addrOf \in [1 .. Len(addrOf) -> Addrs]
      /\ DOMAIN addrOf = 1 .. Len(addrOf)
  BY LenProperties DEF Shape
<1>2. MaxDatagrams \in Nat /\ 0 \notin Addrs
  BY DEF ConstantsOK
<1>3. Len(addrOf) <= MaxDatagrams
  BY <1>1, <1>2 DEF Shape, Pending
<1> QED BY <1>1, <1>2, <1>3 DEF Opened, Ids

(* Nothing is open at first.                                               *)
LEMMA InitSafe == ASSUME ConstantsOK, Init PROVE Safe /\ Timely
<1>1. addrOf = <<>> /\ <<>> \in Seq(Addrs) /\ Len(<<>>) = 0
  BY EmptySeq DEF Init
<1>2. Shape
  BY <1>1 DEF Init, Shape, Pending, Listening, States, ConstantsOK
<1>3. Opened = {}
  BY <1>1, <1>2, OpenedIds
<1>4. Table /\ Calm /\ ~ dropped
  BY <1>3 DEF Init, Table, Calm, Listening, OneOwner
<1>5. Timely
  BY DEF Init, Timely, Lag, ConstantsOK
<1> QED BY <1>2, <1>4, <1>5 DEF Safe

(* A session changes its own state, and neither the table nor the loop     *)
(* except for marking its end: this keeps the table and the loop's view.   *)
LEMMA OwnStep ==
  ASSUME ConstantsOK, Safe, NEW s \in Opened, NEW st \in States \ {"gone"},
         state' = [state EXCEPT ![s] = st],
         state[s] # "gone",
         UNCHANGED <<hashmap, addrOf, received, dropped>>,
         \/ rx' = rx /\ (state[s] \in Receiving => st \in Receiving)
         \/ rx' = IF rx.addr = addrOf[s] THEN [rx EXCEPT !.calm = FALSE] ELSE rx
  PROVE  Safe'
<1>1. /\ Opened = 1 .. Len(addrOf)
      /\ \A t \in Opened : t \in Ids /\ t # 0 /\ addrOf[t] \in Addrs
  BY OpenedIds DEF Safe
<1>2. Opened' = Opened
  BY DEF Opened
<1>3. /\ rx' \in [pc : {"recv", "lookup", "insert", "send", "down"},
                  addr : Addrs \cup {0}, calm : BOOLEAN]
      /\ rx'.pc = rx.pc /\ rx'.addr = rx.addr
      /\ rx'.calm => rx.calm
  BY DEF Safe, Shape
<1>4. Pending' = Pending
  BY <1>3 DEF Pending
<1>5. state' \in [Ids -> States] /\ state'[s] = st
      /\ \A t \in Ids : t # s => state'[t] = state[t]
  BY <1>1 DEF Safe, Shape
<1>6. Shape'
  BY <1>3, <1>4, <1>5 DEF Safe, Shape
<1>7. Table'
  BY <1>1, <1>2, <1>3, <1>5 DEF Safe, Shape, Table, OneOwner
<1>8. Calm'
  <2> SUFFICES ASSUME rx'.pc \in {"lookup", "insert", "send"}, rx'.calm
               PROVE  /\ \A t \in Opened : addrOf[t] = rx.addr =>
                           state'[t] \in Receiving \cup {"gone"}
                      /\ rx.pc = "send" => hashmap[rx.addr] # 0
    BY <1>2, <1>3 DEF Calm
  <2>1. Calm /\ rx.calm /\ rx.pc \in {"lookup", "insert", "send"}
    BY <1>3 DEF Safe
  <2>2. addrOf[s] = rx.addr => st \in Receiving
    <3>1. CASE rx' = rx /\ (state[s] \in Receiving => st \in Receiving)
      BY <2>1, <3>1 DEF Calm
    <3>2. CASE rx' = IF rx.addr = addrOf[s] THEN [rx EXCEPT !.calm = FALSE] ELSE rx
      BY <3>2 DEF Safe, Shape
    <3> QED BY <3>1, <3>2
  <2> QED BY <1>1, <1>5, <2>1, <2>2 DEF Calm
<1> QED BY <1>6, <1>7, <1>8 DEF Safe

(* The removal by address takes the session's own entry.                   *)
LEMMA RemoveStep ==
  ASSUME ConstantsOK, Safe, NEW s \in Opened, Remove(s)
  PROVE  Safe'
<1>1. /\ \A t \in Opened : t \in Ids /\ t # 0 /\ addrOf[t] \in Addrs
      /\ Opened' = Opened
  BY OpenedIds DEF Safe, Remove, Opened
<1>2. /\ state[s] = "removing" /\ hashmap[addrOf[s]] = s
      /\ state' = [state EXCEPT ![s] = "gone"]
      /\ hashmap' = [hashmap EXCEPT ![addrOf[s]] = 0]
      /\ UNCHANGED <<rx, addrOf, received, dropped>>
  BY DEF Remove, MayRemove, Become, server, Safe, Table, OneOwner
<1>3. Shape'
  BY <1>1, <1>2 DEF Safe, Shape, Pending, States
<1>4. \A t \in Opened : t # s /\ state[t] # "gone" => addrOf[t] # addrOf[s]
  BY <1>2 DEF Safe, Table, OneOwner
<1>5. OneOwner'
  BY <1>1, <1>2, <1>4 DEF Safe, Shape, Table, OneOwner
<1>6. \A a \in Addrs : hashmap'[a] # 0 =>
        /\ hashmap'[a] \in Opened
        /\ addrOf[hashmap'[a]] = a
        /\ state'[hashmap'[a]] # "gone"
  BY <1>1, <1>2 DEF Safe, Shape, Table
<1>7. Table'
  BY <1>1, <1>2, <1>5, <1>6 DEF Safe, Shape, Table
<1>8. Calm'
  BY <1>1, <1>2 DEF Safe, Shape, Calm, Receiving
<1> QED BY <1>2, <1>3, <1>7, <1>8 DEF Safe

(* The receive loop: an address without an entry has no session that has   *)
(* not finished, so the one it opens is the only one.                      *)
LEMMA InsertStep ==
  ASSUME ConstantsOK, Safe, Insert
  PROVE  Safe'
<1> DEFINE n == Len(addrOf) + 1
<1>1. /\ Opened = 1 .. Len(addrOf) /\ Len(addrOf) \in Nat /\ MaxDatagrams \in Nat
      /\ \A t \in Opened : t \in Ids /\ t # 0 /\ addrOf[t] \in Addrs
  BY OpenedIds DEF Safe
<1>2. /\ rx.pc = "insert" /\ rx.addr \in Addrs /\ hashmap[rx.addr] = 0
      /\ addrOf' = Append(addrOf, rx.addr)
      /\ hashmap' = [hashmap EXCEPT ![rx.addr] = n]
      /\ state' = [state EXCEPT ![n] = "starting"]
      /\ rx' = [rx EXCEPT !.pc = "send"]
      /\ UNCHANGED <<received, dropped>>
  BY DEF Insert, Loop, Safe, Shape, Table
<1>3. /\ addrOf' \in Seq(Addrs) /\ Len(addrOf') = n
      /\ \A t \in Opened : addrOf'[t] = addrOf[t]
      /\ addrOf'[n] = rx.addr
      /\ Opened' = 1 .. n
  BY <1>1, <1>2, AppendProperties, LenProperties DEF Safe, Shape, Opened
<1>4. n \in Ids /\ n <= received
  BY <1>1, <1>2 DEF Safe, Shape, Pending, Ids
<1>5. Shape'
  <2>1. /\ rx' \in [pc : {"recv", "lookup", "insert", "send", "down"},
                    addr : Addrs \cup {0}, calm : BOOLEAN]
        /\ rx'.pc = "send" /\ rx'.addr = rx.addr
    BY <1>2 DEF Safe, Shape
  <2>2. hashmap' \in [Addrs -> Nat] /\ state' \in [Ids -> States]
    BY <1>1, <1>2, <1>4 DEF Safe, Shape, States
  <2>3. Pending' = 0
    BY <2>1 DEF Pending
  <2> QED BY <1>1, <1>2, <1>3, <1>4, <2>1, <2>2, <2>3 DEF Safe, Shape
<1>6. \A t \in Opened : addrOf[t] = rx.addr => state[t] = "gone"
  BY <1>1, <1>2 DEF Safe, Table, OneOwner
<1>7. n \notin Opened /\ \A t \in Opened' : t = n \/ t \in Opened
  BY <1>1, <1>3
<1>8. OneOwner'
  <2> SUFFICES ASSUME NEW t \in Opened', state'[t] # "gone"
               PROVE  hashmap'[addrOf'[t]] = t
    BY DEF OneOwner
  <2>1. CASE t = n
    BY <1>2, <1>3, <2>1 DEF Safe, Shape
  <2>2. CASE t # n
    BY <1>1, <1>2, <1>3, <1>6, <1>7, <2>2 DEF Safe, Shape, Table, OneOwner
  <2> QED BY <2>1, <2>2
<1>9. Table'
  <2>1. ASSUME NEW a \in Addrs, hashmap'[a] # 0
        PROVE  /\ hashmap'[a] \in Opened'
               /\ addrOf'[hashmap'[a]] = a
               /\ state'[hashmap'[a]] # "gone"
    <3>1. CASE a = rx.addr
      BY <1>1, <1>2, <1>3, <1>4, <3>1 DEF Safe, Shape
    <3>2. CASE a # rx.addr
      BY <1>1, <1>2, <1>3, <1>7, <2>1, <3>2 DEF Safe, Shape, Table
    <3> QED BY <3>1, <3>2
  <2> QED BY <1>2, <1>8, <2>1 DEF Table, Safe, Shape
<1>10. Calm'
  <2>1. hashmap'[rx.addr] = n /\ n # 0 /\ rx'.addr = rx.addr
    BY <1>1, <1>2 DEF Safe, Shape
  <2>2. ASSUME NEW t \in Opened', addrOf'[t] = rx.addr
        PROVE  state'[t] \in Receiving \cup {"gone"}
    <3>1. CASE t = n
      BY <1>2, <1>4, <3>1 DEF Safe, Shape, Receiving
    <3>2. CASE t # n
      BY <1>1, <1>2, <1>3, <1>6, <1>7, <2>2, <3>2 DEF Safe, Shape
    <3> QED BY <3>1, <3>2
  <2> QED BY <2>1, <2>2 DEF Calm
<1> QED BY <1>2, <1>5, <1>9, <1>10 DEF Safe

(* Every step keeps the table.                                             *)
LEMMA StepSafe == ASSUME ConstantsOK, Safe, [Next]_vars PROVE Safe'
<1>1. ASSUME NEW a \in Addrs, RecvFrom(a) PROVE Safe'
  <2>1. /\ rx.pc = "recv"
        /\ received < MaxDatagrams /\ received' = received + 1
        /\ rx' = [pc |-> "lookup", addr |-> a,
                  calm |-> \A s \in DOMAIN addrOf :
                             addrOf[s] = a => state[s] \in Receiving \cup {"gone"}]
        /\ UNCHANGED <<hashmap, addrOf, state, dropped>>
    BY <1>1 DEF RecvFrom
  <2>2. Shape'
    BY <2>1, OpenedIds DEF Safe, Shape, Pending
  <2>3. Table' /\ Calm'
    BY <2>1 DEF Safe, Table, Calm, OneOwner, Opened
  <2> QED BY <2>1, <2>2, <2>3 DEF Safe
<1>2. ASSUME Lookup PROVE Safe'
  <2>1. /\ rx.pc = "lookup"
        /\ rx' = [rx EXCEPT !.pc = AfterLookup]
        /\ UNCHANGED <<hashmap, addrOf, state, received, dropped>>
    BY <1>2 DEF Lookup, Loop
  <2>2. /\ rx'.pc = AfterLookup /\ rx'.addr = rx.addr /\ rx'.calm = rx.calm
        /\ AfterLookup \in {"send", "insert"}
        /\ rx' \in [pc : {"recv", "lookup", "insert", "send", "down"},
                    addr : Addrs \cup {0}, calm : BOOLEAN]
    BY <2>1 DEF Safe, Shape, AfterLookup
  <2>3. Shape'
    BY <2>1, <2>2, OpenedIds DEF Safe, Shape, Pending
  <2>4. Table'
    BY <2>1, <2>2 DEF Safe, Table, OneOwner, Opened, AfterLookup
  <2>5. Calm'
    BY <2>1, <2>2 DEF Safe, Calm, Opened, AfterLookup
  <2> QED BY <2>1, <2>3, <2>4, <2>5 DEF Safe
<1>3. ASSUME SendToSession PROVE Safe'
  <2>1. /\ rx.pc = "send" /\ rx' = Listening
        /\ UNCHANGED <<hashmap, addrOf, state, received>>
    BY <1>3 DEF SendToSession
  <2>2. Shape'
    BY <2>1, OpenedIds DEF Safe, Shape, Pending, Listening
  <2>3. Table' /\ Calm'
    BY <2>1 DEF Safe, Table, Calm, OneOwner, Opened, Listening
  <2>4. rx.calm => hashmap[rx.addr] # 0 /\ state[hashmap[rx.addr]] \in Receiving
    BY <2>1 DEF Safe, Shape, Table, Calm
  <2>5. ~ dropped'
    BY <1>3, <2>4 DEF SendToSession, Safe
  <2> QED BY <2>2, <2>3, <2>5 DEF Safe
<1>4. ASSUME Shutdown \/ Tick PROVE Safe'
  <2>1. /\ \/ rx' = rx
           \/ rx' = [pc |-> "down", addr |-> 0, calm |-> TRUE]
        /\ UNCHANGED <<hashmap, addrOf, state, received, dropped>>
    BY <1>4 DEF Shutdown, Tick, server, Listening
  <2>2. Shape'
    <3>1. CASE rx' = rx
      BY <2>1, <3>1 DEF Safe, Shape, Pending
    <3>2. CASE rx' = [pc |-> "down", addr |-> 0, calm |-> TRUE]
      <4>1. Pending' = 0 /\ Pending \in {0, 1} /\ Len(addrOf) \in Nat
        BY <3>2, OpenedIds DEF Pending, Safe
      <4> QED BY <2>1, <3>2, <4>1 DEF Safe, Shape
    <3> QED BY <2>1, <3>1, <3>2
  <2>3. Table' /\ Calm'
    BY <2>1 DEF Safe, Table, Calm, OneOwner, Opened
  <2> QED BY <2>1, <2>2, <2>3 DEF Safe
<1>5. ASSUME NEW s \in Opened, Session(s) PROVE Safe'
  <2>1. ASSUME OnSessionStart(s) \/ TakeDatagram(s) \/ OnRecvFrame(s) PROVE Safe'
    <3>1. PICK st \in {"open", "handing"} : state' = [state EXCEPT ![s] = st]
      BY <2>1 DEF OnSessionStart, TakeDatagram, OnRecvFrame, Become
    <3>2. /\ state[s] # "gone"
          /\ UNCHANGED <<rx, hashmap, addrOf, received, dropped>>
      BY <2>1 DEF OnSessionStart, TakeDatagram, OnRecvFrame, server
    <3> QED BY <3>1, <3>2, OwnStep DEF States, Receiving
  <2>2. ASSUME StartFails(s) \/ Quit(s) \/ (Wake(s) /\ Expired(s)) PROVE Safe'
    <3>1. PICK st \in {"removing", "closing"} : End(s, st)
      BY <2>2 DEF StartFails, Quit, Wake
    <3>2. state[s] # "gone" /\ UNCHANGED <<hashmap, addrOf, received, dropped>>
      BY <2>2 DEF StartFails, Quit, Wake
    <3> QED BY <3>1, <3>2, OwnStep DEF States, End, Become
  <2>3. ASSUME OnSessionClose(s) PROVE Safe'
    <3>1. /\ state[s] = "closing" /\ state' = [state EXCEPT ![s] = "removing"]
          /\ UNCHANGED <<rx, hashmap, addrOf, received, dropped>>
      BY <2>3 DEF OnSessionClose, Become, server
    <3>2. state[s] \notin Receiving /\ "removing" \in States \ {"gone"}
      BY <3>1 DEF Receiving, States
    <3> QED BY <3>1, <3>2, OwnStep
  <2>4. ASSUME Write(s) \/ (Wake(s) /\ ~ Expired(s)) PROVE Safe'
    <3>1. UNCHANGED <<rx, hashmap, addrOf, state, received, dropped>>
      BY <2>4 DEF Write, Wake, server
    <3> QED BY <3>1 DEF Safe, Shape, Pending, Table, Calm, OneOwner, Opened
  <2> QED BY <1>5, <2>1, <2>2, <2>3, <2>4, RemoveStep DEF Session
<1>6. CASE UNCHANGED vars
  BY <1>6 DEF vars, server, Safe, Shape, Pending, Table, Calm, OneOwner, Opened
<1> QED BY <1>1, <1>2, <1>3, <1>4, <1>5, <1>6, InsertStep DEF Next

(* A clock that is refreshed when it is a second old is less than a second *)
(* behind; ageing keeps the distance.                                      *)
LEMMA StepTimely ==
  ASSUME ConstantsOK, Safe, Timely, [Next]_vars
  PROVE  Timely'
<1>1. SECOND \in Nat \ {0} /\ TIMEOUT \in Nat
  BY DEF ConstantsOK
<1>2. \A s \in Opened : s \in Ids
  BY OpenedIds DEF Safe
<1>3. ASSUME NEW s \in Ids, Touch(s) PROVE Lag'
  BY <1>1, <1>3 DEF Touch, Refresh, Timely, Lag
<1>4. ASSUME NEW s \in Ids,
             age' = [age EXCEPT ![s] = 0], idle' = [idle EXCEPT ![s] = 0]
      PROVE  Lag'
  BY <1>1, <1>4 DEF Timely, Lag
<1>5. ASSUME UNCHANGED <<age, idle>> PROVE Lag'
  BY <1>5 DEF Timely, Lag
<1>6. ASSUME Tick PROVE Timely'
  <2>1. \A s \in Ids : /\ age'[s] \in Nat /\ idle'[s] \in Nat
                       /\ age'[s] < idle'[s] + SECOND
    <3> SUFFICES ASSUME NEW s \in Ids
                 PROVE  /\ age'[s] \in Nat /\ idle'[s] \in Nat
                        /\ age'[s] < idle'[s] + SECOND
      OBVIOUS
    <3>1. age[s] \in Nat /\ idle[s] \in Nat /\ age[s] < idle[s] + SECOND
      BY DEF Timely, Lag
    <3>2. CASE state[s] \in {"open", "handing"}
      <4>1. age'[s] = Later(age[s]) /\ idle'[s] = Later(idle[s])
        BY <1>6, <3>2 DEF Tick
      <4> QED BY <1>1, <3>1, <4>1 DEF Later, Old
    <3>3. CASE state[s] \notin {"open", "handing"}
      <4>1. age'[s] = age[s] /\ idle'[s] = idle[s]
        BY <1>6, <3>3 DEF Tick
      <4> QED BY <3>1, <4>1
    <3> QED BY <3>2, <3>3
  <2>2. age' \in [Ids -> Nat] /\ idle' \in [Ids -> Nat]
    BY <1>6, <2>1 DEF Tick
  <2> QED BY <1>6, <2>1, <2>2 DEF Tick, Timely, Lag
<1>7. ASSUME NEW s \in Opened, Wake(s) PROVE Timely'
  <2>1. CASE Expired(s)
    <3>1. idle[s] > TIMEOUT - SECOND
      <4>1. s \in Ids /\ age[s] > TIMEOUT
        BY <1>2, <2>1 DEF Expired
      <4>2. age[s] \in Nat /\ idle[s] \in Nat /\ age[s] < idle[s] + SECOND
        BY <4>1 DEF Timely, Lag
      <4> QED BY <1>1, <4>1, <4>2
    <3>2. ~ early'
      <4>1. idle[s] \in Nat /\ ~ (idle[s] <= TIMEOUT - SECOND)
        BY <1>1, <1>2, <3>1 DEF Timely, Lag
      <4>2. early' = (early \/ idle[s] <= TIMEOUT - SECOND) /\ ~ early
        BY <1>7, <2>1 DEF Wake, Timely
      <4> QED BY <4>1, <4>2
    <3> QED BY <1>2, <1>4, <1>7, <2>1, <3>2 DEF Wake, End, Timely
  <2>2. CASE ~ Expired(s)
    BY <1>5, <1>7, <2>2 DEF Wake, Timely
  <2> QED BY <2>1, <2>2
<1>8. ASSUME NEW s \in Opened, Session(s), ~ Wake(s) PROVE Timely'
  <2>1. early' = early
    BY <1>8 DEF Session, OnSessionStart, StartFails, TakeDatagram, OnRecvFrame, Write,
       Quit, OnSessionClose, Remove
  <2>2. CASE OnSessionStart(s) \/ StartFails(s) \/ Quit(s)
    BY <1>2, <1>4, <2>1, <2>2 DEF OnSessionStart, StartFails, Quit, End, Timely
  <2>3. CASE TakeDatagram(s) \/ Write(s)
    BY <1>2, <1>3, <2>1, <2>3 DEF TakeDatagram, Write, Timely
  <2>4. CASE OnRecvFrame(s) \/ OnSessionClose(s) \/ Remove(s)
    BY <1>5, <2>1, <2>4 DEF OnRecvFrame, OnSessionClose, Remove, clocks, Timely
  <2> QED BY <1>8, <2>2, <2>3, <2>4 DEF Session
<1>9. ASSUME \/ \E a \in Addrs : RecvFrom(a)
             \/ Lookup \/ Insert \/ SendToSession \/ Shutdown \/ UNCHANGED vars
      PROVE  Timely'
  BY <1>5, <1>9 DEF RecvFrom, Lookup, Insert, SendToSession, Shutdown, vars, clocks,
     Timely
<1> QED BY <1>6, <1>7, <1>8, <1>9 DEF Next

(* run_server and its sessions, with any timeout of whole ticks: the map   *)
(* has an address exactly while its session has not finished, although it  *)
(* is read, filled and emptied under separate locks.                       *)
THEOREM UdpOneOwner == ASSUME ConstantsOK PROVE Spec => []OneOwner
<1>1. Init => Safe
  BY InitSafe
<1>2. Safe /\ [Next]_vars => Safe'
  BY StepSafe
<1>3. Safe => OneOwner
  BY DEF Safe, Table
<1> QED BY <1>1, <1>2, <1>3, PTL DEF Spec

(* The receive loop loses a datagram only when the session of its address  *)
(* ends while it is handled.                                               *)
THEOREM UdpLostOnlyAtEnd == ASSUME ConstantsOK PROVE Spec => []LostOnlyAtEnd
<1>1. Init => Safe
  BY InitSafe
<1>2. Safe /\ [Next]_vars => Safe'
  BY StepSafe
<1>3. Safe => LostOnlyAtEnd
  BY DEF Safe, LostOnlyAtEnd
<1> QED BY <1>1, <1>2, <1>3, PTL DEF Spec

(* poll_timeout closes no session that was active within the timeout less  *)
(* a second.                                                               *)
THEOREM UdpNotEarly == ASSUME ConstantsOK PROVE Spec => []NotEarly
<1>1. Init => Safe /\ Timely
  BY InitSafe
<1>2. (Safe /\ Timely) /\ [Next]_vars => (Safe /\ Timely)'
  BY StepSafe, StepTimely
<1>3. Safe /\ Timely => NotEarly
  BY DEF Timely, NotEarly
<1> QED BY <1>1, <1>2, <1>3, PTL DEF Spec

-----------------------------------------------------------------------------
(* The client's connections.                                               *)
CONSTANTS EnableTls, AsService, MaxFaults, MaxPushes, MaxPings
VARIABLES pc, result, player, proxies, quiet, link, to_server, to_client, peer,
          faults, pushes, service
L == INSTANCE ClientLife

Types ==
  /\ L!TypeOK
  /\ player \in BOOLEAN /\ proxies \in BOOLEAN
  /\ peer \in {"none", "new", "bound", "in"}

(* Outside a run there are no proxies and no frames; a pause and the       *)
(* moment before connect have no connection either.                        *)
Clean ==
  /\ pc \in {"connect", "tls", "login", "pause"} =>
       ~ proxies /\ to_server = <<>> /\ to_client = <<>>
  /\ pc \in {"connect", "pause"} => link = "none"
  /\ pc \in {"tls", "login"} /\ link = "up" => peer = "new"

(* Until the login is answered the server has either sent something, the   *)
(* first of it no pong, or it has sent nothing: then it is handling the    *)
(* login, or the login is the next frame it will take.                     *)
LoginFirst ==
  pc = "run" /\ ~ player =>
    \/ to_client # <<>> /\ Head(to_client) # "pong"
    \/ /\ to_client = <<>>
       /\ \/ link # "up"
          \/ peer = "bound"
          \/ peer = "new" /\ to_server # <<>> /\ Head(to_server) = "login"

FromNothing == Types /\ Clean /\ LoginFirst

(* What the queue operations do to the first element.                      *)
LEMMA HeadAppend ==
  ASSUME NEW S, NEW q \in Seq(S), NEW x \in S
  PROVE  /\ Append(q, x) \in Seq(S)
         /\ Append(q, x) # <<>>
         /\ q = <<>> => Head(Append(q, x)) = x
         /\ q # <<>> => Head(Append(q, x)) = Head(q)
<1>1. /\ Append(q, x) \in Seq(S)
      /\ Len(Append(q, x)) = Len(q) + 1
      /\ Append(q, x)[1] = IF Len(q) = 0 THEN x ELSE q[1]
  BY AppendProperties, LenProperties
<1>2. q = <<>> <=> Len(q) = 0
  <2>1. Len(<<>>) = 0 /\ (q # <<>> => Len(q) # 0)
    BY EmptySeq
  <2> QED BY <2>1
<1>3. Append(q, x) # <<>>
  BY AppendProperties
<1> QED BY <1>1, <1>2, <1>3, HeadTailProperties

LEMMA TailType ==
  ASSUME NEW S, NEW q \in Seq(S), q # <<>>
  PROVE  Tail(q) \in Seq(S) /\ Head(q) \in S
OBVIOUS

LEMMA NoFramesType ==
  <<>> \in Seq({"login", "ping"}) /\ <<>> \in Seq({"ack", "error", "pong", "push"})
BY EmptySeq

(* The initial state is clean.                                             *)
LEMMA InitClean == L!Init => FromNothing
BY NoFramesType DEF L!Init, FromNothing, Types, L!TypeOK, Clean, LoginFirst

(* No step of the client, the server, the network or the service control   *)
(* leaves the inductive invariant.                                         *)
LEMMA StepClean == FromNothing /\ [L!Next]_L!vars => FromNothing'
<1> SUFFICES ASSUME FromNothing, [L!Next]_L!vars PROVE FromNothing'
  OBVIOUS
<1> USE DEF FromNothing, Types, L!TypeOK, Clean, LoginFirst
<1> DEFINE Up == {"login", "ping"}
           Down == {"ack", "error", "pong", "push"}
<1>1. ASSUME L!Connect \/ L!Handshake \/ L!HandshakeFails PROVE FromNothing'
  BY <1>1 DEF L!Connect, L!Handshake, L!HandshakeFails, L!frames, L!bounds
<1>2. ASSUME L!SendLogin PROVE FromNothing'
  <2>1. /\ Append(to_server, "login") \in Seq(Up)
        /\ Append(to_server, "login") # <<>>
        /\ Head(Append(to_server, "login")) = "login"
    <3>1. to_server = <<>>
      BY <1>2 DEF L!SendLogin
    <3> QED BY <3>1, HeadAppend
  <2> QED BY <1>2, <2>1 DEF L!SendLogin, L!bounds
<1>3. ASSUME L!SendLoginFails PROVE FromNothing'
  BY <1>3 DEF L!SendLoginFails, L!frames, L!bounds
<1>4. ASSUME L!RecvFrame PROVE FromNothing'
  <2>1. Tail(to_client) \in Seq(Down)
    BY <1>4, TailType DEF L!RecvFrame
  <2>2. CASE L!Accepts(Head(to_client))
    BY <1>4, <2>1, <2>2 DEF L!RecvFrame, L!bounds
  <2>3. CASE ~ L!Accepts(Head(to_client))
    BY <1>4, <2>1, <2>3 DEF L!RecvFrame, L!Returns, L!bounds
  <2> QED BY <2>2, <2>3
<1>5. ASSUME L!ReadEof \/ L!Quiet PROVE FromNothing'
  BY <1>5 DEF L!ReadEof, L!Quiet, L!Returns, L!frames, L!bounds
<1>6. ASSUME L!Ping PROVE FromNothing'
  <2>1. /\ Append(to_server, "ping") \in Seq(Up)
        /\ Append(to_server, "ping") # <<>>
        /\ to_server # <<>> => Head(Append(to_server, "ping")) = Head(to_server)
    BY HeadAppend
  <2>2. CASE link = "up"
    <3>1. /\ to_server' = Append(to_server, "ping")
          /\ pc = "run"
          /\ UNCHANGED <<pc, result, player, proxies, link, to_client, peer, service>>
      BY <1>6, <2>2 DEF L!Ping
    <3>2. Types' /\ Clean'
      BY <2>1, <3>1
    <3>3. LoginFirst'
      BY <2>1, <3>1
    <3> QED BY <3>2, <3>3
  <2>3. CASE link # "up"
    BY <1>6, <2>3 DEF L!Ping, L!Returns, L!bounds
  <2> QED BY <2>2, <2>3
<1>7. ASSUME L!Cleanup \/ L!Pause PROVE FromNothing'
  <2>1. Types'
    BY <1>7, NoFramesType
    DEF L!Cleanup, L!Pause, L!Stopped, L!Again, L!NoFrames, L!frames, L!bounds
  <2>2. Clean'
    BY <1>7 DEF L!Cleanup, L!Pause, L!Stopped, L!Again, L!NoFrames, L!frames, L!bounds
  <2>3. LoginFirst'
    BY <1>7 DEF L!Cleanup, L!Pause, L!Stopped, L!Again, L!NoFrames, L!frames, L!bounds
  <2> QED BY <2>1, <2>2, <2>3
<1>8. ASSUME L!ServerTakes PROVE FromNothing'
  <2>1. Tail(to_server) \in Seq(Up)
    BY <1>8, TailType DEF L!ServerTakes
  <2>2. \A f \in Down : /\ Append(to_client, f) \in Seq(Down)
                        /\ Append(to_client, f) # <<>>
                        /\ to_client = <<>> => Head(Append(to_client, f)) = f
                        /\ to_client # <<>> =>
                             Head(Append(to_client, f)) = Head(to_client)
    BY HeadAppend
  <2>3. UNCHANGED <<L!client, link, service>>
    BY <1>8 DEF L!ServerTakes
  <2>4. CASE Head(to_server) = "login" /\ peer' = "bound" /\ UNCHANGED to_client
    BY <1>8, <2>1, <2>3, <2>4 DEF L!ServerTakes, L!MayTake, L!client
  <2>5. CASE Head(to_server) = "login" /\ to_client' = Append(to_client, "error")
             /\ UNCHANGED peer
    BY <1>8, <2>1, <2>2, <2>3, <2>5 DEF L!ServerTakes, L!MayTake, L!client
  <2>6. CASE Head(to_server) = "ping" /\ to_client' = Append(to_client, "pong")
             /\ UNCHANGED peer
    BY <1>8, <2>1, <2>2, <2>3, <2>6 DEF L!ServerTakes, L!MayTake, L!client
  <2> QED BY <1>8, <2>4, <2>5, <2>6 DEF L!ServerTakes
<1>9. ASSUME L!ServerAnswers \/ L!ServerPushes PROVE FromNothing'
  <2>1. \A f \in Down : /\ Append(to_client, f) \in Seq(Down)
                        /\ Append(to_client, f) # <<>>
                        /\ to_client = <<>> => Head(Append(to_client, f)) = f
                        /\ to_client # <<>> =>
                             Head(Append(to_client, f)) = Head(to_client)
    BY HeadAppend
  <2>2. PICK f \in {"ack", "push"} : to_client' = Append(to_client, f)
    BY <1>9 DEF L!ServerAnswers, L!ServerPushes
  <2>3. /\ link = "up" /\ peer \in {"bound", "in"} /\ peer' \in {"bound", "in"}
        /\ UNCHANGED <<L!client, link, to_server, service>>
    BY <1>9 DEF L!ServerAnswers, L!ServerPushes
  <2> QED BY <2>1, <2>2, <2>3 DEF L!client
<1>10. ASSUME L!ServerCloses \/ L!LinkDies \/ L!ConnectFails PROVE FromNothing'
  <2>1. Types'
    BY <1>10, NoFramesType
    DEF L!ServerCloses, L!LinkDies, L!ConnectFails, L!NoFrames, L!client, L!frames
  <2>2. Clean'
    BY <1>10 DEF L!ServerCloses, L!LinkDies, L!ConnectFails, L!NoFrames, L!client, L!frames
  <2>3. LoginFirst'
    BY <1>10 DEF L!ServerCloses, L!LinkDies, L!ConnectFails, L!NoFrames, L!client, L!frames
  <2> QED BY <2>1, <2>2, <2>3
<1>11. ASSUME L!ServiceStop \/ L!StopPending \/ L!ServiceStopped PROVE FromNothing'
  <2>1. Types'
    BY <1>11, NoFramesType
    DEF L!ServiceStop, L!StopPending, L!ServiceStopped, L!MayStop, L!NoFrames,
       L!client, L!frames, L!bounds
  <2>2. Clean'
    BY <1>11 DEF L!ServiceStop, L!StopPending, L!ServiceStopped, L!MayStop, L!NoFrames,
       L!client, L!frames, L!bounds
  <2>3. LoginFirst'
    BY <1>11 DEF L!ServiceStop, L!StopPending, L!ServiceStopped, L!MayStop, L!NoFrames,
       L!client, L!frames, L!bounds
  <2> QED BY <2>1, <2>2, <2>3
<1>12. CASE UNCHANGED L!vars
  BY <1>12 DEF L!vars, L!client, L!frames
<1> QED
  BY <1>1, <1>2, <1>3, <1>4, <1>5, <1>6, <1>7, <1>8, <1>9, <1>10, <1>11, <1>12, ZenonT(30)
  DEF L!Next, L!RunClient, L!RunServer, L!Environment, L!RunService

(* Every connection of run_with_args starts with no inlet holding a port,  *)
(* no unread frame and no player: FreshStart.                              *)
THEOREM StartsFresh == L!Spec => []L!FreshStart
<1>1. FromNothing => L!FreshStart
  BY DEF FromNothing, Clean, L!FreshStart, L!frames
<1> QED BY <1>1, InitClean, StepClean, PTL DEF L!Spec, L!vars

(* The pings of a slow login cannot make handle_message refuse the login:  *)
(* whatever the client reads first is not a pong.                          *)
THEOREM PongNeverFirst == L!Spec => []L!PongNotMistaken
<1>1. FromNothing => L!PongNotMistaken
  BY DEF FromNothing, LoginFirst, L!PongNotMistaken
<1> QED BY <1>1, InitClean, StepClean, PTL DEF L!Spec, L!vars

-----------------------------------------------------------------------------
(* The lives of an inlet, against an outlet that outlives them.            *)
CONSTANTS MaxLives, MaxSessions, MaxFrames, OutputCap
VARIABLES life, phase, seed, id, sessions, output, i2o, o2i, entry, conns, sent, mixed
R == INSTANCE InletRestart

(* Messages about one of the first n sessions.                             *)
Message(n) ==
  [type : {"connect", "data", "disconnect", "refused"}, key : 1 .. n]

(* Ids given out lie within the keys, and everything that names a session  *)
(* names one that was accepted.                                            *)
Known ==
  /\ id \in Seq(R!Keys) /\ Len(id) <= MaxSessions
  /\ seed \in 0 .. Len(id)
  /\ output \in Seq(Message(Len(id)))
  /\ i2o \in Seq(Message(Len(id)))
  /\ o2i \in Seq(Message(Len(id)))
  /\ entry \in [R!Keys -> 0 .. Len(id)]
  /\ conns \in [R!Keys -> {"none", "open", "told", "closing"}]
  /\ sessions \in [R!Keys -> {"none", "open", "told", "closing", "ended"}]
  /\ \A k \in R!Keys : conns[k] # "none" \/ sessions[k] # "none" => k <= Len(id)

(* A message about a known session stays one as sessions are accepted.     *)
LEMMA MessageGrows ==
  ASSUME NEW n \in Nat, NEW s \in Seq(Message(n))
  PROVE  s \in Seq(Message(n + 1))
<1>1. Message(n) \subseteq Message(n + 1)
  BY DEF Message
<1>2. Len(s) \in Nat /\ s \in [1 .. Len(s) -> Message(n)]
  BY LenProperties
<1>3. s \in [1 .. Len(s) -> Message(n + 1)]
  BY <1>1, <1>2
<1> QED
  BY <1>2, <1>3, SeqDef

(* The head of i2o names an accepted session, with an id among the keys.   *)
LEMMA FromKnown ==
  ASSUME R!ConstantsOK, Known, i2o # <<>>
  PROVE  /\ Head(i2o) \in Message(Len(id)) /\ Tail(i2o) \in Seq(Message(Len(id)))
         /\ R!From \in 1 .. Len(id) /\ R!From \in R!Keys /\ id[R!From] \in R!Keys
<1>1. Head(i2o) \in Message(Len(id)) /\ Tail(i2o) \in Seq(Message(Len(id)))
  BY HeadTailProperties DEF Known
<1>2. R!From \in 1 .. Len(id)
  BY <1>1 DEF R!From, Message
<1>3. MaxSessions \in Nat /\ Len(id) \in Nat
  BY LenProperties DEF R!ConstantsOK, Known
<1>4. R!From \in R!Keys
  BY <1>2, <1>3 DEF Known, R!Keys
<1>5. id[R!From] \in R!Keys
  BY <1>2 DEF Known
<1> QED
  BY <1>1, <1>2, <1>4, <1>5

(* Accept gives out an id and announces the session.                         *)
LEMMA AcceptKnown ==
  ASSUME R!ConstantsOK, Known, R!Accept
  PROVE  Known' /\ Len(id') = Len(id) + 1 /\ id' = Append(id, seed + 1)
<1> DEFINE k == Len(id) + 1
<1>1. /\ Len(id) \in Nat /\ k \in R!Keys /\ seed' = seed + 1 /\ id' = Append(id, seed')
      /\ MaxSessions \in Nat
  BY DEF R!Accept, R!NextId, Known, R!ConstantsOK
<1>2. seed + 1 \in R!Keys /\ k <= MaxSessions /\ seed + 1 \in 0 .. k
  BY <1>1 DEF Known, R!Keys
<1>3. id' \in Seq(R!Keys) /\ Len(id') = k
  BY <1>1, <1>2, AppendProperties DEF Known
<1>4. output' = Append(output, R!Msg("connect", k)) /\ R!Msg("connect", k) \in Message(k)
  BY <1>1 DEF R!Accept, R!Out, R!Msg, Message
<1>5. output \in Seq(Message(k)) /\ i2o \in Seq(Message(k)) /\ o2i \in Seq(Message(k))
  BY <1>1, MessageGrows DEF Known
<1>6. output' \in Seq(Message(k)) /\ i2o' \in Seq(Message(k)) /\ o2i' \in Seq(Message(k))
  BY <1>4, <1>5, AppendProperties DEF R!Accept
<1>7. UNCHANGED <<entry, conns>>
  BY DEF R!Accept, R!outletVars
<1>8. /\ entry' \in [R!Keys -> 0 .. k]
      /\ conns' \in [R!Keys -> {"none", "open", "told", "closing"}]
      /\ sessions' \in [R!Keys -> {"none", "open", "told", "closing", "ended"}]
      /\ \A x \in R!Keys : conns'[x] # "none" \/ sessions'[x] # "none" => x <= k
  <2>1. entry \in [R!Keys -> 0 .. Len(id)] /\ 0 .. Len(id) \subseteq 0 .. k
    BY <1>1 DEF Known
  <2>2. entry \in [R!Keys -> 0 .. k]
    BY <2>1
  <2>3. \A x \in R!Keys : x \in Nat
    BY DEF R!Keys
  <2> QED
    BY <1>1, <1>7, <2>2, <2>3 DEF Known, R!Accept
<1> QED
  BY <1>1, <1>2, <1>3, <1>6, <1>7, <1>8 DEF Known

(* Sending along the channels keeps them proper.                           *)
LEMMA OutKnown ==
  ASSUME Known, NEW m \in Message(Len(id)), R!Out(m)
  PROVE  output' \in Seq(Message(Len(id)))
BY AppendProperties DEF Known, R!Out

LEMMA ToInletKnown ==
  ASSUME Known, NEW m \in Message(Len(id)), R!ToInlet(m)
  PROVE  o2i' \in Seq(Message(Len(id)))
BY AppendProperties DEF Known, R!ToInlet

(* The sessions and connections of a step that accepts none.               *)
Tasks ==
  /\ sessions \in [R!Keys -> {"none", "open", "told", "closing", "ended"}]
  /\ conns \in [R!Keys -> {"none", "open", "told", "closing"}]
  /\ \A k \in R!Keys : conns[k] # "none" \/ sessions[k] # "none" => k <= Len(id)

(* Every step keeps what names a session within those accepted.            *)
LEMMA KnownStep ==
  ASSUME R!ConstantsOK, Known, [R!Next]_R!vars
  PROVE  Known'
<1> USE DEF R!inletVars, R!outletVars
<1>0. /\ Len(id) \in Nat /\ MaxSessions \in Nat /\ Tasks
      /\ \A k \in R!Keys : k \in Nat \ {0}
  BY LenProperties DEF R!ConstantsOK, Known, Tasks, R!Keys
<1>1. CASE R!Accept
  BY <1>1, AcceptKnown
<1>2. ASSUME NEW k \in R!Keys, R!ClientData(k) \/ R!SessionEnds(k) \/ R!OnSessionClose(k)
      PROVE  Known'
  <2>1. k \in 1 .. Len(id)
    BY <1>0, <1>2 DEF R!ClientData, R!SessionEnds, R!OnSessionClose, R!Live, Tasks
  <2>2. R!Msg("data", k) \in Message(Len(id)) /\ R!Msg("disconnect", k) \in Message(Len(id))
    BY <2>1 DEF R!Msg, Message
  <2>3. output' \in Seq(Message(Len(id)))
    BY <1>2, <2>2, OutKnown DEF R!ClientData, R!SessionEnds, R!OnSessionClose, Known
  <2>4. /\ UNCHANGED <<seed, id, i2o, o2i, entry, conns>>
        /\ \/ UNCHANGED sessions
           \/ sessions' = [sessions EXCEPT ![k] = "closing"]
           \/ sessions' = [sessions EXCEPT ![k] = "ended"]
    BY <1>2 DEF R!ClientData, R!SessionEnds, R!OnSessionClose
  <2>5. Tasks'
    BY <1>0, <2>1, <2>4 DEF Tasks
  <2> QED
    BY <2>3, <2>4, <2>5 DEF Known, Tasks
<1>3. CASE R!Forward
  <2>1. Head(output) \in Message(Len(id)) /\ Tail(output) \in Seq(Message(Len(id)))
    BY <1>3, HeadTailProperties DEF R!Forward, Known
  <2>2. i2o' \in Seq(Message(Len(id))) /\ output' \in Seq(Message(Len(id)))
    BY <1>3, <2>1, AppendProperties DEF R!Forward, Known
  <2> QED
    BY <1>3, <2>2 DEF R!Forward, Known
<1>4. CASE R!Stop \/ R!Stopped \/ R!StartAgain
  <2>1. <<>> \in Seq(Message(Len(id)))
    BY EmptySeq
  <2>2. /\ output' \in Seq(Message(Len(id)))
        /\ UNCHANGED <<id, i2o, o2i, entry, conns, sessions>>
    BY <1>4, <2>1 DEF R!Stop, R!Stopped, R!StartAgain, Known
  <2>3. seed' \in 0 .. Len(id)
    BY <1>0, <1>4 DEF R!Stop, R!Stopped, R!StartAgain, Known
  <2> QED
    BY <2>2, <2>3 DEF Known
<1>5. CASE R!InletInput \/ R!UnknownInlet
  <2>1. o2i' \in Seq(Message(Len(id)))
    BY <1>5, HeadTailProperties DEF R!InletInput, R!UnknownInlet, Known
  <2>2. /\ UNCHANGED <<seed, id, output, i2o, entry, conns>>
        /\ sessions' \in [R!Keys -> {"none", "open", "told", "closing", "ended"}]
        /\ \A k \in R!Keys : sessions'[k] # "none" => sessions[k] # "none"
    BY <1>0, <1>5 DEF R!InletInput, R!UnknownInlet, Tasks
  <2>3. Tasks'
    BY <1>0, <2>2 DEF Tasks
  <2> QED
    BY <2>1, <2>2, <2>3 DEF Known, Tasks
<1>6. CASE R!OnI2oConnect
  <2>1. /\ R!From \in 1 .. Len(id) /\ R!From \in R!Keys /\ id[R!From] \in R!Keys
        /\ i2o' \in Seq(Message(Len(id)))
    BY <1>6, FromKnown DEF R!OnI2oConnect, R!Incoming
  <2>2. CASE entry[id[R!From]] # 0
    <3>1. R!Msg("refused", R!From) \in Message(Len(id))
      BY <2>1 DEF R!Msg, Message
    <3>2. /\ R!ToInlet(R!Msg("refused", R!From))
          /\ UNCHANGED <<entry, conns, seed, id, output, sessions>>
      BY <1>6, <2>2 DEF R!OnI2oConnect
    <3> QED
      BY <2>1, <3>1, <3>2, ToInletKnown DEF Known
  <2>3. CASE entry[id[R!From]] = 0
    <3>1. /\ entry' = [entry EXCEPT ![id[R!From]] = R!From]
          /\ conns' = [conns EXCEPT ![R!From] = "open"]
          /\ UNCHANGED <<o2i, seed, id, output, sessions>>
      BY <1>6, <2>3 DEF R!OnI2oConnect
    <3>2. entry' \in [R!Keys -> 0 .. Len(id)]
      BY <1>0, <2>1, <3>1 DEF Known
    <3>3. Tasks'
      BY <1>0, <2>1, <3>1 DEF Tasks
    <3> QED
      BY <2>1, <3>1, <3>2, <3>3 DEF Known, Tasks
  <2> QED
    BY <2>2, <2>3
<1>7. CASE R!OnI2oSendData
  BY <1>7, FromKnown DEF R!OnI2oSendData, R!Incoming, Known
<1>8. CASE R!OnI2oDisconnect
  <2>1. R!From \in 1 .. Len(id) /\ id[R!From] \in R!Keys /\ i2o' \in Seq(Message(Len(id)))
    BY <1>8, FromKnown DEF R!OnI2oDisconnect, R!Incoming
  <2>2. /\ entry' = [entry EXCEPT ![id[R!From]] = 0]
        /\ conns' = [k \in R!Keys |-> IF k = entry[id[R!From]] THEN "told" ELSE conns[k]]
        /\ UNCHANGED <<o2i, seed, id, output, sessions>>
    BY <1>8 DEF R!OnI2oDisconnect, R!Unlinked
  <2>3. entry' \in [R!Keys -> 0 .. Len(id)] /\ entry[id[R!From]] \in 0 .. Len(id)
    BY <1>0, <2>1, <2>2 DEF Known
  <2>4. Tasks'
    BY <1>0, <2>2, <2>3 DEF Tasks
  <2> QED
    BY <2>1, <2>2, <2>3, <2>4 DEF Known, Tasks
<1>9. ASSUME NEW k \in R!Keys, R!EndpointData(k) \/ R!EndpointCloses(k) \/ R!ConnEnds(k)
      PROVE  Known'
  <2>1. k \in 1 .. Len(id) /\ id[k] \in R!Keys
    <3>1. k \in 1 .. Len(id)
      BY <1>0, <1>9 DEF R!EndpointData, R!EndpointCloses, R!ConnEnds, R!Live, Tasks
    <3> QED
      BY <3>1 DEF Known
  <2>2. R!Msg("data", k) \in Message(Len(id)) /\ R!Msg("disconnect", k) \in Message(Len(id))
    BY <2>1 DEF R!Msg, Message
  <2>3. o2i' \in Seq(Message(Len(id)))
    BY <1>9, <2>2, ToInletKnown, SMTT(30) DEF R!EndpointData, R!EndpointCloses, R!ConnEnds, Known
  <2>4. /\ UNCHANGED <<seed, id, output, i2o, sessions>>
        /\ \/ UNCHANGED conns
           \/ conns' = [conns EXCEPT ![k] = "closing"]
           \/ conns' = [conns EXCEPT ![k] = "none"]
        /\ UNCHANGED entry \/ entry' = [entry EXCEPT ![id[k]] = 0]
    BY <1>9, ZenonT(30) DEF R!EndpointData, R!EndpointCloses, R!ConnEnds, R!Removed
  <2>5. Tasks'
    BY <1>0, <2>1, <2>4 DEF Tasks
  <2>6. entry' \in [R!Keys -> 0 .. Len(id)]
    BY <1>0, <2>1, <2>4 DEF Known
  <2> QED
    BY <2>3, <2>4, <2>5, <2>6 DEF Known, Tasks
<1>10. CASE UNCHANGED R!vars
  BY <1>10 DEF R!vars, Known
<1> QED
  BY <1>1, <1>2, <1>3, <1>4, <1>5, <1>6, <1>7, <1>8, <1>9, <1>10
  DEF R!Next, R!Closing, R!Inputs, R!ConnsEnd

-----------------------------------------------------------------------------
(* An entry of the outlet's map always belongs to a session task that is   *)
(* still there, though OutletSession::on_session_close and on_i2o_         *)
(* disconnect remove entries by an id that comes again with every life of  *)
(* the inlet: the entry they remove is their own or nobody's.              *)
THEOREM EntriesHaveTasks ==
  ASSUME R!ConstantsOK
  PROVE  R!Spec => []R!EntryHasTask
<1> USE DEF R!inletVars, R!outletVars
<1> DEFINE IInv == Known /\ R!EntryHasTask
<1>1. R!Init => IInv
  <2> SUFFICES ASSUME R!Init PROVE IInv
    OBVIOUS
  <2>1. /\ Len(id) = 0 /\ id \in Seq(R!Keys)
        /\ <<>> \in Seq(Message(0)) /\ MaxSessions \in Nat
    BY EmptySeq DEF R!Init, R!ConstantsOK
  <2>2. Known
    BY <2>1 DEF R!Init, Known
  <2>3. R!EntryHasTask
    BY DEF R!Init, R!EntryHasTask
  <2> QED
    BY <2>2, <2>3
<1>2. IInv /\ [R!Next]_R!vars => IInv'
  <2> SUFFICES ASSUME IInv, [R!Next]_R!vars PROVE R!EntryHasTask'
    BY KnownStep
  <2>0. /\ Len(id) \in Nat /\ MaxSessions \in Nat /\ Len(id) <= MaxSessions
        /\ \A n \in R!Keys : n \in Nat \ {0} /\ entry[n] \in 0 .. Len(id)
    <3>1. /\ Len(id) \in Nat /\ MaxSessions \in Nat /\ Len(id) <= MaxSessions
          /\ \A n \in R!Keys : entry[n] \in 0 .. Len(id)
      BY LenProperties DEF R!ConstantsOK, Known
    <3> QED
      BY <3>1 DEF R!Keys
  <2>a. \A n \in R!Keys : entry[n] # 0 => entry[n] \in 1 .. Len(id) /\ entry[n] \in R!Keys
    BY <2>0 DEF R!Keys
  <2>1. CASE R!Accept
    <3>1. id' = Append(id, seed + 1) /\ seed + 1 \in R!Keys /\ UNCHANGED <<entry, conns>>
      BY <2>0, <2>1, AcceptKnown DEF R!Accept, Known, R!Keys
    <3>2. \A k \in 1 .. Len(id) : id'[k] = id[k]
      BY <3>1, AppendProperties DEF Known
    <3> QED
      BY <2>a, <3>1, <3>2 DEF R!EntryHasTask
  <2>2. CASE UNCHANGED <<id, entry, conns>>
    BY <2>2 DEF R!EntryHasTask
  <2>3. CASE R!OnI2oConnect
    <3>1. R!From \in R!Keys /\ id[R!From] \in R!Keys
      BY <2>3, FromKnown DEF R!OnI2oConnect, R!Incoming
    <3>2. CASE entry[id[R!From]] # 0
      BY <2>2, <2>3, <3>2 DEF R!OnI2oConnect
    <3>3. CASE entry[id[R!From]] = 0
      <4>1. /\ entry' = [entry EXCEPT ![id[R!From]] = R!From]
            /\ conns' = [conns EXCEPT ![R!From] = "open"]
            /\ UNCHANGED id
        BY <2>3, <3>3 DEF R!OnI2oConnect
      <4> QED
        BY <2>a, <3>1, <4>1 DEF R!EntryHasTask, Known
    <3> QED
      BY <3>2, <3>3
  <2>4. CASE R!OnI2oDisconnect
    <3>1. R!From \in R!Keys /\ id[R!From] \in R!Keys
      BY <2>4, FromKnown DEF R!OnI2oDisconnect, R!Incoming
    <3>2. /\ entry' = [entry EXCEPT ![id[R!From]] = 0]
          /\ conns' = [k \in R!Keys |-> IF k = entry[id[R!From]] THEN "told" ELSE conns[k]]
          /\ UNCHANGED id
      BY <2>4 DEF R!OnI2oDisconnect, R!Unlinked
    <3> QED
      BY <2>a, <3>1, <3>2 DEF R!EntryHasTask, Known
  <2>5. ASSUME NEW k \in R!Keys, R!ConnEnds(k) PROVE R!EntryHasTask'
    <3>1. /\ conns' = [conns EXCEPT ![k] = "none"]
          /\ entry' = [entry EXCEPT ![id[k]] = 0]
          /\ UNCHANGED id
      BY <2>5 DEF R!ConnEnds, R!Removed
    <3> QED
      BY <2>a, <3>1 DEF R!EntryHasTask, Known
  <2>6. ASSUME NEW k \in R!Keys, R!EndpointCloses(k) PROVE R!EntryHasTask'
    <3>1. conns' = [conns EXCEPT ![k] = "closing"] /\ UNCHANGED <<id, entry>>
      BY <2>6 DEF R!EndpointCloses
    <3> QED
      BY <2>a, <3>1, SMTT(30) DEF R!EntryHasTask, Known
  <2>7. \/ R!Accept \/ R!OnI2oConnect \/ R!OnI2oDisconnect
        \/ \E k \in R!Keys : R!ConnEnds(k) \/ R!EndpointCloses(k)
        \/ UNCHANGED <<id, entry, conns>>
    BY ZenonT(30) DEF R!Next, R!Closing, R!Inputs, R!ConnsEnd, R!ClientData, R!SessionEnds, R!OnSessionClose,
           R!Forward, R!Stop, R!Stopped, R!StartAgain, R!InletInput, R!UnknownInlet,
           R!OnI2oSendData, R!EndpointData, R!vars
  <2> QED
    BY <2>1, <2>2, <2>3, <2>4, <2>5, <2>6, <2>7
<1> QED
  BY <1>1, <1>2, PTL DEF R!Spec

-----------------------------------------------------------------------------
(* In an inlet's only life ids are keys, and an entry is its own session.  *)
OneLife ==
  /\ life = MaxLives /\ phase = "running" /\ seed = Len(id)
  /\ \A k \in 1 .. Len(id) : id[k] = k
  /\ mixed = {}

(* Within one life of an inlet a frame reaches its own session and no      *)
(* other, in either direction: ids are not given out twice, so the lookup  *)
(* by id in on_i2o_send_data and Inlet::input_internal finds no stranger.  *)
THEOREM OwnDataInOneLife ==
  ASSUME R!ConstantsOK, MaxLives = 1
  PROVE  R!Spec => []R!OwnData
<1> USE DEF R!inletVars, R!outletVars
<1>1. R!Init => OneLife /\ Known
  <2> SUFFICES ASSUME R!Init PROVE OneLife /\ Known
    OBVIOUS
  <2>1. /\ Len(id) = 0 /\ id \in Seq(R!Keys)
        /\ <<>> \in Seq(Message(0)) /\ MaxSessions \in Nat
    BY EmptySeq DEF R!Init, R!ConstantsOK
  <2> QED
    BY <2>1 DEF R!Init, Known, OneLife
<1>2. Known /\ R!EntryHasTask /\ OneLife /\ [R!Next]_R!vars => Known' /\ OneLife'
  <2> SUFFICES ASSUME Known, R!EntryHasTask, OneLife, [R!Next]_R!vars PROVE OneLife'
    BY KnownStep
  <2>0. Len(id) \in Nat /\ Len(id) <= MaxSessions /\ MaxSessions \in Nat
    BY LenProperties DEF Known, R!ConstantsOK
  <2>1. CASE R!Accept
    <3>1. id' = Append(id, seed + 1) /\ seed' = seed + 1 /\ Len(id') = Len(id) + 1
      BY <2>1, AcceptKnown DEF R!Accept, R!NextId
    <3>2. seed + 1 \in R!Keys
      BY <2>0, <2>1 DEF R!Accept, OneLife
    <3>3. \A k \in 1 .. Len(id') : id'[k] = k
      <4>1. \A k \in 1 .. Len(id) : id'[k] = id[k]
        BY <3>1, <3>2, AppendProperties DEF Known
      <4>2. id'[Len(id) + 1] = seed + 1
        BY <3>1, <3>2, AppendProperties DEF Known
      <4> QED
        BY <2>0, <3>1, <4>1, <4>2 DEF OneLife
    <3> QED
      BY <2>1, <3>1, <3>3 DEF R!Accept, OneLife
  <2>2. CASE R!InletInput
    <3> DEFINE m == Head(o2i)
               known == {k \in DOMAIN id : id[k] = id[m.key] /\ sessions[k] = "open"}
    <3>1. m \in Message(Len(id)) /\ DOMAIN id = 1 .. Len(id)
      BY <2>2, HeadTailProperties, LenProperties DEF R!InletInput, Known
    <3>2. m.key \in 1 .. Len(id)
      BY <3>1 DEF Message
    <3>3. known \ {m.key} = {}
      BY <3>1, <3>2 DEF OneLife
    <3>4. mixed' = mixed \cup {<<m.key, k>> : k \in
                      IF m.type = "data" THEN known \ {m.key} ELSE {}}
      BY <2>2 DEF R!InletInput
    <3>5. mixed' = {}
      BY <3>3, <3>4 DEF OneLife
    <3> QED
      BY <2>2, <3>5 DEF R!InletInput, OneLife
  <2>3. CASE R!OnI2oSendData
    <3>1. R!From \in 1 .. Len(id) /\ R!From \in R!Keys
      BY <2>3, FromKnown DEF R!OnI2oSendData, R!Incoming
    <3>2. id[R!From] = R!From /\ entry[R!From] \in 0 .. Len(id)
      BY <3>1 DEF OneLife, Known
    <3>3. entry[R!From] = 0 \/ entry[R!From] = R!From
      <4>1. entry[R!From] # 0 => entry[R!From] \in 1 .. Len(id) /\ id[entry[R!From]] = R!From
        BY <2>0, <3>1, <3>2 DEF R!EntryHasTask
      <4> QED
        BY <4>1 DEF OneLife
    <3>4. mixed' = {}
      BY <2>3, <3>2, <3>3 DEF R!OnI2oSendData, OneLife
    <3> QED
      BY <2>3, <3>4 DEF R!OnI2oSendData, OneLife
  <2>4. CASE UNCHANGED <<life, phase, seed, id, mixed>>
    BY <2>4 DEF OneLife
  <2>5. ~ R!Stop /\ ~ R!Stopped /\ ~ R!StartAgain
    BY SMTT(30) DEF R!Stop, R!Stopped, R!StartAgain, OneLife
  <2>6. \/ R!Accept \/ R!InletInput \/ R!OnI2oSendData
        \/ UNCHANGED <<life, phase, seed, id, mixed>>
    BY <2>5, ZenonT(30) DEF R!Next, R!Closing, R!Inputs, R!ConnsEnd, R!ClientData, R!SessionEnds,
           R!OnSessionClose, R!Forward, R!UnknownInlet, R!OnI2oConnect, R!OnI2oDisconnect,
           R!EndpointData, R!EndpointCloses, R!ConnEnds, R!vars
  <2> QED
    BY <2>1, <2>2, <2>3, <2>4, <2>6
<1>3. OneLife => R!OwnData
  BY DEF OneLife, R!OwnData
<1> QED
  BY <1>1, <1>2, <1>3, EntriesHaveTasks, PTL DEF R!Spec

-----------------------------------------------------------------------------
(* An address as it is written and read back.                              *)
CONSTANTS Addresses, Tails
VARIABLES addr, bytes, arrived, got
A == INSTANCE AddrReader WITH buffer <- arrived

(* The two bytes of a port give the port back.                             *)
LEMMA PortBack ==
  ASSUME NEW p \in A!U16
  PROVE  /\ A!PortBytes(p) \in Seq(A!Byte) /\ Len(A!PortBytes(p)) = 2
         /\ A!PortOf(A!PortBytes(p)[1], A!PortBytes(p)[2]) = p
<1>1. p \in Nat /\ p < 65536
  BY DEF A!U16
<1>2. p \div 256 \in Nat /\ p % 256 \in Nat /\ p \div 256 <= 255 /\ p % 256 <= 255
  BY <1>1, SMT
<1>3. p = (p \div 256) * 256 + (p % 256)
  BY <1>1, SMT
<1> DEFINE hi == p \div 256
           lo == p % 256
<1> HIDE DEF hi, lo
<1>4. A!PortBytes(p) = <<hi, lo>> /\ p = A!PortOf(hi, lo)
  BY <1>3, Zenon DEF A!PortBytes, A!PortOf, hi, lo
<1>5. hi \in Nat /\ lo \in Nat /\ hi <= 255 /\ lo <= 255
  BY <1>2, Zenon DEF hi, lo
<1>6. hi \in A!Byte /\ lo \in A!Byte
  BY <1>5 DEF A!Byte
<1>7. <<hi, lo>> \in Seq(A!Byte) /\ Len(<<hi, lo>>) = 2 /\ <<hi, lo>>[1] = hi /\ <<hi, lo>>[2] = lo
  BY <1>6
<1> QED
  BY <1>4, <1>7, Zenon

(* What to_be_bytes returns carries its bytes.                               *)
LEMMA OkValue ==
  ASSUME NEW x
  PROVE  A!Ok(x).ok /\ A!Ok(x).value = x
BY DEF A!Ok

LEMMA ErrIsNone == ~ A!Err.ok
BY DEF A!Err

(* The bytes of an address after its type: for a name its length, then the *)
(* host, then the port.                                                    *)
Lead(a) == IF a.type = A!DOMAIN_NAME THEN 1 ELSE 0
Whole(a) == Lead(a) + Len(a.host) + 2

LEMMA BytesAreInts ==
  ASSUME NEW s \in Seq(A!Byte)
  PROVE  s \in Seq(Int)
<1>1. A!Byte \subseteq Int
  BY DEF A!Byte
<1>2. \A i \in 1 .. Len(s) : s[i] \in Int
  BY <1>1, ElementOfSeq, Zenon
<1> QED
  BY <1>2, SeqDef, LenProperties

(* A function on 1 .. n is a sequence of n elements.                       *)
LEMMA FixedLen ==
  ASSUME NEW S, NEW n \in Nat, NEW f \in [1 .. n -> S]
  PROVE  f \in Seq(S) /\ Len(f) = n
<1>1. f \in Seq(S)
  BY SeqDef
<1>2. 1 .. Len(f) = 1 .. n /\ Len(f) \in Nat
  BY <1>1, LenProperties
<1> QED
  BY <1>1, <1>2, SMT

(* What an address that can be written looks like.                         *)
LEMMA Hosts ==
  ASSUME NEW a \in A!Address
  PROVE  /\ a.type \in {A!IPV4, A!IPV6, A!DOMAIN_NAME}
         /\ a.host \in Seq(A!Byte) /\ Len(a.host) \in Nat
         /\ a.type = A!IPV4 => Len(a.host) = 4
         /\ a.type = A!IPV6 => Len(a.host) = 16
         /\ a.type = A!DOMAIN_NAME => A!Utf8(a.host)
         /\ a.port \in A!U16
         /\ a = [type |-> a.type, host |-> a.host, port |-> a.port]
<1>1. CASE a \in [type : {A!IPV4}, host : [1 .. 4 -> A!Byte], port : A!U16]
  <2>1. a.host \in Seq(A!Byte) /\ Len(a.host) = 4
    <3>1. a.host \in [1 .. 4 -> A!Byte]
      BY <1>1, Zenon
    <3>2. 4 \in Nat
      OBVIOUS
    <3> QED
      BY <3>1, <3>2, FixedLen, Zenon
  <2>2. a.type = A!IPV4 /\ a.port \in A!U16
    BY <1>1
  <2>3. a = [type |-> a.type, host |-> a.host, port |-> a.port]
    BY <1>1
  <2>4. A!IPV4 # A!DOMAIN_NAME /\ A!IPV6 # A!DOMAIN_NAME /\ A!IPV4 # A!IPV6
    BY DEF A!IPV4, A!IPV6, A!DOMAIN_NAME
  <2> QED
    BY <2>1, <2>2, <2>3, <2>4
<1>2. CASE a \in [type : {A!IPV6}, host : [1 .. 16 -> A!Byte], port : A!U16]
  <2>1. a.host \in Seq(A!Byte) /\ Len(a.host) = 16
    <3>1. a.host \in [1 .. 16 -> A!Byte]
      BY <1>2, Zenon
    <3>2. 16 \in Nat
      OBVIOUS
    <3> QED
      BY <3>1, <3>2, FixedLen, Zenon
  <2>2. a.type = A!IPV6 /\ a.port \in A!U16
    BY <1>2
  <2>3. a = [type |-> a.type, host |-> a.host, port |-> a.port]
    BY <1>2
  <2>4. A!IPV4 # A!DOMAIN_NAME /\ A!IPV6 # A!DOMAIN_NAME /\ A!IPV4 # A!IPV6
    BY DEF A!IPV4, A!IPV6, A!DOMAIN_NAME
  <2> QED
    BY <2>1, <2>2, <2>3, <2>4
<1>3. CASE a \in [type : {A!DOMAIN_NAME}, host : {s \in Seq(A!Byte) : A!Utf8(s)}, port : A!U16]
  <2>1. a.host \in Seq(A!Byte) /\ A!Utf8(a.host) /\ Len(a.host) \in Nat
    BY <1>3, LenProperties
  <2> QED
    BY <1>3, <2>1 DEF A!IPV4, A!IPV6, A!DOMAIN_NAME
<1> QED
  BY <1>1, <1>2, <1>3 DEF A!Address

(* to_be_bytes, byte by byte.                                                *)
LEMMA Written ==
  ASSUME NEW a \in A!Address, A!to_be_bytes(a).ok
  PROVE  LET b == A!to_be_bytes(a).value
             h == Lead(a) + 1
         IN  /\ b \in Seq(Int) /\ Len(b) = Whole(a) + 1
             /\ b[1] = a.type
             /\ a.type = A!DOMAIN_NAME => b[2] = Len(a.host)
             /\ \A i \in 1 .. Len(a.host) : b[h + i] = a.host[i]
             /\ b[Whole(a)] = A!PortBytes(a.port)[1]
             /\ b[Whole(a) + 1] = A!PortBytes(a.port)[2]
<1> DEFINE p == A!PortBytes(a.port)
           head == IF a.type = A!DOMAIN_NAME THEN <<a.type, Len(a.host)>> ELSE <<a.type>>
           b == A!to_be_bytes(a).value
<1>1. b = head \o a.host \o p
  <2>1. CASE a.type = A!DOMAIN_NAME
    <3>1. ~ (Len(a.host) > 255)
      BY <2>1, ErrIsNone, Zenon DEF A!to_be_bytes
    <3>2. A!to_be_bytes(a) = A!Ok(<<a.type, Len(a.host)>> \o a.host \o p)
      BY <2>1, <3>1, Zenon DEF A!to_be_bytes
    <3>3. head = <<a.type, Len(a.host)>>
      BY <2>1, Zenon
    <3> QED
      BY <3>2, <3>3, OkValue, Zenon
  <2>2. CASE a.type # A!DOMAIN_NAME
    <3>1. A!to_be_bytes(a) = A!Ok(<<a.type>> \o a.host \o p)
      BY <2>2, Zenon DEF A!to_be_bytes
    <3>2. head = <<a.type>>
      BY <2>2, Zenon
    <3> QED
      BY <3>1, <3>2, OkValue, Zenon
  <2> QED
    BY <2>1, <2>2
<1>2. a.host \in Seq(Int) /\ Len(a.host) \in Nat /\ p \in Seq(Int) /\ Len(p) = 2
  <2>1. a.host \in Seq(A!Byte) /\ p \in Seq(A!Byte) /\ Len(p) = 2 /\ Len(a.host) \in Nat
    BY Hosts, PortBack, Zenon
  <2> QED
    BY <2>1, BytesAreInts, Zenon
<1>3. head \in Seq(Int) /\ Len(head) = Lead(a) + 1 /\ head[1] = a.type
      /\ (a.type = A!DOMAIN_NAME => head[2] = Len(a.host))
  <2>1. a.type \in Int
    BY Hosts DEF A!IPV4, A!IPV6, A!DOMAIN_NAME
  <2>2. CASE a.type = A!DOMAIN_NAME
    BY <1>2, <2>1, <2>2 DEF Lead
  <2>3. CASE a.type # A!DOMAIN_NAME
    BY <1>2, <2>1, <2>3 DEF Lead
  <2> QED
    BY <2>2, <2>3
<1>4. Lead(a) \in {0, 1}
  BY DEF Lead
<1> HIDE DEF p, head
<1> DEFINE s == head \o a.host
<1>5. /\ s \in Seq(Int) /\ Len(s) = Len(head) + Len(a.host)
      /\ \A i \in 1 .. Len(head) : s[i] = head[i]
      /\ \A i \in 1 .. Len(a.host) : s[Len(head) + i] = a.host[i]
  BY <1>2, <1>3, Joined, ZenonT(40)
<1> HIDE DEF s
<1>6. /\ s \o p \in Seq(Int) /\ Len(s \o p) = Len(s) + Len(p)
      /\ \A i \in 1 .. Len(s) : (s \o p)[i] = s[i]
      /\ \A i \in 1 .. Len(p) : (s \o p)[Len(s) + i] = p[i]
  BY <1>2, <1>5, Joined, Zenon
<1>7. b = s \o p
  BY <1>1, Zenon DEF s
<1> HIDE DEF b
<1>8. /\ Len(head) = Lead(a) + 1 /\ Len(s) = Lead(a) + 1 + Len(a.host)
      /\ Whole(a) = Len(s) + 1 /\ Len(s) \in Nat /\ Whole(a) \in Nat
  <2>1. Len(head) = Lead(a) + 1 /\ Len(s) = Len(head) + Len(a.host)
    BY <1>3, <1>5, Zenon
  <2> QED
    BY <1>2, <1>4, <2>1 DEF Whole
<1>9. b[1] = a.type
  <2>1. 1 \in 1 .. Len(head) /\ 1 \in 1 .. Len(s)
    BY <1>2, <1>4, <1>8
  <2> QED
    BY <1>3, <1>5, <1>6, <1>7, <2>1, Zenon
<1>10. ASSUME a.type = A!DOMAIN_NAME PROVE b[2] = Len(a.host)
  <2>1. 2 \in 1 .. Len(head) /\ 2 \in 1 .. Len(s)
    BY <1>2, <1>8, <1>10 DEF Lead
  <2> QED
    BY <1>3, <1>5, <1>6, <1>7, <1>10, <2>1, Zenon
<1>11. ASSUME NEW i \in 1 .. Len(a.host) PROVE b[Lead(a) + 1 + i] = a.host[i]
  <2>1. Len(head) + i \in 1 .. Len(s) /\ Len(head) + i = Lead(a) + 1 + i
    BY <1>2, <1>4, <1>8
  <2> QED
    BY <1>5, <1>6, <1>7, <2>1, Zenon
<1>12. b[Whole(a)] = p[1] /\ b[Whole(a) + 1] = p[2] /\ Len(b) = Whole(a) + 1
  <2>1. 1 \in 1 .. Len(p) /\ 2 \in 1 .. Len(p)
    BY <1>2
  <2>2. Len(s) + 1 = Whole(a) /\ Len(s) + 2 = Whole(a) + 1 /\ Len(s) + Len(p) = Whole(a) + 1
    BY <1>2, <1>8
  <2> QED
    BY <1>6, <1>7, <2>1, <2>2, Zenon
<1> QED
  BY <1>6, <1>7, <1>9, <1>10, <1>11, <1>12, Zenon DEF b, p

(* What arrives after the type is what was written after it.               *)
LEMMA Arrived ==
  ASSUME NEW a \in A!Address, A!to_be_bytes(a).ok, NEW tail \in Seq(A!Byte),
         NEW n \in Nat, n <= Len(A!to_be_bytes(a).value \o tail) - 1
  PROVE  LET b == A!to_be_bytes(a).value
             d == SubSeq(b \o tail, 2, n + 1)
         IN  /\ d \in Seq(Int) /\ Len(d) = n
             /\ \A i \in 1 .. n : i <= Whole(a) => d[i] = b[i + 1]
             /\ (b \o tail)[1] = a.type
             /\ Len(b \o tail) \in Nat
<1> DEFINE b == A!to_be_bytes(a).value
<1>1. b \in Seq(Int) /\ Len(b) = Whole(a) + 1 /\ b[1] = a.type
  BY Written, Zenon
<1>2. Whole(a) \in Nat /\ Whole(a) >= 2
  <2>1. Len(a.host) \in Nat
    BY Hosts, Zenon
  <2>2. Lead(a) \in {0, 1}
    BY DEF Lead
  <2> QED
    BY <2>1, <2>2 DEF Whole
<1>3. tail \in Seq(Int)
  BY BytesAreInts, Zenon
<1> HIDE DEF b
<1> DEFINE c == b \o tail
           d == SubSeq(c, 2, n + 1)
<1>4. /\ c \in Seq(Int) /\ Len(c) = Len(b) + Len(tail)
      /\ \A i \in 1 .. Len(b) : c[i] = b[i]
  BY <1>1, <1>3, Joined, Zenon
<1>5. n + 1 <= Len(c) /\ Len(c) \in Nat
  <2>1. n <= Len(c) - 1
    BY Zenon DEF b
  <2> QED
    BY <1>4, <2>1
<1> HIDE DEF c
<1>6. d \in Seq(Int) /\ Len(d) = n /\ \A i \in 1 .. n : d[i] = c[i + 1]
  BY <1>4, <1>5, Stretch, Zenon DEF d
<1> HIDE DEF d
<1>7. ASSUME NEW i \in 1 .. n, i <= Whole(a) PROVE d[i] = b[i + 1]
  <2>1. i + 1 \in 1 .. Len(b)
    BY <1>1, <1>2, <1>7
  <2> QED
    BY <1>4, <1>6, <2>1, Zenon
<1>8. c[1] = a.type
  <2>1. 1 \in 1 .. Len(b)
    BY <1>1, <1>2
  <2> QED
    BY <1>1, <1>4, <2>1, Zenon
<1> QED
  BY <1>5, <1>6, <1>7, <1>8, Zenon DEF b, c, d

(* read_address finds the address in any cut that holds the whole of it,   *)
(* and none in a shorter one.                                              *)
LEMMA ReadsBack ==
  ASSUME NEW a \in A!Address, a.host # <<>>, A!to_be_bytes(a).ok, NEW tail \in Seq(A!Byte),
         NEW n \in Nat, n >= 4, n <= Len(A!to_be_bytes(a).value \o tail) - 1
  PROVE  A!read_address(SubSeq(A!to_be_bytes(a).value \o tail, 2, n + 1), a.type)
         = IF n < Whole(a) THEN A!Missing ELSE A!Found(a, Whole(a))
<1> DEFINE b == A!to_be_bytes(a).value
           d == SubSeq(b \o tail, 2, n + 1)
           len == A!AddrDataLen(d, a.type)
<1>1. /\ d \in Seq(Int) /\ Len(d) = n
      /\ \A i \in 1 .. n : i <= Whole(a) => d[i] = b[i + 1]
  BY Arrived
<1>2. /\ a.type = A!DOMAIN_NAME => b[2] = Len(a.host)
      /\ \A i \in 1 .. Len(a.host) : b[Lead(a) + 1 + i] = a.host[i]
      /\ b[Whole(a)] = A!PortBytes(a.port)[1]
      /\ b[Whole(a) + 1] = A!PortBytes(a.port)[2]
  BY Written
<1>3. /\ a.type \in {A!IPV4, A!IPV6, A!DOMAIN_NAME}
      /\ a.host \in Seq(A!Byte) /\ Len(a.host) \in Nat
      /\ a.type = A!IPV4 => Len(a.host) = 4
      /\ a.type = A!IPV6 => Len(a.host) = 16
      /\ a.type = A!DOMAIN_NAME => A!Utf8(a.host)
      /\ a.port \in A!U16
      /\ a = [type |-> a.type, host |-> a.host, port |-> a.port]
  BY Hosts
<1> HIDE DEF b, d
<1>4. len = Whole(a)
  <2>1. CASE a.type = A!IPV4
    <3>1. len = 6 /\ Lead(a) = 0 /\ Len(a.host) = 4
      BY <1>3, <2>1 DEF A!AddrDataLen, Lead, A!IPV4, A!IPV6, A!DOMAIN_NAME
    <3> QED
      BY <3>1 DEF Whole
  <2>2. CASE a.type = A!IPV6
    <3>1. len = 18 /\ Lead(a) = 0 /\ Len(a.host) = 16
      BY <1>3, <2>2 DEF A!AddrDataLen, Lead, A!IPV4, A!IPV6, A!DOMAIN_NAME
    <3> QED
      BY <3>1 DEF Whole
  <2>3. CASE a.type = A!DOMAIN_NAME
    <3>1. len = 2 + d[1] + 1 /\ Lead(a) = 1
      BY <2>3 DEF A!AddrDataLen, Lead, A!IPV4, A!IPV6, A!DOMAIN_NAME
    <3>2. 1 \in 1 .. n /\ 1 <= Whole(a) /\ 1 + 1 = 2
      BY <1>3, <3>1 DEF Whole
    <3>3. d[1] = Len(a.host)
      BY <1>1, <1>2, <2>3, <3>2, Zenon
    <3> QED
      BY <1>3, <3>1, <3>3 DEF Whole
  <2> QED
    BY <1>3, <2>1, <2>2, <2>3, Zenon
<1>5. CASE n < Whole(a)
  BY <1>1, <1>3, <1>4, <1>5 DEF A!read_address, A!Unknown, A!IPV4, A!IPV6, A!DOMAIN_NAME, d, b
<1>6. CASE ~ (n < Whole(a))
  <2> DEFINE host == IF a.type = A!DOMAIN_NAME THEN SubSeq(d, 2, len - 2)
                                             ELSE SubSeq(d, 1, len - 2)
             port == A!PortOf(d[len - 1], d[len])
             from == Lead(a) + 1
  <2>1. Whole(a) \in Nat /\ Whole(a) = Lead(a) + Len(a.host) + 2 /\ Lead(a) \in {0, 1}
    <3>1. Lead(a) \in {0, 1}
      BY DEF Lead
    <3> QED
      BY <1>3, <3>1 DEF Whole
  <2>2. host = SubSeq(d, from, len - 2)
    <3>1. CASE a.type = A!DOMAIN_NAME
      <4>1. from = 2
        BY <3>1 DEF Lead
      <4> QED
        BY <3>1, <4>1, Zenon
    <3>2. CASE a.type # A!DOMAIN_NAME
      <4>1. from = 1
        BY <3>2, SMTT(30) DEF Lead
      <4> QED
        BY <3>2, <4>1, Zenon
    <3> QED
      BY Zenon, <3>1, <3>2
  <2>3. \A i \in from .. len - 2 : d[i] \in A!Byte /\ d[i] = a.host[i - Lead(a)]
    <3> SUFFICES ASSUME NEW i \in from .. len - 2
                 PROVE  d[i] \in A!Byte /\ d[i] = a.host[i - Lead(a)]
      OBVIOUS
    <3>1. i \in 1 .. n /\ i <= Whole(a) /\ i - Lead(a) \in 1 .. Len(a.host)
      BY <1>4, <1>6, <2>1, SMTT(30)
    <3>2. d[i] = b[i + 1] /\ b[Lead(a) + 1 + (i - Lead(a))] = a.host[i - Lead(a)]
      BY <1>1, <1>2, <3>1, SMTT(30)
    <3>3. Lead(a) + 1 + (i - Lead(a)) = i + 1
      BY <2>1
    <3>4. a.host[i - Lead(a)] \in A!Byte
      BY <1>3, <3>1, ElementOfSeq
    <3> QED
      BY <3>2, <3>3, <3>4, ZenonT(30)
  <2>4. /\ SubSeq(d, from, len - 2) \in Seq(A!Byte)
        /\ Len(SubSeq(d, from, len - 2)) = Len(a.host)
        /\ \A i \in 1 .. Len(a.host) : SubSeq(d, from, len - 2)[i] = d[from + i - 1]
    <3> HIDE DEF d, len
    <3>1. from \in Int /\ len - 2 \in Int /\ len - 2 - from + 1 = Len(a.host)
      BY <1>3, <1>4, <2>1
    <3> HIDE DEF from
    <3>2. /\ SubSeq(d, from, len - 2) \in Seq(A!Byte)
          /\ Len(SubSeq(d, from, len - 2)) = IF from <= len - 2 THEN len - 2 - from + 1 ELSE 0
          /\ \A i \in 1 .. len - 2 - from + 1 : SubSeq(d, from, len - 2)[i] = d[from + i - 1]
      BY <2>3, <3>1, SubSeqProperties
    <3> QED
      BY <1>3, <3>1, <3>2
  <2>5. SubSeq(d, from, len - 2) = a.host
    <3>1. \A i \in 1 .. Len(a.host) : SubSeq(d, from, len - 2)[i] = a.host[i]
      <4> SUFFICES ASSUME NEW i \in 1 .. Len(a.host)
                   PROVE  SubSeq(d, from, len - 2)[i] = a.host[i]
        OBVIOUS
      <4>1. from + i - 1 \in from .. len - 2 /\ (from + i - 1) - Lead(a) = i
        BY <1>3, <1>4, <2>1
      <4> QED
        BY <2>3, <2>4, <4>1, ZenonT(30)
    <3> QED
      BY <1>3, <2>4, <3>1, SeqEqual
  <2>6. port = a.port
    <3>1. d[len] = b[Whole(a) + 1] /\ d[len - 1] = b[Whole(a)]
      <4>1. len \in 1 .. n /\ len - 1 \in 1 .. n /\ len <= Whole(a) /\ len - 1 <= Whole(a)
            /\ (len - 1) + 1 = Whole(a) /\ len + 1 = Whole(a) + 1
        BY <1>3, <1>4, <1>6, <2>1
      <4> QED
        BY <1>1, <4>1
    <3> QED
      BY <1>2, <1>3, <3>1, PortBack
  <2>7. ~ A!Unknown(d, a.type)
    BY <1>1, <1>4, <1>6 DEF A!Unknown
  <2>8. a.type = A!DOMAIN_NAME => A!Utf8(host)
    BY <1>3, <2>2, <2>5
  <2>9. A!read_address(d, a.type) = A!Found([type |-> a.type, host |-> host, port |-> port], len)
    BY <1>3, <2>7, <2>8 DEF A!read_address
  <2>10. A!read_address(d, a.type) = A!Found(a, Whole(a))
    BY <1>3, <1>4, <2>2, <2>5, <2>6, <2>9
  <2> QED
    BY <1>6, <2>10 DEF b, d
<1> QED
  BY <1>5, <1>6

(* The bytes are those of an address and of what follows it; the arrived    *)
(* has as many of them as were read.                                       *)
Reading ==
  /\ addr \in A!Address /\ addr.host # <<>> /\ A!to_be_bytes(addr).ok
  /\ \E tail \in Seq(A!Byte) : bytes = A!to_be_bytes(addr).value \o tail
  /\ Len(arrived) \in Nat

(* However the bytes of an address are cut, what on_socks5_connect reads   *)
(* is the address that was written and the length up to what follows it,   *)
(* for every address, name and port and whatever follows; nothing is read  *)
(* from fewer bytes (to_be_bytes, read_address).                            *)
THEOREM AddressReadBack == ASSUME A!ConstantsOK PROVE A!Spec => []A!ReadBack
<1> DEFINE Inv == Reading /\ A!ReadBack
<1>0. ASSUME Reading PROVE Len(A!to_be_bytes(addr).value) - 1 = Whole(addr)
                           /\ Whole(addr) \in Nat /\ Whole(addr) >= 4
  <2>1. Len(A!to_be_bytes(addr).value) = Whole(addr) + 1
    BY <1>0, Written DEF Reading
  <2>2. Len(addr.host) \in Nat /\ Len(addr.host) # 0
    BY <1>0, Hosts, EmptySeq DEF Reading
  <2> QED
    <3>1. addr \in A!Address
      BY <1>0, Zenon DEF Reading
    <3>2. CASE addr.type = A!DOMAIN_NAME
      <4>1. Lead(addr) = 1
        BY <3>2 DEF Lead
      <4> QED
        BY <2>1, <2>2, <4>1 DEF Whole
    <3>3. CASE addr.type # A!DOMAIN_NAME
      <4>1. Lead(addr) = 0
        BY <3>3 DEF Lead
      <4>2. Len(addr.host) = 4 \/ Len(addr.host) = 16
        BY <3>1, <3>3, Hosts, Zenon
      <4>3. Whole(addr) = 6 \/ Whole(addr) = 18
        <5>1. CASE Len(addr.host) = 4
          BY <4>1, <5>1 DEF Whole
        <5>2. CASE Len(addr.host) = 16
          BY <4>1, <5>2, SMTT(30) DEF Whole
        <5> QED
          BY <4>2, <5>1, <5>2
      <4> QED
        BY <2>1, <4>3
    <3> QED
      BY <3>2, <3>3
<1>1. A!Init => Inv
  <2> SUFFICES ASSUME A!Init PROVE Inv
    OBVIOUS
  <2>1. Reading
    BY EmptySeq DEF A!Init, A!ConstantsOK, Reading
  <2> QED
    BY <2>1, <1>0, EmptySeq DEF A!Init, A!ReadBack
<1>2. Inv /\ [A!OnRecvFrame]_A!vars => Inv'
  <2> SUFFICES ASSUME Inv, [A!OnRecvFrame]_A!vars PROVE Inv'
    OBVIOUS
  <2>1. CASE UNCHANGED A!vars
    BY <2>1, SMTT(30) DEF A!vars, Reading, A!ReadBack
  <2>2. CASE A!OnRecvFrame
    <3>1. PICK n \in Len(arrived) + 1 .. Len(bytes) - 1 :
            /\ arrived' = SubSeq(bytes, 2, n + 1)
            /\ got' = IF n < 4 THEN A!Missing ELSE A!read_address(arrived', bytes[1])
      BY <2>2 DEF A!OnRecvFrame
    <3>2. PICK tail \in Seq(A!Byte) : bytes = A!to_be_bytes(addr).value \o tail
      BY DEF Reading
    <3>3. addr' = addr /\ bytes' = bytes
      BY <2>2 DEF A!OnRecvFrame
    <3>4. n \in Nat /\ n <= Len(bytes) - 1
      BY <3>1 DEF Reading
    <3>5. Len(arrived') = n /\ bytes[1] = addr.type
      BY <3>1, <3>2, <3>4, Arrived DEF Reading
    <3>6. Reading'
      BY <3>3, <3>4, <3>5 DEF Reading
    <3>7. got' = IF n < Whole(addr) THEN A!Missing ELSE A!Found(addr, Whole(addr))
      <4>1. addr \in A!Address /\ addr.host # <<>> /\ A!to_be_bytes(addr).ok
        BY DEF Reading
      <4>2. CASE n < 4
        <5>1. n < Whole(addr)
          BY <1>0, <3>4, <4>2
        <5> QED
          BY <3>1, <4>2, <5>1, Zenon
      <4>3. CASE ~ (n < 4)
        <5>1. n >= 4
          BY <3>4, <4>3
        <5>2. got' = A!read_address(SubSeq(A!to_be_bytes(addr).value \o tail, 2, n + 1), addr.type)
          BY <3>1, <3>2, <3>5, <4>3, Zenon
        <5>3. n <= Len(A!to_be_bytes(addr).value \o tail) - 1
          BY <3>2, <3>4, Zenon
        <5> QED
          BY <3>4, <4>1, <5>1, <5>2, <5>3, ReadsBack, Zenon
      <4> QED
        BY <4>2, <4>3
    <3> QED
      BY <1>0, <3>3, <3>4, <3>5, <3>6, <3>7 DEF A!ReadBack
  <2> QED
    BY <2>1, <2>2
<1> QED
  BY <1>1, <1>2, PTL DEF A!Spec

=============================================================================
