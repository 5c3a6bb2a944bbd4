------------------------------ MODULE UdpServer ------------------------------
(***************************************************************************)
(* udp_server::run_server and the udp_session::run tasks it spawns.  UDP   *)
(* has no connections: the first datagram of an address opens a session,   *)
(* which lives until it is told to close, its delegate fails, the server   *)
(* shuts down, or nothing has passed for TIMEOUT.  The receive loop looks  *)
(* the address up, inserts and sends under three separate locks of the     *)
(* map, and a session that ends removes its address at a time of its own.  *)
(*                                                                         *)
(* Time is counted in ticks, SECOND of them to a second, and in ages that  *)
(* stop at Old: the code compares them with TIMEOUT and SECOND only.       *)
(***************************************************************************)
EXTENDS Integers, Sequences

CONSTANTS
  Addrs,         \* addresses datagrams come from, 0 standing for none
  SECOND,        \* ticks in a second, the poll interval and refresh threshold
  TIMEOUT,       \* ticks of the timeout (10 s in the code)
  MaxDatagrams,  \* bound: datagrams received
  MaxWrites      \* bound: messages written to the clients

ConstantsOK ==
  /\ SECOND \in Nat \ {0}
  /\ TIMEOUT \in Nat
  /\ MaxDatagrams \in Nat
  /\ MaxWrites \in Nat
  /\ Addrs \subseteq Nat \ {0}

VARIABLES
  rx,        \* the receive loop: [pc, addr, calm]
  hashmap,   \* address -> id of its session, 0 for none
  addrOf,    \* addresses of the sessions opened so far; the id is the place
  state,     \* of each session task
  queue,     \* datagrams in each session's udp_recv channel
  age,       \* time since last_active_time
  idle,      \* history: time since the last datagram or message was handled
  nap,       \* how long poll_timeout has slept
  received,  \* datagrams received
  writes,    \* messages written
  early,     \* history: a timeout cut an active session off
  dropped    \* history: a datagram was lost though no session was ending

server == <<rx, received, dropped>>
clocks == <<age, idle, nap>>
vars == <<server, hashmap, addrOf, state, queue, clocks, writes, early>>

Ids == 1 .. MaxDatagrams
Old == TIMEOUT + 1
Receiving == {"starting", "open", "handing"}
Listening == [pc |-> "recv", addr |-> 0, calm |-> TRUE]

Init ==
  /\ rx = Listening
  /\ hashmap = [a \in Addrs |-> 0]
  /\ addrOf = <<>>
  /\ state = [s \in Ids |-> "none"]
  /\ queue = [s \in Ids |-> 0]
  /\ age = [s \in Ids |-> 0]
  /\ idle = [s \in Ids |-> 0]
  /\ nap = [s \in Ids |-> 0]
  /\ received = 0
  /\ writes = 0
  /\ early = FALSE
  /\ dropped = FALSE

-----------------------------------------------------------------------------
(* The receive loop.                                                       *)
Loop(pc) == rx' = [rx EXCEPT !.pc = pc]

(* calm: no session of this address is on its way out.                     *)
RecvFrom(a) ==
  /\ rx.pc = "recv"
  /\ received < MaxDatagrams
  /\ received' = received + 1
  /\ rx' = [pc |-> "lookup", addr |-> a,
            calm |-> \A s \in DOMAIN addrOf :
                       addrOf[s] = a => state[s] \in Receiving \cup {"gone"}]
  /\ UNCHANGED <<hashmap, addrOf, state, queue, clocks, writes, early, dropped>>

AfterLookup == IF hashmap[rx.addr] # 0 THEN "send" ELSE "insert"

Lookup ==
  /\ rx.pc = "lookup"
  /\ Loop(AfterLookup)
  /\ UNCHANGED <<hashmap, addrOf, state, queue, clocks, received, writes, early, dropped>>

Insert ==
  LET s == Len(addrOf) + 1
  IN  /\ rx.pc = "insert"
      /\ addrOf' = Append(addrOf, rx.addr)
      /\ hashmap' = [hashmap EXCEPT ![rx.addr] = s]
      /\ state' = [state EXCEPT ![s] = "starting"]
      /\ Loop("send")
      /\ UNCHANGED <<queue, clocks, received, writes, early, dropped>>

(* No entry, or a receiver that is gone: the datagram is lost.             *)
SendToSession ==
  LET s == hashmap[rx.addr]
      taken == s # 0 /\ state[s] \in Receiving
  IN  /\ rx.pc = "send"
      /\ queue' = [x \in Ids |-> IF taken /\ x = s THEN queue[x] + 1 ELSE queue[x]]
      /\ dropped' = (dropped \/ (~ taken /\ rx.calm))
      /\ rx' = Listening
      /\ UNCHANGED <<hashmap, addrOf, state, clocks, received, writes, early>>

(* The shutdown future resolves; the loop is dropped where it waits.       *)
Shutdown ==
  /\ rx.pc # "down"
  /\ rx' = [Listening EXCEPT !.pc = "down"]
  /\ UNCHANGED <<hashmap, addrOf, state, queue, clocks, received, writes, early, dropped>>

-----------------------------------------------------------------------------
(* A session.                                                              *)
Become(s, st) == state' = [state EXCEPT ![s] = st]

(* run is past its select!, or never got there; what is queued goes with   *)
(* the channel and the timers with their tasks.                            *)
End(s, st) ==
  /\ Become(s, st)
  /\ queue' = [queue EXCEPT ![s] = 0]
  /\ age' = [age EXCEPT ![s] = 0]
  /\ idle' = [idle EXCEPT ![s] = 0]
  /\ nap' = [nap EXCEPT ![s] = 0]
  /\ rx' = IF rx.addr = addrOf[s] THEN [rx EXCEPT !.calm = FALSE] ELSE rx

(* last_active_time is rewritten only when it is a second old.             *)
Refresh(t) == IF t >= SECOND THEN 0 ELSE t

Touch(s) ==
  /\ age' = [age EXCEPT ![s] = Refresh(@)]
  /\ idle' = [idle EXCEPT ![s] = 0]
  /\ nap' = nap

OnSessionStart(s) ==
  /\ state[s] = "starting"
  /\ Become(s, "open")
  /\ age' = [age EXCEPT ![s] = 0]
  /\ idle' = [idle EXCEPT ![s] = 0]
  /\ nap' = [nap EXCEPT ![s] = 0]
  /\ UNCHANGED <<server, hashmap, addrOf, queue, writes, early>>

(* on_session_start fails: run returns without on_session_close.           *)
StartFails(s) ==
  /\ state[s] = "starting"
  /\ End(s, "removing")
  /\ UNCHANGED <<received, dropped, hashmap, addrOf, writes, early>>

HasDatagram(s) == queue[s] > 0

(* poll_read takes a datagram and is busy until on_recv_frame returns,     *)
(* which may wait for the peer's credit.                                   *)
TakeDatagram(s) ==
  /\ state[s] = "open"
  /\ HasDatagram(s)
  /\ queue' = [queue EXCEPT ![s] = @ - 1]
  /\ Become(s, "handing")
  /\ Touch(s)
  /\ UNCHANGED <<server, hashmap, addrOf, writes, early>>
OnRecvFrame(s) ==
  /\ state[s] = "handing"
  /\ Become(s, "open")
  /\ UNCHANGED <<server, hashmap, addrOf, queue, clocks, writes, early>>

(* poll_write sends a message to the client.                               *)
Write(s) ==
  /\ state[s] \in {"open", "handing"}
  /\ writes < MaxWrites
  /\ writes' = writes + 1
  /\ Touch(s)
  /\ UNCHANGED <<server, hashmap, addrOf, state, queue, early>>

(* A Close, a failed send or frame, or the server's shutdown.              *)
Quit(s) ==
  /\ state[s] \in {"open", "handing"}
  /\ End(s, "closing")
  /\ UNCHANGED <<received, dropped, hashmap, addrOf, writes, early>>

Expired(s) == age[s] > TIMEOUT

(* poll_timeout wakes up.                                                  *)
Wake(s) ==
  /\ state[s] \in {"open", "handing"}
  /\ nap[s] >= SECOND
  /\ IF Expired(s)
       THEN /\ End(s, "closing")
            /\ early' = (early \/ idle[s] <= TIMEOUT - SECOND)
       ELSE /\ nap' = [nap EXCEPT ![s] = 0]
            /\ UNCHANGED <<state, queue, age, idle, rx, early>>
  /\ UNCHANGED <<received, dropped, hashmap, addrOf, writes>>

OnSessionClose(s) ==
  /\ state[s] = "closing"
  /\ Become(s, "removing")
  /\ UNCHANGED <<server, hashmap, addrOf, queue, clocks, writes, early>>

(* Mutant: the address is removed before on_session_close has returned.    *)
MayRemoveEarly(s) == state[s] \in {"closing", "removing"}

MayRemove(s) == state[s] = "removing"

(* The spawned task removes the address and drops shutdown_complete.       *)
Remove(s) ==
  /\ MayRemove(s)
  /\ hashmap' = [hashmap EXCEPT ![addrOf[s]] = 0]
  /\ Become(s, IF state[s] = "removing" THEN "gone" ELSE "closing")
  /\ UNCHANGED <<server, addrOf, queue, clocks, writes, early>>

(* Time passes; timers may be late.                                        *)
Later(t) == IF t < Old THEN t + 1 ELSE t
Tick ==
  /\ age' = [s \in Ids |-> IF state[s] \in {"open", "handing"} THEN Later(age[s]) ELSE age[s]]
  /\ idle' = [s \in Ids |-> IF state[s] \in {"open", "handing"} THEN Later(idle[s]) ELSE idle[s]]
  /\ nap' = [s \in Ids |-> IF state[s] \in {"open", "handing"} /\ nap[s] < SECOND
                             THEN nap[s] + 1 ELSE nap[s]]
  /\ UNCHANGED <<server, hashmap, addrOf, state, queue, writes, early>>

-----------------------------------------------------------------------------
Opened == DOMAIN addrOf
Session(s) ==
  \/ OnSessionStart(s) \/ StartFails(s) \/ TakeDatagram(s) \/ OnRecvFrame(s)
  \/ Write(s) \/ Quit(s) \/ Wake(s) \/ OnSessionClose(s) \/ Remove(s)

Next ==
  \/ \E a \in Addrs : RecvFrom(a)
  \/ Lookup \/ Insert \/ SendToSession \/ Shutdown \/ Tick
  \/ \E s \in Opened : Session(s)

Spec == Init /\ [][Next]_vars

-----------------------------------------------------------------------------
(* Types; ages stay within their cap.                                      *)
TypeOK ==
  /\ rx \in [pc : {"recv", "lookup", "insert", "send", "down"},
             addr : Addrs \cup {0}, calm : BOOLEAN]
  /\ hashmap \in [Addrs -> 0 .. MaxDatagrams]
  /\ addrOf \in Seq(Addrs)
  /\ Len(addrOf) <= received
  /\ state \in [Ids -> {"none", "starting", "open", "handing", "closing",
                        "removing", "gone"}]
  /\ queue \in [Ids -> Nat]
  /\ age \in [Ids -> 0 .. Old]
  /\ idle \in [Ids -> 0 .. Old]
  /\ nap \in [Ids -> 0 .. SECOND]

(* The map has an address exactly while its session has not finished, so   *)
(* an address never has two sessions, and the removal by address at the    *)
(* end of a session never takes the entry of a later one.                  *)
OneOwner ==
  \A s \in Opened : state[s] # "gone" => hashmap[addrOf[s]] = s

(* A session is not closed for idleness before it has been idle for all    *)
(* but a second of the timeout, although last_active_time lags behind.     *)
NotEarly == ~ early

(* A datagram is lost in the server only when the session of its address   *)
(* ends meanwhile: the first datagram of an address reaches the session it *)
(* opens.                                                                  *)
LostOnlyAtEnd == ~ dropped

(* Sessions do not pile up: each ends when its traffic has.                *)
IdleEnds == \A s \in Ids : state[s] = "open" ~> state[s] = "gone"
=============================================================================
