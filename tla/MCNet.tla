------------------------------- MODULE MCNet -------------------------------
(***************************************************************************)
(* Instances of Framing, UdpServer, InletRestart and ClientLife for TLC.   *)
(* A behaviour takes the steps of one instance, the one its "part" names;  *)
(* the others share no variable with it and stay as they began.            *)
(***************************************************************************)
EXTENDS Integers, Sequences

VARIABLES
  part,
  holder, written, count, stopped, stream, arrived, consumed, reader,
  forwarding, delivered, forwarded, refused,
  rx, hashmap, addrOf, state, queue, age, idle, nap, received, writes, early,
  dropped,
  life, phase, seed, id, sessions, output, i2o, o2i, entry, conns, sent, mixed,
  pc, result, player, proxies, quiet, link, to_server, to_client, peer, faults,
  pushes, service

framing == <<holder, written, count, stopped, stream, arrived, consumed, reader,
             forwarding, delivered, forwarded, refused>>
udp == <<rx, hashmap, addrOf, state, queue, age, idle, nap, received, writes,
         early, dropped>>
inlet == <<life, phase, seed, id, sessions, output, i2o, o2i, entry, conns,
           sent, mixed>>
loop == <<pc, result, player, proxies, quiet, link, to_server, to_client, peer,
          faults, pushes, service>>
vars == <<part, framing, udp, inlet, loop>>

(* Two tasks whose frames are cut anywhere, two frames each or one; one of *)
(* them a stranger whose traffic is forwarded, with tasks stopped at any   *)
(* byte; and a message, a frame too short for one, one too long and a      *)
(* stranger.                                                               *)
Cuts == INSTANCE Framing WITH
  Tasks <- {1, 2}, Size <- [t \in 1 .. 4 |-> 8], Flagged <- {1, 2}, LIMIT <- 10,
  Forward <- FALSE, MayStop <- FALSE, MaxFrames <- 2
Pair == INSTANCE Framing WITH
  Tasks <- {1, 2}, Size <- [t \in 1 .. 4 |-> 8], Flagged <- {1, 2}, LIMIT <- 10,
  Forward <- FALSE, MayStop <- FALSE, MaxFrames <- 1
Strange == INSTANCE Framing WITH
  Tasks <- {1, 2}, Size <- <<8, 1>>, Flagged <- {1}, LIMIT <- 10,
  Forward <- TRUE, MayStop <- TRUE, MaxFrames <- 1
Refuse == INSTANCE Framing WITH
  Tasks <- 1 .. 4, Size <- <<8, 3, 10, 1>>, Flagged <- 1 .. 3, LIMIT <- 10,
  Forward <- FALSE, MayStop <- FALSE, MaxFrames <- 1

(* Two addresses; and one, by a finer clock, whose session is written to.  *)
Udp == INSTANCE UdpServer WITH
  Addrs <- {1, 2}, SECOND <- 1, TIMEOUT <- 2, MaxDatagrams <- 3, MaxWrites <- 0
UdpOne == INSTANCE UdpServer WITH
  Addrs <- {1}, SECOND <- 2, TIMEOUT <- 4, MaxDatagrams <- 2, MaxWrites <- 1

(* An inlet that is started again, and one life with data.                 *)
Lives == INSTANCE InletRestart WITH
  MaxLives <- 2, MaxSessions <- 3, MaxFrames <- 0, OutputCap <- 2
Data == INSTANCE InletRestart WITH
  MaxLives <- 1, MaxSessions <- 2, MaxFrames <- 1, OutputCap <- 1

(* The program with TLS, and the Windows service.                          *)
Program == INSTANCE ClientLife WITH
  EnableTls <- TRUE, AsService <- FALSE, MaxFaults <- 3, MaxPushes <- 2,
  MaxPings <- 3
Service == INSTANCE ClientLife WITH
  EnableTls <- FALSE, AsService <- TRUE, MaxFaults <- 1, MaxPushes <- 2,
  MaxPings <- 3

ASSUME /\ Cuts!ConstantsOK /\ Pair!ConstantsOK
       /\ Strange!ConstantsOK /\ Refuse!ConstantsOK
       /\ Udp!ConstantsOK /\ UdpOne!ConstantsOK
       /\ Lives!ConstantsOK /\ Data!ConstantsOK
       /\ Program!ConstantsOK /\ Service!ConstantsOK

-----------------------------------------------------------------------------
Init ==
  /\ part \in {"cuts", "pair", "strange", "refuse", "udp", "udp one", "lives", "data",
               "program", "service"}
  /\ CASE part = "strange" -> Strange!Init
       [] part = "refuse"  -> Refuse!Init
       [] OTHER            -> Cuts!Init
  /\ IF part = "udp one" THEN UdpOne!Init ELSE Udp!Init
  /\ IF part = "data" THEN Data!Init ELSE Lives!Init
  /\ Program!Init

Next ==
  \/ /\ \/ part = "cuts" /\ Cuts!Next
        \/ part = "pair" /\ Pair!Next
        \/ part = "strange" /\ Strange!Next
        \/ part = "refuse" /\ Refuse!Next
     /\ UNCHANGED <<part, udp, inlet, loop>>
  \/ /\ \/ part = "udp" /\ Udp!Next
        \/ part = "udp one" /\ UdpOne!Next
     /\ UNCHANGED <<part, framing, inlet, loop>>
  \/ /\ \/ part = "lives" /\ Lives!Next
        \/ part = "data" /\ Data!Next
     /\ UNCHANGED <<part, framing, udp, loop>>
  \/ /\ \/ part = "program" /\ Program!Next
        \/ part = "service" /\ Service!Next
     /\ UNCHANGED <<part, framing, udp, inlet>>

(* Framing: the peer keeps reading, so a write that began goes on, and the *)
(* runtime runs the reader.                                                *)
FairFraming ==
  /\ \A t \in {1, 2} : WF_framing(part = "pair" /\ \E n \in 1 .. 13 : Pair!Write(t, n))
  /\ WF_framing(part = "pair" /\ Pair!Read)
  /\ WF_framing(part = "pair" /\ Pair!OnTryExtractFrame)

(* UdpServer: time passes and tasks that can run do; the shutdown reaches  *)
(* sessions.  That datagrams come, a delegate fails or a session is closed *)
(* is nobody's duty, nor that on_recv_frame ever returns.                  *)
Live(s) == part = "udp one" /\ s \in UdpOne!Opened
FairUdp ==
  /\ WF_udp(part = "udp one" /\ UdpOne!Tick)
  /\ \A s \in 1 .. 2 :
       /\ WF_udp(Live(s) /\ (UdpOne!OnSessionStart(s) \/ UdpOne!StartFails(s)))
       /\ WF_udp(Live(s) /\ UdpOne!Wake(s))
       /\ WF_udp(Live(s) /\ (UdpOne!OnSessionClose(s) \/ UdpOne!Remove(s)))

(* InletRestart: tasks that can run do; the sync that stopped an inlet     *)
(* starts the next.  Clients and endpoints owe nothing.                    *)
FairInlet ==
  /\ WF_inlet(part = "lives" /\ Lives!Forward)
  /\ WF_inlet(part = "lives" /\ Lives!Closing)
  /\ WF_inlet(part = "lives" /\ Lives!Inputs)
  /\ WF_inlet(part = "lives" /\ Lives!ConnsEnd)
  /\ WF_inlet(part = "lives" /\ Lives!Stopped)
  /\ WF_inlet(part = "lives" /\ Lives!StartAgain)
  /\ \A k \in 1 .. 3 :
       WF_inlet(part = "lives" /\ (phase = "stopping" \/ sessions[k] = "told")
                /\ Lives!SessionEnds(k))

(* ClientLife: both programs go on.  On a quiet connection the ping comes  *)
(* although frames may arrive in between; a server that is asked keeps     *)
(* answering.                                                              *)
FairProgram ==
  /\ WF_loop(part = "program" /\ Program!Connect)
  /\ WF_loop(part = "program" /\ Program!Handshake)
  /\ WF_loop(part = "program" /\ Program!HandshakeFails)
  /\ WF_loop(part = "program" /\ Program!SendLogin)
  /\ WF_loop(part = "program" /\ Program!SendLoginFails)
  /\ WF_loop(part = "program" /\ Program!RecvFrame)
  /\ WF_loop(part = "program" /\ Program!ReadEof)
  /\ WF_loop(part = "program" /\ Program!Quiet)
  /\ WF_loop(part = "program" /\ Program!Ping)
  /\ WF_loop(part = "program" /\ Program!Cleanup)
  /\ WF_loop(part = "program" /\ Program!Pause)
  /\ WF_loop(part = "program" /\ Program!ServerTakes)
  /\ WF_loop(part = "program" /\ Program!ServerAnswers)
FairService ==
  /\ WF_loop(part = "service" /\ Service!Connect)
  /\ WF_loop(part = "service" /\ Service!SendLogin)
  /\ WF_loop(part = "service" /\ Service!SendLoginFails)
  /\ WF_loop(part = "service" /\ Service!RecvFrame)
  /\ WF_loop(part = "service" /\ Service!ReadEof)
  /\ WF_loop(part = "service" /\ Service!Cleanup)
  /\ WF_loop(part = "service" /\ Service!Pause)
  /\ WF_loop(part = "service" /\ Service!StopPending)
  /\ WF_loop(part = "service" /\ Service!ServiceStopped)

Spec == /\ Init /\ [][Next]_vars
        /\ FairFraming /\ FairUdp /\ FairInlet /\ FairProgram /\ FairService

-----------------------------------------------------------------------------
(* Types of all four modules' states.                                      *)
TypeOK ==
  /\ part = "cuts" => Cuts!TypeOK
  /\ part = "udp" => Udp!TypeOK
  /\ part = "lives" => Lives!TypeOK
  /\ Program!TypeOK

(* Frames of tasks that are not stopped are delivered whole, in order and  *)
(* once, however writes and reads cut them (on_try_extract_frame); a       *)
(* stranger's bytes reach illegal_traffic_forward without a gap, also when *)
(* tasks are stopped halfway through a frame; and a connection is refused  *)
(* only for what one of its own tasks sent.                                *)
WholeFrames ==
  /\ part = "cuts" => Cuts!WholeFrames
  /\ part = "strange" => Strange!ForwardedWhole
  /\ part = "refuse" => Refuse!RefusedForCause

(* The map of udp_server.rs has an address exactly while its session has   *)
(* not finished, no session is closed for idleness before its time         *)
(* (poll_timeout), and a datagram is lost in the server only when its      *)
(* session ends meanwhile.                                                 *)
OneOwner ==
  /\ part = "udp" => Udp!OneOwner /\ Udp!NotEarly /\ Udp!LostOnlyAtEnd
  /\ part = "udp one" => UdpOne!NotEarly

(* An entry of the outlet's session_info_map has its task, though closes   *)
(* remove entries by id alone and ids come again with the inlet's next     *)
(* life; no entry stays for an id whose session of this life ended; and    *)
(* within a life a frame reaches its own session only.                     *)
RightSession ==
  /\ part = "lives" => Lives!EntryHasTask /\ Lives!EndedCleared
  /\ part = "data" => Data!OwnData

(* Nothing of the last connection is left when the client connects anew,   *)
(* and a pong is never where the client looks for the login's answer.      *)
FreshStart == Program!FreshStart /\ Program!PongNotMistaken

(* Once connections stop failing the client is logged in with its tunnels  *)
(* running, for good.                                                      *)
Recovers == part = "program" => Program!Recovers

(* What is to end ends: the stop of an inlet, and with it the tunnel's     *)
(* pause; a UDP session whose traffic has; a service that is told to stop, *)
(* whatever the client was doing; and the wait of a frame that is out,     *)
(* also of one that came with others.                                      *)
EndsWhenDue ==
  /\ part = "lives" => Lives!StopEnds
  /\ part = "udp one" => UdpOne!IdleEnds
  /\ part = "service" => Service!StopsWhenTold
  /\ part = "pair" => Pair!Handled
=============================================================================
