----------------------------- MODULE ClientLife -----------------------------
(***************************************************************************)
(* The life of a client: run_with_args connects to the server, logs in,    *)
(* runs the tunnels until the connection ends, stops them and tries again  *)
(* after a pause; as a Windows service it does so until it is told to      *)
(* stop.  The connection may be refused, fail in the TLS handshake, be     *)
(* closed by the server or go dead without a word, which only a write      *)
(* finds out: hence the pings.  The server's side of the connection is its *)
(* Peer, which handles one frame after the other but pushes to a player    *)
(* from the moment the login has bound the session.                        *)
(***************************************************************************)
EXTENDS Integers, Sequences

CONSTANTS
  EnableTls,   \* common_args.enable_tls
  AsService,   \* whether the client runs as a Windows service
  MaxFaults,   \* bound: refusals, timeouts, closed and dead connections
  MaxPushes,   \* bound: pushes of the server
  MaxPings     \* bound: frames under way when a ping is sent

ConstantsOK ==
  /\ {EnableTls, AsService} \subseteq BOOLEAN
  /\ {MaxFaults, MaxPushes, MaxPings} \subseteq Nat

VARIABLES
  pc,        \* where run_with_args is
  result,    \* "ok" or "error": how the last run ended
  player,    \* whether player_id is set
  proxies,   \* whether inlets and outlets run
  quiet,     \* nothing was read for PING_INTERVAL
  link,      \* "none", "up", "closed" by the server, or "dead"
  to_server, \* frames on their way
  to_client,
  peer,      \* the server's session: "none", "new", "bound" or "in"
  faults,
  pushes,
  service    \* "running", "stop" asked for, "stop_pending", "stopped"

frames == <<to_server, to_client>>
client == <<pc, result, player, proxies, quiet>>
bounds == <<faults, pushes>>
vars == <<client, link, frames, peer, bounds, service>>

Init ==
  /\ pc = "connect"
  /\ result = "ok"
  /\ player = FALSE
  /\ proxies = FALSE
  /\ quiet = FALSE
  /\ link = "none"
  /\ to_server = <<>>
  /\ to_client = <<>>
  /\ peer = "none"
  /\ faults = 0
  /\ pushes = 0
  /\ service = "running"

Fault == faults < MaxFaults /\ faults' = faults + 1
NoFrames == to_server' = <<>> /\ to_client' = <<>>
Alive == service \in {"running", "stop"}

-----------------------------------------------------------------------------
(* run: connect, and the TLS handshake if it is wanted.  Either may fail,  *)
(* the handshake also by its timeout.                                      *)
Connect ==
  /\ Alive /\ pc = "connect"
  /\ link' = "up"
  /\ peer' = "new"
  /\ pc' = IF EnableTls THEN "tls" ELSE "login"
  /\ UNCHANGED <<result, player, proxies, quiet, frames, bounds, service>>

ConnectFails ==
  /\ Alive /\ pc \in {"connect", "tls"}
  /\ Fault
  /\ link' = "none"
  /\ peer' = "none"
  /\ pc' = "pause"
  /\ result' = "error"
  /\ UNCHANGED <<player, proxies, quiet, frames, pushes, service>>

Handshake ==
  /\ Alive /\ pc = "tls" /\ link = "up"
  /\ pc' = "login"
  /\ UNCHANGED <<result, player, proxies, quiet, link, frames, peer, bounds, service>>

(* run_client up to the select!: a new Client that knows no player.        *)
SendLogin ==
  /\ Alive /\ pc = "login"
  /\ to_server' = IF link = "up" THEN Append(to_server, "login") ELSE to_server
  /\ player' = FALSE
  /\ quiet' = FALSE
  /\ pc' = "run"
  /\ UNCHANGED <<result, proxies, link, to_client, peer, bounds, service>>

SendLoginFails ==
  /\ Alive /\ pc = "login" /\ link # "up"
  /\ link' = "none"
  /\ pc' = "pause"
  /\ result' = "error"
  /\ UNCHANGED <<player, proxies, quiet, frames, peer, bounds, service>>

(* The select! returns: whichever of run and ping_forever ended first.     *)
Returns(how) == pc' = "cleanup" /\ result' = how

-----------------------------------------------------------------------------
(* Mutant: the acknowledgement itself is taken for a push.                 *)
AcceptsLater(frame) == player

(* handle_message.  Until the login is answered every push is an error and *)
(* every answer but an acknowledgement too.                                *)
Accepts(frame) == player \/ frame = "ack"

(* Client::run: one frame read and handled, proxies started included.      *)
RecvFrame ==
  /\ Alive /\ pc = "run" /\ link # "dead"
  /\ to_client # <<>>
  /\ to_client' = Tail(to_client)
  /\ quiet' = FALSE
  /\ IF Accepts(Head(to_client))
       THEN player' = TRUE /\ proxies' = TRUE /\ UNCHANGED <<pc, result>>
       ELSE Returns("error") /\ UNCHANGED <<player, proxies>>
  /\ UNCHANGED <<link, to_server, peer, bounds, service>>

(* The server closed the connection and everything it sent is read.        *)
ReadEof ==
  /\ Alive /\ pc = "run" /\ link = "closed"
  /\ to_client = <<>>
  /\ Returns("ok")
  /\ UNCHANGED <<player, proxies, quiet, link, frames, peer, bounds, service>>

(* Time passes without a frame.                                            *)
Quiet ==
  /\ Alive /\ pc = "run" /\ ~ quiet
  /\ quiet' = TRUE
  /\ UNCHANGED <<pc, result, player, proxies, link, frames, peer, bounds, service>>

(* ping_forever, every second of a quiet connection.  A write to a         *)
(* connection that is no more fails, sooner or later.                      *)
Ping ==
  /\ Alive /\ pc = "run" /\ quiet
  /\ IF link = "up"
       THEN /\ Len(to_server) + Len(to_client) < MaxPings
            /\ to_server' = Append(to_server, "ping")
            /\ UNCHANGED <<pc, result>>
       ELSE Returns("error") /\ UNCHANGED to_server
  /\ UNCHANGED <<player, proxies, quiet, link, to_client, peer, bounds, service>>

Stopped == FALSE

(* sync_tunnels with no tunnels, and the connection is dropped.            *)
Cleanup ==
  /\ Alive /\ pc = "cleanup"
  /\ proxies' = Stopped
  /\ link' = "none"
  /\ NoFrames
  /\ peer' = "none"
  /\ pc' = "pause"
  /\ UNCHANGED <<result, player, quiet, bounds, service>>

Again == "connect"

(* run_with_args sleeps 5 s after an error and 100 ms otherwise.           *)
Pause ==
  /\ Alive /\ pc = "pause"
  /\ link' = "none"
  /\ pc' = Again
  /\ UNCHANGED <<result, player, proxies, quiet, frames, peer, bounds, service>>

-----------------------------------------------------------------------------
(* The server: a login is bound to the session and then answered; a ping   *)
(* is answered at once; the frames are taken in order.  Mutant: a frame is *)
(* taken while the login is being handled.                                 *)
MayTakeAny == peer \in {"new", "bound", "in"}

MayTake == peer \in {"new", "in"}

ServerTakes ==
  /\ link = "up" /\ to_server # <<>>
  /\ MayTake
  /\ to_server' = Tail(to_server)
  /\ \/ Head(to_server) = "login" /\ peer' = "bound" /\ UNCHANGED <<to_client, faults>>
     \/ /\ Head(to_server) = "login"       \* unknown user, wrong password
        /\ Fault
        /\ to_client' = Append(to_client, "error")
        /\ UNCHANGED peer
     \/ /\ Head(to_server) = "ping"
        /\ to_client' = Append(to_client, "pong")
        /\ UNCHANGED <<peer, faults>>
  /\ UNCHANGED <<client, link, pushes, service>>

ServerAnswers ==
  /\ link = "up" /\ peer = "bound"
  /\ peer' = "in"
  /\ to_client' = Append(to_client, "ack")
  /\ UNCHANGED <<client, link, to_server, bounds, service>>

(* A message of another client, or a notice that a tunnel changed.         *)
ServerPushes ==
  /\ link = "up" /\ peer \in {"bound", "in"}
  /\ pushes < MaxPushes
  /\ pushes' = pushes + 1
  /\ to_client' = Append(to_client, "push")
  /\ UNCHANGED <<client, link, to_server, peer, faults, service>>

(* The server stops or drops the session; the network fails in silence.    *)
ServerCloses ==
  /\ link = "up" /\ Fault
  /\ link' = "closed"
  /\ peer' = "none"
  /\ UNCHANGED <<client, frames, pushes, service>>

LinkDies ==
  /\ link = "up" /\ Fault
  /\ link' = "dead"
  /\ NoFrames
  /\ UNCHANGED <<client, peer, pushes, service>>

(* While TLS waits, a connection that ended fails the handshake.           *)
HandshakeFails ==
  /\ Alive /\ pc = "tls" /\ link # "up"
  /\ link' = "none"
  /\ pc' = "pause"
  /\ result' = "error"
  /\ UNCHANGED <<player, proxies, quiet, frames, peer, bounds, service>>

-----------------------------------------------------------------------------
(* run_service: the control handler passes the first stop on, and the      *)
(* select! drops whatever run_with_args was doing.                         *)
ServiceStop ==
  /\ AsService /\ service = "running"
  /\ service' = "stop"
  /\ UNCHANGED <<client, link, frames, peer, bounds>>

(* Mutant: the client is waited for.                                       *)
MayStopIdle == service = "stop" /\ pc = "pause"

MayStop == service = "stop"

StopPending ==
  /\ MayStop
  /\ service' = "stop_pending"
  /\ UNCHANGED <<client, link, frames, peer, bounds>>

(* The process ends, and with it what still ran.                           *)
ServiceStopped ==
  /\ service = "stop_pending"
  /\ service' = "stopped"
  /\ proxies' = FALSE
  /\ link' = "none"
  /\ peer' = "none"
  /\ NoFrames
  /\ UNCHANGED <<pc, result, player, quiet, bounds>>

-----------------------------------------------------------------------------
RunClient == Connect \/ Handshake \/ HandshakeFails \/ SendLogin \/ SendLoginFails
               \/ RecvFrame \/ ReadEof \/ Quiet \/ Ping \/ Cleanup \/ Pause
RunServer == ServerTakes \/ ServerAnswers
Environment == ConnectFails \/ ServerPushes \/ ServerCloses \/ LinkDies \/ ServiceStop
RunService == StopPending \/ ServiceStopped

Next == RunClient \/ RunServer \/ Environment \/ RunService

Spec == Init /\ [][Next]_vars

-----------------------------------------------------------------------------
(* Types.                                                                  *)
TypeOK ==
  /\ pc \in {"connect", "tls", "login", "run", "cleanup", "pause"}
  /\ result \in {"ok", "error"}
  /\ link \in {"none", "up", "closed", "dead"}
  /\ to_server \in Seq({"login", "ping"})
  /\ to_client \in Seq({"ack", "error", "pong", "push"})
  /\ service \in {"running", "stop", "stop_pending", "stopped"}

(* When the client connects anew nothing of the last connection is left:   *)
(* no inlet holds its port, no frame is unread, and none of the pauses     *)
(* between two runs has a connection open.                                 *)
FreshStart ==
  /\ pc \in {"connect", "tls", "login", "pause"} => ~ proxies
  /\ pc = "connect" => link = "none" /\ frames = <<<<>>, <<>>>>

(* A slow login is pinged too, and the answer to a ping has a positive     *)
(* serial like the login's: it must never come first, or the client would  *)
(* take it for the answer to the login and give up.                        *)
PongNotMistaken ==
  pc = "run" /\ ~ player /\ to_client # <<>> => Head(to_client) # "pong"

(* However connections fail, the client ends up logged in with its tunnels *)
(* running once they stop failing: also after a connection that went dead  *)
(* in silence, and after a push that came before the login was answered.   *)
Recovers == <>[](pc = "run" /\ player /\ proxies /\ link = "up")

(* A service that is told to stop stops, whatever the client was doing.    *)
StopsWhenTold == service = "stop" ~> service = "stopped" /\ ~ proxies
=============================================================================
