----------------------------- MODULE InletRestart -----------------------------
(***************************************************************************)
(* The lives of an inlet, against an outlet that outlives them.  A change  *)
(* of the tunnel that the outlet's description does not mention (the port, *)
(* the type) stops the inlet and starts a new one, whose listener numbers  *)
(* its sessions from 1 again, while the outlet keeps its sessions by id.   *)
(*                                                                         *)
(* A session's key, its place among all that were accepted, is a history   *)
(* value: the code sees the id alone.  Flow control is in module Tunnel.   *)
(***************************************************************************)
EXTENDS Integers, Sequences

CONSTANTS
  MaxLives,     \* bound: how often the inlet is started
  MaxSessions,  \* bound: connections accepted, in all lives
  MaxFrames,    \* bound: frames sent by one end of a session
  OutputCap     \* capacity of the inlet's output channel (1000 in the code)

ConstantsOK ==
  /\ {MaxLives, MaxSessions, OutputCap} \subseteq Nat \ {0}
  /\ MaxFrames \in Nat

VARIABLES
  life,      \* which life of the inlet this is
  phase,     \* the inlet: "running", "stopping" or "down"
  seed,      \* session_id_seed of start_server
  id,        \* the session ids given out, a sequence over the keys
  sessions,  \* inlet session tasks: key -> "none", "open", "told" (a Close is
             \* queued for poll_write), "closing" or "ended"
  output,    \* the inlet's output channel
  i2o, o2i,  \* messages between the inlet's channel and each side's input loop
  entry,     \* the outlet's session_info_map: id -> key, or 0 for none
  conns,     \* outlet session tasks: key -> "none", "open", "told" or "closing"
  sent,      \* history: frames sent by each end
  mixed      \* history: <<from, to>> of frames that reached another session

vars == <<life, phase, seed, id, sessions, output, i2o, o2i, entry, conns, sent, mixed>>
inletVars == <<life, phase, seed, id, sessions, output>>
outletVars == <<entry, conns>>

Keys == 1 .. MaxSessions
Msg(type, k) == [type |-> type, key |-> k]

Init ==
  /\ life = 1
  /\ phase = "running"
  /\ seed = 0
  /\ id = <<>>
  /\ sessions = [k \in Keys |-> "none"]
  /\ output = <<>>
  /\ i2o = <<>>
  /\ o2i = <<>>
  /\ entry = [n \in Keys |-> 0]
  /\ conns = [k \in Keys |-> "none"]
  /\ sent = [x \in {"inlet", "outlet"} \X Keys |-> 0]
  /\ mixed = {}

(* Mutant: the channel is unbounded.                                       *)
OutUnbounded(m) == output' = Append(output, m)

Out(m) == /\ Len(output) < OutputCap
          /\ output' = Append(output, m)
ToInlet(m) == o2i' = Append(o2i, m)
Live == {"open", "told"}

-----------------------------------------------------------------------------
(* The inlet.                                                              *)

NextId == seed + 1

(* start_server accepts until the input loop has ended; on_session_start   *)
(* announces the session.                                                  *)
Accept ==
  LET k == Len(id) + 1
  IN  /\ phase = "running"
      /\ k \in Keys
      /\ seed' = NextId
      /\ id' = Append(id, seed')
      /\ sessions' = [sessions EXCEPT ![k] = "open"]
      /\ Out(Msg("connect", k))
      /\ UNCHANGED <<life, phase, i2o, o2i, outletVars, sent, mixed>>

(* poll_read hands a frame of the client to on_recv_frame.                 *)
ClientData(k) ==
  /\ sessions[k] \in Live
  /\ sent[<<"inlet", k>>] < MaxFrames
  /\ sent' = [sent EXCEPT ![<<"inlet", k>>] = @ + 1]
  /\ Out(Msg("data", k))
  /\ UNCHANGED <<life, phase, seed, id, sessions, i2o, o2i, outletVars, mixed>>

(* The select! of a session ends, because the client closed, because of a  *)
(* Close or of the shutdown; on_session_close removes it from the map.     *)
SessionEnds(k) ==
  /\ sessions[k] \in Live
  /\ sessions' = [sessions EXCEPT ![k] = "closing"]
  /\ UNCHANGED <<life, phase, seed, id, output, i2o, o2i, outletVars, sent, mixed>>

(* ... and then sends I2oDisconnect.                                       *)
OnSessionClose(k) ==
  /\ sessions[k] = "closing"
  /\ sessions' = [sessions EXCEPT ![k] = "ended"]
  /\ Out(Msg("disconnect", k))
  /\ UNCHANGED <<life, phase, seed, id, i2o, o2i, outletVars, sent, mixed>>

(* async_receive_output passes a message on.                               *)
Forward ==
  /\ phase # "down"
  /\ output # <<>>
  /\ i2o' = Append(i2o, Head(output))
  /\ output' = Tail(output)
  /\ UNCHANGED <<life, phase, seed, id, sessions, o2i, outletVars, sent, mixed>>

(* stop() takes the input channel away; the input loop ends, and with it   *)
(* the listener.  Every session is told to shut down.                      *)
Stop ==
  /\ phase = "running"
  /\ life < MaxLives
  /\ phase' = "stopping"
  /\ UNCHANGED <<life, seed, id, sessions, output, i2o, o2i, outletVars, sent, mixed>>

ShutdownComplete == \A k \in Keys : sessions[k] \in {"none", "ended"}

(* The last session has dropped shutdown_complete, so the server task is   *)
(* done and the select! of Inlet::start drops the output channel with what *)
(* is still in it.                                                         *)
Stopped ==
  /\ phase = "stopping"
  /\ ShutdownComplete
  /\ phase' = "down"
  /\ output' = <<>>
  /\ UNCHANGED <<life, seed, id, sessions, i2o, o2i, outletVars, sent, mixed>>

StartAgain ==
  /\ phase = "down"
  /\ phase' = "running"
  /\ life' = life + 1
  /\ seed' = 0
  /\ UNCHANGED <<id, sessions, output, i2o, o2i, outletVars, sent, mixed>>

(* Inlet::input_internal.  A Close is queued by "refused" and "disconnect" *)
(* and nothing is written after it; an unknown id is passed over.          *)
InletInput ==
  LET m == Head(o2i)
      known == {k \in DOMAIN id : id[k] = id[m.key] /\ sessions[k] = "open"}
  IN  /\ o2i # <<>>
      /\ phase = "running"
      /\ o2i' = Tail(o2i)
      /\ sessions' = [k \in Keys |-> IF k \in known /\ m.type # "data"
                                       THEN "told" ELSE sessions[k]]
      /\ mixed' = mixed \cup {<<m.key, k>> : k \in
                               IF m.type = "data" THEN known \ {m.key} ELSE {}}
      /\ UNCHANGED <<life, phase, seed, id, output, i2o, outletVars, sent>>

(* No inlet under this tunnel id: the message is dropped.                  *)
UnknownInlet ==
  /\ o2i # <<>>
  /\ phase # "running"
  /\ o2i' = Tail(o2i)
  /\ UNCHANGED <<inletVars, i2o, outletVars, sent, mixed>>

-----------------------------------------------------------------------------
(* The outlet.                                                             *)
Incoming(type) == i2o # <<>> /\ Head(i2o).type = type
From == Head(i2o).key

(* on_i2o_connect, answered "repeated connection" or by a new session.     *)
OnI2oConnect ==
  /\ Incoming("connect")
  /\ i2o' = Tail(i2o)
  /\ IF entry[id[From]] # 0
       THEN /\ ToInlet(Msg("refused", From))
            /\ UNCHANGED outletVars
       ELSE /\ entry' = [entry EXCEPT ![id[From]] = From]
            /\ conns' = [conns EXCEPT ![From] = "open"]
            /\ UNCHANGED o2i
  /\ UNCHANGED <<inletVars, sent, mixed>>

(* on_i2o_send_data: the frame goes to the session that has the id.        *)
OnI2oSendData ==
  /\ Incoming("data")
  /\ i2o' = Tail(i2o)
  /\ mixed' = mixed \cup ({<<From, entry[id[From]]>>} \ {<<From, 0>>, <<From, From>>})
  /\ UNCHANGED <<inletVars, o2i, outletVars, sent>>

(* Mutant: the entry stays for on_session_close to remove.                 *)
UnlinkedLater(n) == entry

Unlinked(n) == [entry EXCEPT ![n] = 0]

OnI2oDisconnect ==
  /\ Incoming("disconnect")
  /\ i2o' = Tail(i2o)
  /\ entry' = Unlinked(id[From])
  /\ conns' = [k \in Keys |-> IF k = entry[id[From]] THEN "told" ELSE conns[k]]
  /\ UNCHANGED <<inletVars, o2i, sent, mixed>>

EndpointData(k) ==
  /\ conns[k] \in Live
  /\ sent[<<"outlet", k>>] < MaxFrames
  /\ sent' = [sent EXCEPT ![<<"outlet", k>>] = @ + 1]
  /\ ToInlet(Msg("data", k))
  /\ UNCHANGED <<inletVars, i2o, outletVars, mixed>>

EndpointCloses(k) ==
  /\ conns[k] = "open"
  /\ conns' = [conns EXCEPT ![k] = "closing"]
  /\ UNCHANGED <<inletVars, i2o, o2i, entry, sent, mixed>>

Removed(n) == [entry EXCEPT ![n] = 0]

(* OutletSession::on_session_close removes whatever has its id.            *)
ConnEnds(k) ==
  /\ conns[k] \in {"told", "closing"}
  /\ conns' = [conns EXCEPT ![k] = "none"]
  /\ entry' = Removed(id[k])
  /\ ToInlet(Msg("disconnect", k))
  /\ UNCHANGED <<inletVars, i2o, sent, mixed>>

-----------------------------------------------------------------------------
Closing == \E k \in Keys : OnSessionClose(k)
Inputs == InletInput \/ UnknownInlet \/ OnI2oConnect \/ OnI2oSendData \/ OnI2oDisconnect
ConnsEnd == \E k \in Keys : ConnEnds(k)

Next ==
  \/ Accept \/ Forward \/ Stop \/ Stopped \/ StartAgain \/ Closing
  \/ Inputs \/ ConnsEnd
  \/ \E k \in Keys : \/ ClientData(k) \/ SessionEnds(k)
                      \/ EndpointData(k) \/ EndpointCloses(k)

Spec == Init /\ [][Next]_vars

-----------------------------------------------------------------------------
(* Types; the output channel keeps within its capacity.                    *)
TypeOK ==
  /\ life \in 1 .. MaxLives
  /\ phase \in {"running", "stopping", "down"}
  /\ seed \in 0 .. Len(id)
  /\ sessions \in [Keys -> {"none", "open", "told", "closing", "ended"}]
  /\ Len(output) <= OutputCap
  /\ entry \in [Keys -> {0} \cup Keys]
  /\ conns \in [Keys -> {"none", "open", "told", "closing"}]

(* An entry of the outlet's map always belongs to a session task that is   *)
(* still there, in spite of closes that remove entries by id alone.        *)
EntryHasTask ==
  \A n \in Keys : entry[n] # 0 => conns[entry[n]] # "none" /\ id[entry[n]] = n

(* Once the inlet's messages have all been handled, the outlet holds no    *)
(* entry for an id whose session has ended in this life: a connection that *)
(* was refused because of a session of an earlier life clears the way, so  *)
(* a session left behind costs one later connection at most.               *)
EndedCleared ==
  phase = "running" /\ output = <<>> /\ i2o = <<>> =>
    \A k \in Len(id) - seed + 1 .. Len(id) :
      sessions[k] = "ended" => entry[id[k]] = 0

(* A frame reaches the session it belongs to and no other, which is what   *)
(* the session id in every message is for.                                 *)
OwnData == mixed = {}

(* A stop comes to an end, and with it the pause of the tunnel.            *)
StopEnds == phase = "stopping" ~> phase = "running"
=============================================================================
