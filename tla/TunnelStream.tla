---------------------------- MODULE TunnelStream ----------------------------
(***************************************************************************)
(* The tunnel of Tunnel implements the promise of Stream: an end is open   *)
(* while its tcp_session::run is in the select!, and what it has taken and *)
(* given is what poll_read read and poll_write wrote.                      *)
(***************************************************************************)
EXTENDS MCTunnel

State(x) ==
  CASE task[x] \in {"none", "spawned"} -> "new"
    [] task[x] = "running" -> "open"
    [] task[x] \in {"ending", "closed"} /\ endedBy[x] = "eof" -> "left"
    [] task[x] \in {"ending", "closed"} /\ endedBy[x] = "write_error" -> "aborted"
    [] OTHER -> "closed"

Promise == INSTANCE Stream WITH
  state  <- [x \in Ends |-> State(x)],
  sent   <- nread,
  got    <- delivered,
  failed <- broken

(* Every behaviour of inlet, outlet and pipes is one of a Stream: what is  *)
(* written to a socket is a prefix of what was read from the other one, no *)
(* frame lost, doubled or swapped, and a session is closed from the other  *)
(* side only when that side is gone, and only after all it sent when it    *)
(* closed its socket itself.                                               *)
ImplementsStream == Promise!Spec
=============================================================================
