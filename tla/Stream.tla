------------------------------- MODULE Stream -------------------------------
(***************************************************************************)
(* What a TCP tunnel promises to the two programs it connects, without     *)
(* inlets, outlets, messages and credit: each session is a pair of ends,   *)
(* and what is taken at one end is given at the other, in order, until the *)
(* session is over; an end that hangs up after its last byte has the whole *)
(* of it delivered before the other end is closed in turn.                 *)
(***************************************************************************)
EXTENDS Naturals, Sequences

CONSTANT Sessions

VARIABLES
  state,   \* "new", "open", "left", "aborted" or "closed", of each end
  sent,    \* how many frames were taken at an end
  got,     \* the frames given at an end, each by its number among those taken
  failed   \* ends whose program takes nothing more

vars == <<state, sent, got, failed>>

Ends == {"inlet", "outlet"} \X Sessions
Peer(x) == <<IF x[1] = "inlet" THEN "outlet" ELSE "inlet", x[2]>>

Init ==
  /\ state = [x \in Ends |-> "new"]
  /\ sent = [x \in Ends |-> 0]
  /\ got = [x \in Ends |-> <<>>]
  /\ failed = {}

Becomes(x, s) == state' = [state EXCEPT ![x] = s] /\ UNCHANGED <<sent, got, failed>>

(* A client connects; the endpoint is connected for it.                    *)
Open(x) ==
  /\ state[x] = "new"
  /\ x[1] = "outlet" => state[Peer(x)] # "new"
  /\ Becomes(x, "open")

Take(x) ==
  /\ state[x] = "open"
  /\ sent' = [sent EXCEPT ![x] = @ + 1]
  /\ UNCHANGED <<state, got, failed>>

Give(x) ==
  /\ state[x] = "open"
  /\ x \notin failed
  /\ Len(got[x]) < sent[Peer(x)]
  /\ got' = [got EXCEPT ![x] = Append(@, Len(@) + 1)]
  /\ UNCHANGED <<state, sent, failed>>

Fail(x) ==
  /\ state[x] = "open"
  /\ failed' = failed \cup {x}
  /\ UNCHANGED <<state, sent, got>>

(* The program at x hangs up, or x cannot write to it.                     *)
Leave(x) == state[x] = "open" /\ Becomes(x, "left")
Abort(x) == state[x] = "open" /\ Becomes(x, "aborted")

(* The tunnel hangs up on the program: its counterpart is not there (any   *)
(* more), and if that hung up in order nothing of it is missing.           *)
Close(x) ==
  /\ state[x] = "open"
  /\ state[Peer(x)] # "open"
  /\ state[Peer(x)] = "left" /\ x \notin failed => Len(got[x]) = sent[Peer(x)]
  /\ Becomes(x, "closed")

Next ==
  \E x \in Ends :
    Open(x) \/ Take(x) \/ Give(x) \/ Fail(x) \/ Leave(x) \/ Abort(x) \/ Close(x)

Spec == Init /\ [][Next]_vars
=============================================================================
