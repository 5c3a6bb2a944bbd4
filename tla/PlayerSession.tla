---------------------------- MODULE PlayerSession ----------------------------
(***************************************************************************)
(* The server's view of its clients.  Every connection is served by a Peer *)
(* of its own; a login binds the Peer's session to a Player, of which the  *)
(* server keeps one per account and through which it pushes messages; a    *)
(* new login of the same account throws the old session out; the close of  *)
(* a session unbinds it.  Each Player is behind a lock, and so is the list *)
(* of tunnels that logins, proxied messages and the web administration     *)
(* use.                                                                    *)
(*                                                                         *)
(* A step is the code a task runs between two awaits.  A task that waits   *)
(* for a lock has a request in the lock's queue; a task whose session ends *)
(* is dropped where it waits, with its requests and guards.                *)
(***************************************************************************)
EXTENDS Integers, FairLock

CONSTANTS
  Sessions,    \* session ids of tcp_server, all positive
  Players,     \* the accounts
  NoPlayer,    \* "no player"
  Tunnels,     \* names the lock of TunnelManager.tunnels
  Admin,       \* the web administration, as a task
  Routes,      \* <<from, to>>: the accounts at the two ends of a tunnel
  MaxPushes,   \* bound: proxied messages the peers receive in all
  MaxUpdates   \* bound: changes the administration makes

ASSUME ConstantsAssumption ==
  /\ Sessions \subseteq Nat \ {0}
  /\ NoPlayer \notin Players
  /\ Tunnels \notin Players
  /\ Admin \notin Sessions
  /\ Routes \subseteq Players \X Players
  /\ MaxPushes \in Nat
  /\ MaxUpdates \in Nat

VARIABLES
  pc,          \* where the task of each Peer stands
  player,      \* Peer.player
  route,       \* the tunnel of the proxied message a Peer is handling
  session_id,  \* Player.session_id, 0 when offline; Player.tx goes with it
  outq,        \* WriterMessages from the server to each client
  client,      \* what each connection's client has seen
  lock,        \* the Players' locks and the tunnel list's
  admin,       \* where the administration stands
  notify,      \* players it has yet to notify
  stopping,    \* ctrl_c was pressed
  pushes,      \* number of proxied messages received
  updates      \* number of changes begun

peerVars   == <<pc, player, route>>
adminVars  == <<admin, notify, updates>>
vars == <<peerVars, session_id, outq, client, lock, adminVars, stopping, pushes>>

Offline == 0
NoRoute == <<NoPlayer, NoPlayer>>

Handling == {"query", "bind", "list", "answer", "find", "route", "send", "bounce"}
Alive == {"reading"} \cup Handling
Closing == {"compare", "reset"}
PC == {"none", "closed"} \cup Alive \cup Closing

Init ==
  /\ pc = [s \in Sessions |-> "none"]
  /\ player = [s \in Sessions |-> NoPlayer]
  /\ route = [s \in Sessions |-> NoRoute]
  /\ session_id = [p \in Players |-> Offline]
  /\ outq = [s \in Sessions |-> <<>>]
  /\ client = [s \in Sessions |-> "none"]
  /\ lock = [l \in Players \cup {Tunnels} |-> Free]
  /\ admin = "idle"
  /\ notify = {}
  /\ stopping = FALSE
  /\ pushes = 0
  /\ updates = 0

GoTo(s, next) == pc' = [pc EXCEPT ![s] = next]

(* package_and_send_message to a session: lost once its poll_write is gone.*)
Post(s, message) ==
  outq' = IF s # Offline /\ pc[s] \in Alive
            THEN [outq EXCEPT ![s] = Append(@, message)]
            ELSE outq

(* What happens to a Player, always under its write lock.                  *)
OnConnectSession(p, s) == session_id' = [session_id EXCEPT ![p] = s]
OnDisconnectSession(p) == session_id' = [session_id EXCEPT ![p] = Offline]
CloseSession(p) == Post(session_id[p], "close")

-----------------------------------------------------------------------------
(* Connections and their clients.                                          *)

(* The listener accepts a connection and its session starts.               *)
Connect(s) ==
  /\ pc[s] = "none"
  /\ ~ stopping
  /\ GoTo(s, "reading")
  /\ client' = [client EXCEPT ![s] = "connected"]
  /\ UNCHANGED <<player, route, session_id, outq, lock, adminVars, stopping,
                 pushes>>

(* The client gives up the connection, or loses it.                        *)
ClientLeaves(s) ==
  /\ client[s] \in {"connected", "waiting", "ready"}
  /\ client' = [client EXCEPT ![s] = "gone"]
  /\ UNCHANGED <<peerVars, session_id, outq, lock, adminVars, stopping, pushes>>

(* Client::handle_message: until the login is acknowledged anything else   *)
(* is an error that ends the connection.                                   *)
ClientAfter(state, message) ==
  CASE state = "waiting" /\ message = "ack" -> "ready"
    [] state = "waiting" /\ message # "ack" -> "gone"
    [] OTHER -> state

(* poll_write delivers a message.                                          *)
Deliver(s) ==
  /\ pc[s] \in Alive
  /\ outq[s] # <<>>
  /\ Head(outq[s]) # "close"
  /\ client[s] # "gone"
  /\ client' = [client EXCEPT ![s] = ClientAfter(@, Head(outq[s]))]
  /\ outq' = [outq EXCEPT ![s] = Tail(@)]
  /\ UNCHANGED <<peerVars, session_id, lock, adminVars, stopping, pushes>>

ShutdownSignal ==
  /\ ~ stopping
  /\ stopping' = TRUE
  /\ UNCHANGED <<peerVars, session_id, outq, client, lock, adminVars, pushes>>

-----------------------------------------------------------------------------
(* on_login_request.                                                       *)

(* The request arrives and the account is looked up.  A client sends one   *)
(* per connection; a second one would be refused ("repeat login").         *)
LoginRequest(s) ==
  /\ pc[s] = "reading"
  /\ client[s] = "connected"
  /\ player[s] = NoPlayer
  /\ client' = [client EXCEPT ![s] = "waiting"]
  /\ GoTo(s, "query")
  /\ UNCHANGED <<player, route, session_id, outq, lock, adminVars, stopping,
                 pushes>>

LoginRefused(s) ==
  /\ pc[s] = "query"
  /\ Post(s, "error")
  /\ GoTo(s, "reading")
  /\ UNCHANGED <<player, route, session_id, client, lock, adminVars, stopping,
                 pushes>>

(* The account is p's: the Peer is given the Player, then asks for its     *)
(* lock.                                                                   *)
LoginAccepted(s, p) ==
  /\ pc[s] = "query"
  /\ player' = [player EXCEPT ![s] = p]
  /\ lock' = [lock EXCEPT ![p] = Request(@, s, "write")]
  /\ GoTo(s, "bind")
  /\ UNCHANGED <<route, session_id, outq, client, adminVars, stopping, pushes>>

(* Mutant: on_connect_session is given the account for the session id.     *)
LoginBindSwapped(s) ==
  LET p == player[s]
  IN  /\ pc[s] = "bind"
      /\ Granted(lock[p], s)
      /\ Post(session_id[p], "close")
      /\ session_id' = [session_id EXCEPT ![p] = p]
      /\ lock' = [lock EXCEPT ![p] = Hold(@),
                              ![Tunnels] = Request(@, s, "read")]
      /\ GoTo(s, "list")
      /\ UNCHANGED <<player, route, client, adminVars, stopping, pushes>>

(* Mutant: the old session is replaced without being told.                 *)
LoginBindQuiet(s) ==
  LET p == player[s]
  IN  /\ pc[s] = "bind"
      /\ Granted(lock[p], s)
      /\ session_id' = [session_id EXCEPT ![p] = s]
      /\ lock' = [lock EXCEPT ![p] = Hold(@),
                              ![Tunnels] = Request(@, s, "read")]
      /\ GoTo(s, "list")
      /\ UNCHANGED <<player, route, outq, client, adminVars, stopping, pushes>>

(* on_terminate_old_session, if the Player is online, and                  *)
(* on_connect_session; then, with the Player still locked, the list of     *)
(* tunnels is asked for.                                                   *)
LoginBind(s) ==
  LET p == player[s]
  IN  /\ pc[s] = "bind"
      /\ Granted(lock[p], s)
      /\ CloseSession(p)
      /\ OnConnectSession(p, s)
      /\ lock' = [lock EXCEPT ![p] = Hold(@),
                              ![Tunnels] = Request(@, s, "read")]
      /\ GoTo(s, "list")
      /\ UNCHANGED <<player, route, client, adminVars, stopping, pushes>>

(* Mutant: the guard on the Player outlives the login.                     *)
LoginListHolding(s) ==
  /\ pc[s] = "list"
  /\ Granted(lock[Tunnels], s)
  /\ lock' = [lock EXCEPT ![Tunnels] = Pass(@)]
  /\ GoTo(s, "answer")
  /\ UNCHANGED <<player, route, session_id, outq, client, adminVars, stopping,
                 pushes>>

LoginList(s) ==
  /\ pc[s] = "list"
  /\ Granted(lock[Tunnels], s)
  /\ lock' = [lock EXCEPT ![player[s]] = Release(@, s), ![Tunnels] = Pass(@)]
  /\ GoTo(s, "answer")
  /\ UNCHANGED <<player, route, session_id, outq, client, adminVars, stopping,
                 pushes>>

(* on_recv_frame sends the LoginAck.                                       *)
LoginAnswer(s) ==
  /\ pc[s] = "answer"
  /\ Post(s, "ack")
  /\ GoTo(s, "reading")
  /\ UNCHANGED <<player, route, session_id, client, lock, adminVars, stopping,
                 pushes>>

-----------------------------------------------------------------------------
(* Peer::handle_push and ProxyManager::send_proxy_message.                 *)

(* A proxied message arrives; its tunnel is looked up.                     *)
PushRequest(s) ==
  /\ pc[s] = "reading"
  /\ client[s] = "ready"
  /\ pushes < MaxPushes
  /\ pushes' = pushes + 1
  /\ lock' = [lock EXCEPT ![Tunnels] = Request(@, s, "read")]
  /\ GoTo(s, "find")
  /\ UNCHANGED <<player, route, session_id, outq, client, adminVars, stopping>>

PushUnknown(s) ==
  /\ pc[s] = "find"
  /\ Granted(lock[Tunnels], s)
  /\ lock' = [lock EXCEPT ![Tunnels] = Pass(@)]
  /\ GoTo(s, "reading")
  /\ UNCHANGED <<player, route, session_id, outq, client, adminVars, stopping,
                 pushes>>

(* The guard on the list is kept, by the reference to the tunnel, until    *)
(* the message has been sent on.                                           *)
PushFind(s, r) ==
  /\ pc[s] = "find"
  /\ Granted(lock[Tunnels], s)
  /\ route' = [route EXCEPT ![s] = r]
  /\ lock' = [lock EXCEPT ![Tunnels] = Hold(@), ![r[2]] = Request(@, s, "read")]
  /\ GoTo(s, "route")
  /\ UNCHANGED <<player, session_id, outq, client, adminVars, stopping, pushes>>

(* is_online: the message goes on to the player, or an answer goes back to *)
(* the tunnel's other end.                                                 *)
PushRoute(s) ==
  LET from == route[s][1]
      to == route[s][2]
      online == session_id[to] # Offline
      next == IF online THEN to ELSE from
      passed == [lock EXCEPT ![to] = Pass(@)]
  IN  /\ pc[s] = "route"
      /\ Granted(lock[to], s)
      /\ lock' = [passed EXCEPT ![next] = Request(@, s, "read")]
      /\ GoTo(s, IF online THEN "send" ELSE "bounce")
      /\ UNCHANGED <<player, route, session_id, outq, client, adminVars,
                     stopping, pushes>>

(* A message that asks for no answer is dropped when the player is offline.*)
PushDrop(s) ==
  LET to == route[s][2]
      passed == [lock EXCEPT ![to] = Pass(@)]
  IN  /\ pc[s] = "route"
      /\ Granted(lock[to], s)
      /\ session_id[to] = Offline
      /\ lock' = [passed EXCEPT ![Tunnels] = Release(@, s)]
      /\ route' = [route EXCEPT ![s] = NoRoute]
      /\ GoTo(s, "reading")
      /\ UNCHANGED <<player, session_id, outq, client, adminVars, stopping,
                     pushes>>

PushSend(s) ==
  LET p == IF pc[s] = "send" THEN route[s][2] ELSE route[s][1]
  IN  /\ pc[s] \in {"send", "bounce"}
      /\ Granted(lock[p], s)
      /\ Post(session_id[p], "push")
      /\ lock' = [lock EXCEPT ![p] = Pass(@), ![Tunnels] = Release(@, s)]
      /\ route' = [route EXCEPT ![s] = NoRoute]
      /\ GoTo(s, "reading")
      /\ UNCHANGED <<player, session_id, client, adminVars, stopping, pushes>>

-----------------------------------------------------------------------------
(* The end of a session: tcp_session::run's select! drops the handler, and *)
(* Peer::on_session_close follows.                                         *)

Withdrawn(s) == [l \in DOMAIN lock |-> Withdraw(lock[l], s)]

(* Mutant: the Peer is given its Player only when the login is done.       *)
SelectReturnsForgetful(s) ==
  /\ IF player[s] = NoPlayer \/ pc[s] \in {"bind", "list"}
       THEN /\ GoTo(s, "closed")
            /\ lock' = Withdrawn(s)
       ELSE /\ GoTo(s, "compare")
            /\ lock' = [Withdrawn(s) EXCEPT ![player[s]] = Request(@, s, "read")]
  /\ outq' = [outq EXCEPT ![s] = <<>>]
  /\ client' = [client EXCEPT ![s] = "gone"]
  /\ route' = [route EXCEPT ![s] = NoRoute]
  /\ UNCHANGED <<player, session_id, adminVars, stopping, pushes>>

SelectReturns(s) ==
  /\ IF player[s] = NoPlayer
       THEN /\ GoTo(s, "closed")
            /\ lock' = Withdrawn(s)
       ELSE /\ GoTo(s, "compare")
            /\ lock' = [Withdrawn(s) EXCEPT ![player[s]] = Request(@, s, "read")]
  /\ outq' = [outq EXCEPT ![s] = <<>>]
  /\ client' = [client EXCEPT ![s] = "gone"]
  /\ route' = [route EXCEPT ![s] = NoRoute]
  /\ UNCHANGED <<player, session_id, adminVars, stopping, pushes>>

(* poll_read sees the end of the stream, once the handler has returned.    *)
ReadEof(s) ==
  /\ pc[s] = "reading"
  /\ client[s] = "gone"
  /\ SelectReturns(s)

(* poll_write meets Close.                                                 *)
WriterClose(s) ==
  /\ pc[s] \in Alive
  /\ outq[s] # <<>>
  /\ Head(outq[s]) = "close"
  /\ SelectReturns(s)

(* poll_write cannot write to a lost connection.                           *)
WriteError(s) ==
  /\ pc[s] \in Alive
  /\ outq[s] # <<>>
  /\ client[s] = "gone"
  /\ SelectReturns(s)

Shutdown(s) ==
  /\ pc[s] \in Alive
  /\ stopping
  /\ SelectReturns(s)

(* Mutant: the read guard lives on while the write lock is asked for.      *)
CloseCompareHolding(s) ==
  LET p == player[s]
  IN  /\ pc[s] = "compare"
      /\ Granted(lock[p], s)
      /\ IF session_id[p] = s
           THEN /\ lock' = [lock EXCEPT ![p] = Request(Hold(@), s, "write")]
                /\ GoTo(s, "reset")
           ELSE /\ lock' = [lock EXCEPT ![p] = Pass(@)]
                /\ GoTo(s, "closed")
      /\ UNCHANGED <<player, route, session_id, outq, client, adminVars,
                     stopping, pushes>>

(* Is the Player still bound to this session?  The guard is dropped with   *)
(* the answer, before the write lock is asked for.                         *)
CloseCompare(s) ==
  LET p == player[s]
  IN  /\ pc[s] = "compare"
      /\ Granted(lock[p], s)
      /\ IF session_id[p] = s
           THEN /\ lock' = [lock EXCEPT ![p] = Request(Pass(@), s, "write")]
                /\ GoTo(s, "reset")
           ELSE /\ lock' = [lock EXCEPT ![p] = Pass(@)]
                /\ GoTo(s, "closed")
      /\ UNCHANGED <<player, route, session_id, outq, client, adminVars,
                     stopping, pushes>>

(* on_disconnect_session.                                                  *)
CloseReset(s) ==
  LET p == player[s]
  IN  /\ pc[s] = "reset"
      /\ Granted(lock[p], s)
      /\ OnDisconnectSession(p)
      /\ lock' = [lock EXCEPT ![p] = Pass(@)]
      /\ GoTo(s, "closed")
      /\ UNCHANGED <<player, route, outq, client, adminVars, stopping, pushes>>

-----------------------------------------------------------------------------
(* The administration changes a tunnel (add_tunnel, update_tunnel): the    *)
(* list is consulted, the players at its ends are notified, the list is    *)
(* written, and the server's own inlets and outlets are brought in line    *)
(* with it (sync_tunnels).                                                 *)

PeersUnchanged == UNCHANGED <<peerVars, session_id, client, stopping, pushes>>

(* ps are the players at the ends of the tunnel, the server left out.      *)
AdminStart(ps) ==
  /\ admin = "idle"
  /\ updates < MaxUpdates
  /\ updates' = updates + 1
  /\ notify' = ps
  /\ lock' = [lock EXCEPT ![Tunnels] = Request(@, Admin, "read")]
  /\ admin' = "check"
  /\ UNCHANGED outq
  /\ PeersUnchanged

(* tunnel_detection, the search for the tunnel and the database: the       *)
(* change is refused, or made in the database.                             *)
AdminCheck(ok) ==
  /\ admin = "check"
  /\ Granted(lock[Tunnels], Admin)
  /\ lock' = [lock EXCEPT ![Tunnels] = Pass(@)]
  /\ admin' = IF ok THEN "next" ELSE "idle"
  /\ notify' = IF ok THEN notify ELSE {}
  /\ UNCHANGED <<updates, outq>>
  /\ PeersUnchanged

AdminNext(p) ==
  /\ admin = "next"
  /\ p \in notify
  /\ lock' = [lock EXCEPT ![p] = Request(@, Admin, "read")]
  /\ admin' = "notify"
  /\ UNCHANGED <<notify, updates, outq>>
  /\ PeersUnchanged

(* broadcast_tunnel_info.                                                  *)
AdminNotify(p) ==
  /\ admin = "notify"
  /\ Granted(lock[p], Admin)
  /\ Post(session_id[p], "push")
  /\ lock' = [lock EXCEPT ![p] = Pass(@)]
  /\ notify' = notify \ {p}
  /\ admin' = "next"
  /\ UNCHANGED updates
  /\ PeersUnchanged

AdminStore ==
  /\ admin = "next"
  /\ notify = {}
  /\ lock' = [lock EXCEPT ![Tunnels] = Request(@, Admin, "write")]
  /\ admin' = "store"
  /\ UNCHANGED <<notify, updates, outq>>
  /\ PeersUnchanged

AdminStored ==
  /\ admin = "store"
  /\ Granted(lock[Tunnels], Admin)
  /\ lock' = [lock EXCEPT ![Tunnels] = Request(Pass(@), Admin, "read")]
  /\ admin' = "sync"
  /\ UNCHANGED <<notify, updates, outq>>
  /\ PeersUnchanged

AdminSync ==
  /\ admin = "sync"
  /\ Granted(lock[Tunnels], Admin)
  /\ lock' = [lock EXCEPT ![Tunnels] = Pass(@)]
  /\ admin' = "idle"
  /\ UNCHANGED <<notify, updates, outq>>
  /\ PeersUnchanged

-----------------------------------------------------------------------------
Login(s) ==
  \/ LoginRefused(s)
  \/ \E p \in Players : LoginAccepted(s, p)
  \/ LoginBind(s)
  \/ LoginList(s)
  \/ LoginAnswer(s)

Push(s) ==
  \/ PushUnknown(s)
  \/ \E r \in Routes : PushFind(s, r)
  \/ PushRoute(s)
  \/ PushDrop(s)
  \/ PushSend(s)

Writer(s) == Deliver(s) \/ WriterClose(s) \/ WriteError(s)

Close(s) == CloseCompare(s) \/ CloseReset(s)

Administer ==
  \/ \E ok \in BOOLEAN : AdminCheck(ok)
  \/ \E p \in Players : AdminNext(p) \/ AdminNotify(p)
  \/ AdminStore
  \/ AdminStored
  \/ AdminSync

Next ==
  \/ \E s \in Sessions :
       \/ Connect(s)
       \/ ClientLeaves(s)
       \/ LoginRequest(s)
       \/ PushRequest(s)
       \/ Login(s)
       \/ Push(s)
       \/ Writer(s)
       \/ ReadEof(s)
       \/ Shutdown(s)
       \/ Close(s)
  \/ \E ps \in SUBSET Players : AdminStart(ps)
  \/ Administer
  \/ ShutdownSignal

Spec == Init /\ [][Next]_vars

(* Every task of the server that can go on eventually does; clients, the   *)
(* administrator and the network owe nothing.                              *)
Fairness ==
  /\ WF_vars(Administer)
  /\ \A s \in Sessions :
       /\ WF_vars(Login(s))
       /\ WF_vars(Push(s))
       /\ WF_vars(Writer(s))
       /\ WF_vars(ReadEof(s))
       /\ WF_vars(Shutdown(s))
       /\ WF_vars(Close(s))

FairSpec == Spec /\ Fairness

-----------------------------------------------------------------------------
(* What the server promises.                                               *)

Guard == (Sessions \cup {Admin}) \X {"read", "write"}

TypeOK ==
  /\ pc \in [Sessions -> PC]
  /\ player \in [Sessions -> Players \cup {NoPlayer}]
  /\ route \in [Sessions -> Routes \cup {NoRoute}]
  /\ session_id \in [Players -> Sessions \cup {Offline}]
  /\ outq \in [Sessions -> Seq({"ack", "error", "push", "close"})]
  /\ client \in [Sessions -> {"none", "connected", "waiting", "ready", "gone"}]
  /\ DOMAIN lock = Players \cup {Tunnels}
  /\ \A l \in DOMAIN lock :
       lock[l].held \subseteq Guard /\ lock[l].queue \in Seq(Guard)
  /\ admin \in {"idle", "check", "next", "notify", "store", "sync"}
  /\ notify \subseteq Players
  /\ stopping \in BOOLEAN
  /\ pushes \in 0 .. MaxPushes
  /\ updates \in 0 .. MaxUpdates

(* A Player is never left bound to a session that is over, or to one that  *)
(* logged in as somebody else, wherever the session's task was dropped: a  *)
(* push to an online player has a live connection to go to.                *)
NoDangling ==
  \A p \in Players :
    session_id[p] # Offline =>
      LET s == session_id[p]
      IN  /\ player[s] = p
          /\ pc[s] \in (Alive \ {"query", "bind"}) \cup Closing

LoggedIn(s) == player[s] # NoPlayer /\ pc[s] \in Alive \ {"query", "bind"}
Told(s) == \E i \in 1 .. Len(outq[s]) : outq[s][i] = "close"

(* "The user has logged in; bind the session to the Player": a session     *)
(* that logged in stays bound to its Player until it is told to close or   *)
(* the server stops.                                                       *)
LoggedInIsBound ==
  \A s \in Sessions :
    LoggedIn(s) /\ ~ stopping => session_id[player[s]] = s \/ Told(s)

(* The one way a live session loses its Player without being told is the   *)
(* late reset by an older session of the same account, one that found      *)
(* itself bound before the new login and was closed after it.              *)
LostOnlyToOlder ==
  \A s \in Sessions :
    LoggedIn(s) =>
      \/ session_id[player[s]] = s
      \/ Told(s)
      \/ \E t \in Sessions \ {s} : player[t] = player[s] /\ pc[t] = "closed"

(* "A request must not go unanswered": on_login_request comes to an end,   *)
(* or the session does.                                                    *)
LoginAnswered ==
  \A s \in Sessions :
    pc[s] \in {"query", "bind", "list", "answer"}
      ~> pc[s] \notin {"query", "bind", "list", "answer"}

(* A session that is thrown out, or whose connection is lost, comes to its *)
(* end and leaves no Player bound to it.                                   *)
SessionsEnd ==
  \A s \in Sessions :
    Told(s) \/ client[s] = "gone"
      ~> pc[s] = "closed" /\ \A p \in Players : session_id[p] # s
=============================================================================
