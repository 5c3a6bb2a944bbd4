# npipe in TLA+

npipe is a tunnelling proxy. A server (`np_server`) and its clients (`np_client`,
called *players*) carry TCP, UDP and SOCKS5 connections from an *inlet*, which
accepts them, to an *outlet*, which connects to the endpoint. This directory holds
TLA+ models of its parts, the TLC configurations that check them on small
instances, and the TLAPS proofs of their main properties.

## The system

| Part | State | Operations | What is hard |
|---|---|---|---|
| Inlet, outlet (`np_base/src/proxy`) | `session_info_map`, `read_buf_len` per session, input and output channels | `input_internal` of each side, `on_session_start`, `on_recv_frame`, `on_session_close`, `start`, `stop` | two ends that open and close on their own, flow control across four queues, data that follows a connect at once, ids reused after a restart |
| TCP session, server (`np_base/src/net`) | writer queue, read buffer, id seed | `run`, `poll_read`, `poll_write`, `start_server` | the loser of the `select!` is dropped at any await |
| UDP server, session | session table by address, bounded queue, last-active time | `run_server`, `run`, `poll_timeout` | idle timeout against a new datagram |
| SOCKS5 (`proxy/socks5`) | `Status`, buffer, task | `recv_frame`, `on_recv_proxy_message` | one lock for both directions, repeated `O2iConnect` |
| Peers, players (`np_server/src/peer`, `player`) | `Peer.player`, `Player.session_id`, `Player.tx` | `on_login_request`, `handle_push`, `on_session_close` | an account that logs in twice, check and act under two locks, cycles of locks |
| Managers (`np_server/src/global/manager`) | lists of players and tunnels, inlets, outlets, database | add, delete, update, `sync_tunnels`, `send_proxy_message` | indices that are stale after an await, notifications before the change |
| Client (`np_client`) | `player_id`, `tunnels`, inlets, outlets | `run_client`, `handle_message`, `sync_tunnels`, reconnect loop | pushes before the login answer, deletions that do not stop a tunnel |
| Framing, bridge, crypto, validators | byte buffers | pure functions | cuts at any byte, limits |
| Web administration, start-up, Windows service | the administrator's session, the state of the service | calls of the managers, paging, the control handler | lists that change between two pages, a stop at any moment |

A message from a client connection goes: inlet session -> inlet output channel ->
client's connection to the server -> `handle_push` -> `send_proxy_message` -> the
other player's connection -> outlet input channel -> outlet session -> endpoint; the
answers go the same way back. Either end may be on the server itself.

## Modules

| Module | What it is |
|---|---|
| `Tunnel` | one TCP tunnel: both ends of its sessions and the two pipes between them |
| `Stream`, `TunnelStream` | what a tunnel promises the programs it connects; the mapping under which `Tunnel` implements it |
| `InletRestart` | an inlet that is stopped and started again under an outlet that lives on |
| `UdpServer` | the UDP server, its table of sessions and their idle timeout |
| `Socks5` | one SOCKS5 session: handshake, requests, the lock of its context |
| `Socks5Udp`, `Codec` | a SOCKS5 UDP association; what compression and encryption do to a frame |
| `TargetAddr`, `AddrReader` | the address codec of SOCKS5, and an address read from any cuts |
| `PlayerSession`, `FairLock` | connections, logins, eviction, pushes and the locks of the server; tokio's `RwLock` as the server relies on it (external) |
| `Accounts` | the player manager: registration, change and deletion of accounts beside logins |
| `TunnelAdmin` | the tunnels in the database, in the server's list and at the clients, through requests, logins and restarts |
| `Proxies`, `ProxySync` | `sync_tunnels` as one operator, and the server's step by step |
| `Detection` | what a tunnel is tested for before it is stored |
| `Pages` | the administrator's login and the lists read page by page |
| `Routing` | how a proxied message finds the other end of its tunnel |
| `Framing` | the byte stream between client and server, cut into frames |
| `ClientLife` | connect, log in, ping, reconnect; the Windows service |
| `MCTunnel`, `MCPlayerSession` | instances of `Tunnel` and `PlayerSession` for TLC |
| `MCTunnelAdmin`, `MCServer`, `MCNet`, `MCSocks5` | instances of the other components for TLC |
| `Totals` | the sum of a sequence as the size of a set of cells |
| `TunnelProofs`, `TunnelStreamProofs`, `TunnelCreditProofs` | theorems about `Tunnel` and `Stream` |
| `PlayerSessionProofs` | theorems about `PlayerSession` and, as `A`, `Accounts` |
| `RoutingProofs` | theorems about `Routing` and, as `T`, `TunnelAdmin` |
| `TunnelAdminProofs` | theorems about `ProxySync` and, as `D`, `W` and `L`, `Detection`, `Pages` and `ClientLife` |
| `NetProofs` | theorems about `UdpServer` and, as `F`, `R` and `A`, `Framing`, `InletRestart` and `AddrReader` |
| `Socks5Proofs` | theorems about `Socks5` |

Definitions that begin with the comment "Mutant:" are defective variants of the
definition after them. They belong to no specification; each one breaks a property
when it takes its original's place, which shows that the property depends on it.

The last four MC modules hold several instances each. A variable `part` is chosen in
the initial state and never changes; a behaviour takes steps of the instance it
names and the variables of the others stay as they began. The instances share no
variable, so a run of the module explores their union, and a property is a
conjunction over the parts it speaks of.

A step of a module is what a task does between two awaits. A lock taken and dropped
between two awaits is not a variable; the ones held across an await are.

### Tunnel, Stream

A session `s` has two ends, `<<"inlet", s>>` and `<<"outlet", s>>`. Each is a
`tcp_session::run`: `task` is its life cycle, `registered` its side's
`session_info_map`, `reader`, `hand` and `read_buf_len` stand for `poll_read` and
`encode_data_and_limiting`, `writeq` and `acking` for `poll_write` and the callback
of `SendAndThen`. `pipe[e]` is everything on its way to side `e`: the bounded output
channel, the connection through the server and the unbounded input channel all keep
the order, and a full channel only delays its sender.

Each handler of `Inlet::input_internal` and `Outlet::input_internal` is an action.
`on_i2o_connect` awaits inside the outlet's loop, so it is three: up to the spawn
(`OnI2oConnect`), the end of the wait (`ConnectDone`) and its timeout
(`ConnectTimeout`); while `connecting` is set the loop takes no other message.
`on_session_start` and `on_session_close` are one step each: their only awaits are on
the map's lock and on the output channel. When a loop returns, `SelectReturns` drops
the other where it stands: the frame in hand, the queue and the pending
acknowledgement are lost.

Abstractions. A payload is a frame number and a length, the length on the wire,
which both ends count. A socket accepts a frame, reports a failed flush (then the
code still acknowledges) or fails. The spawned outlet session may start late
(`SlowSpawn`); with `SlowSpawn = FALSE` the runtime starts it within the 2 s that
`on_i2o_connect` waits. Ids are used once, so the module covers one lifetime of the
inlet; `InletRestart` covers several. `nread`, `delivered` and `endedBy` are history.

`Stream` knows nothing of messages and credit: an end is new, open, left, aborted or
closed; a frame taken at one end is given at the other, next in order; an end is
closed from outside only when its peer is gone, and, if the peer left after its last
byte, only after all of it was given. `TunnelStream` maps an end to open while its
`tcp_session::run` is in the `select!`, and what it has taken and given to what
`poll_read` read and `poll_write` wrote.

### InletRestart

A change of a tunnel's port or type stops the inlet and starts another, which numbers
its sessions from 1 again, while the outlet keeps its own by id. `phase` follows
`stop` and `start`, `output` is the inlet's bounded channel, whose contents `stop`
drops with its task, `entry` is the outlet's `session_info_map` and `conns` its
session tasks. A session's key (its place among all that were accepted) is history:
the code sees the id alone. Credit is left to `Tunnel`.

### UdpServer

The receive loop looks an address up, inserts a session and sends it the datagram
under three separate locks (`Lookup`, `Insert`, `SendToSession`); a session starts,
takes datagrams, writes, times out or quits, and removes its address at the end. Time
is counted in ticks up to a cap: the code compares ages with the timeout and with a
second only. `last_active_time` is rewritten only when it is a second old, as in the
code; `idle` is the true age, kept as history.

### Socks5, Socks5Udp, Codec, TargetAddr, AddrReader

Three tasks share a context under one lock: `poll_read` with the client's bytes, the
input task with the outlet's messages, and the close. The client sends each message
of the handshake after the reply to the one before, in pieces of any size; a message
is its length and what the code tests of it. A frame that waits for credit keeps the
lock. The outlet is what `Tunnel` shows it to be, seen from here. A password message
that arrives in pieces is read past its end, which ends the task by a panic: this is
a state of its own (`life = "panicked"`). A request with an unsupported command is
answered after its head; what the code leaves of it in the buffer is taken for the
head of another request, and the model takes that one to be unsupported again.

`Socks5Udp` follows datagrams through both ends with the outlet's credit. Data is the
sequence of transformations its bytes went through (`Codec`); undoing one that is not
outermost fails. `TargetAddr` writes and reads addresses byte by byte, since cuts and
lengths are what its properties are about; `AddrReader` feeds `read_address` every
cut of an address and of what follows it.

### PlayerSession

A step is the code a task runs between two awaits. `pc[s]` is where the task of the
Peer of session `s` stands: reading; in `on_login_request` (`query`, `bind`, `list`,
`answer`); in `handle_push` (`find`, `route`, `send`, `bounce`); in
`on_session_close` (`compare`, `reset`). A guard that is dropped before the next
await is taken and dropped within the step; the two that live across awaits are the
Player's write guard of a login and the tunnel list's read guard of a proxied
message, a temporary of the `if let` in `handle_push`. `SelectReturns` withdraws the
requests and guards of the dropped handler.

Abstractions. The database accepts or refuses a login. `outq` is the writer queue
and the connection to the client; `client` keeps what `Client::handle_message`
distinguishes. The administration is one task that changes tunnels as `add_tunnel`
and `update_tunnel` do: consult the list and the database, notify, store, sync; what is
stored is the subject of `TunnelAdmin`. Messages for the
server's own inlets and outlets take no Player's lock and are left out here; `Routing`
has them.

### Accounts, Pages, Detection

`Accounts` has `add_player`, `update_player` and `delete_player` with every await
between their checks and their changes, the table, the list and the map of Players,
and logins as the two awaits between the check of the password and the binding.
`Pages` has the web login and the walk through the pages: `query` takes the length
under one guard and the slice under the next, and a list that shrank in between makes
the slice panic, a state of its own. `Detection` has `tunnel_detection` with the
helpers of `utils/str.rs`; an address is its form (IPv4, IPv6, name, other) and port.

### TunnelAdmin, Proxies, ProxySync

A request of the administration is a task with a program counter through the checks,
the database, the notices to the clients, the list and the synchronisation. A client
is its connection and its map of tunnels, `channel` what is on its way to it, `ack`
the list a login has read and not yet sent. `Restart` stops the server anywhere and
starts it from the table, in the order of its keys (`Loaded`). A tunnel is its id, whether it is enabled, its two players,
port and type; every other field that `inlet_description` prints behaves as the port.
A client's `sync_tunnels` is one step, since nothing else touches its proxies
meanwhile. The server's runs of several requests overlap: `ProxySync` has each of
their steps, the two map locks, and the guards that an `if let` keeps until the
removed proxy has stopped.

### Routing, Framing, ClientLife

`Routing` places the ends of a tunnel on the server and two clients in every way, and
follows each of the ten kinds of message through the closures of the proxies, the
client's and the server's `handle_push`, `send_proxy_message` and the bridge's
translation; players leave, and an update moves the ends while messages travel.
`Framing` has the tasks that write through one mutex, `write_all` in pieces, the
reader's loop over its buffer, its limits, and the forwarding of traffic that is not
ours. A byte is `<<task, frame, position>>`; a frame ends at the byte with its last
position (`Ends`), and `WholeFrames` compares the n-th frame delivered with the n-th
that ends in the stream. `ClientLife` has the reconnect loop, the
handshakes, the login, pings, pushes, connections that close or go dead without a
word, and the Windows service's control handler.

## Runs

| Run | Instances | Result |
|---|---|---|
| `tunnel_safety` | 1 session, frames of length 1 and 2, limit 1, 2 frames up, 1 down; with fairness | passes |
| `tunnel_two` | 2 interchangeable sessions, 1 frame up each, limit 0 | passes |
| `tunnel_slow` | `SlowSpawn`, 3 frames up | passes |
| `player_safety` | 2 connections, 2 accounts, 1 proxied message, 1 update | passes |
| `player_three` | 3 connections, 1 account | passes |
| `player_live` | 2 connections, 2 accounts, 1 proxied message, no update; with fairness | passes |
| `tunnel_admin` | `TunnelAdmin` three times, `ProxySync`, `Detection` | passes |
| `server` | `Accounts`, `Pages` twice, `Routing` twice; with fairness | passes |
| `net` | `Framing` four times, `UdpServer`, `InletRestart` and `ClientLife` twice; with fairness | passes |
| `socks5` | `Socks5` three times, `Socks5Udp`, `AddrReader`; with fairness | passes |
| `player_race` | 2 connections, 1 account | violated |
| `login_deadlock` | 2 connections, 2 accounts, 1 proxied message, 1 update; with fairness | violated |

### What they check

Tunnel. `ImplementsStream`: `Tunnel` implements `Stream`; what is written to a socket
is a prefix of what was read from the other. `GracefulClose`: nothing is lost when a
peer closes after its last byte, also with a second session in the same loops.
`CreditCovers`, `CreditExact`, `BoundedInFlight`: the count of flow control covers,
and while both ends run equals, what is under way, and bounds it. `DisconnectLast`:
no data or acknowledgement follows a disconnect. `ClosedByPeer`: an end is closed
only for its own session's sake. `Teardown`, `FramesArrive`: a session over at one
side ends at the other, and throttling stops no frame for good. `InOrder`: what
remains true of the stream when a session starts late.

Players. `NoDangling`: no Player is bound to a session that is over or is another
account's. `LostOnlyToOlder`: how a live session can lose its Player.
`LoginAnswered`, `SessionsEnd`: logins and closes come to an end.

Tunnel administration. `ListMatchesDb`: between requests the list has exactly the rows
of the table; requests that overlap but delete nothing leave both with the same
tunnels, each once, and write to the index they looked up. `CopiesAgree`: a client
that has caught up knows exactly its own tunnels, in whatever order login, notices and
a restart came. `NeededRuns`: each enabled tunnel runs at both its hosts with its
current description, and the server runs no others. `NoSharedPort`: no two tunnels of
a receiver have one IPv4 port, and it has one IPv6 source at most. `Converged`:
overlapping synchronisations give each port to one inlet, never wait for each other in
a circle, and leave the proxies of the list.

Server. `AccountsIntact`: between requests each account has its Player in list and
map, a password that was answered "Success" is the one stored, a deletion closes its
own player's session. `WalkComplete`: a walk over a list that does not change shows
each entry once and in order; without a web user it shows none. `RightEnd`: a message
lands at the end it is for and at no other, and one whose player is offline is
answered if its sender waits. `Settles`: every message comes to rest, also while
client and server disagree on who hosts an end, and every walk ends.

Net. `WholeFrames`: frames are delivered whole, once and in order however they are
cut; other traffic is forwarded without a gap; a connection is refused only for what
it sent. `OneOwner`: an address is in the UDP map exactly while its session is not
finished, no session is closed before its time, a datagram is lost only when its
session ends meanwhile. `RightSession`: an entry of the outlet's map has its task,
none stays for a session of this life that ended, and within a life frames stay with
their session. `FreshStart`: nothing of the last connection is left when the client
connects, and a pong is never taken for the login's answer. `Recovers`: once
connections stop failing the client is logged in for good. `EndsWhenDue`: a stop of
an inlet, an idle UDP session, a service told to stop, and the wait of a frame that
has arrived come to an end.

SOCKS5. `RequestSafe`: no request before the credentials were verified, none that is
not whole, and one reply each (an unsupported request, whose rest is read as another,
has as many as it has heads). `NothingLost`: after "granted" no frame is lost.
`DeliveredIntact`: datagrams of the targets reach the client unchanged and the
outlet's credit is what is on the way. `ReadBack`: an address read from any cut is
the one written. `NobodyWaits`: a frame that waits with the context locked goes on,
every message is answered or the session ends, the context is destroyed, and the ends
of an association end together.

### Bounds

- Tunnel: with a limit of 1 and frames of 1 and 2 a reader is both let through and
  throttled, and an acknowledgement can be smaller than, equal to and larger than what
  remains; one frame the other way makes both directions share the pipes. Two sessions
  are what the shared input loop can confuse.
- Players: two connections are enough for an eviction and for the race, three for an
  eviction during the aftermath of a race; one message and one update close the cycle
  of locks.
- Tunnel administration: one client, five configurations, three requests, two logins
  and a restart let a tunnel change its ends, its port, its type and whether it is
  enabled, with a login or a restart inside; two clients and three logins let it move
  between clients; two tasks overlap on two tunnels; three tasks synchronise four
  lists. The bounds are on the number of requests, logins, restarts and changes.
- Server: one account at the start and three ids, so a new account may get an id that
  was deleted, beside a login; pages of 0, 1, 2 and 101 entries against at most 3 are
  below, at, and above the length and past the limit of 100; all nine placements of
  two ends on three hosts; two messages may overtake each other, one player may leave,
  one update moves the ends.
- Net: up to four frames, written and read in pieces of every size, a frame too short
  for a message and one at the limit; two addresses and three datagrams, so that an
  address comes back after its session; timeouts of two and of four ticks, a second
  being one and two; two lives with three sessions, so that an id comes back, and a
  channel of two; three faults, two pushes and pings while three frames are under way.
- SOCKS5: every plan of a client with two frames each way, three up where the lock is
  held for credit; every compression and encryption with two datagrams each way;
  addresses of each type at the limits of host and port.

Deadlock is not checked: when every session is over, or the bounded requests are
made, there is nothing left to do. That no set of tasks blocks itself is stated where
locks are modelled (`Converged`, `LoginAnswered`, `SessionsEnd`, `NobodyWaits`).

### Fairness

Weak fairness of each task, which the tokio scheduler gives: input loops, readers with
a frame in hand, writers, callbacks, closes, handlers that began. Timers fire and time
passes. The task that stopped an inlet starts it again, for it is the same function.
Locks are fair, as tokio's are. Beyond that: a socket takes data or reports an error
(a peer that never reads and never closes holds up its session); a client that began a
SOCKS5 message finishes it; whoever walks the pages asks for the next; in `ClientLife`
both programs go on, and a quiet connection gets its ping. Clients, endpoints, the
administrator and the network owe nothing else: no datagram need come, and
`on_recv_frame` of a UDP session need not return.

### What the violated runs show

- `player_race`: `Peer::on_session_close` compares the session id under a read guard
  and resets the Player under a write guard. A login that waits for the lock gets it
  in between, and the new session loses its Player to the old session's reset. Its
  client stays connected with a positive answer while the server believes the
  account offline.
- `login_deadlock`: a login holds its Player and waits for the tunnel list; a proxied
  message to that Player holds the list and waits for the Player; an update waiting
  to write the list stops the login's read, because tokio serves requests in order.
  None of the three goes on. `player_live` shows that without the update the locks
  do no harm.

### Where the passing runs stop

The following happen in the code and are kept out of an instance or of a property.
TLC finds the interleavings among them when the instance is widened or the property is
strengthened; the others can be read in the definitions. The hazards in
`PROJECT.json` give the lines.

- Tunnel: if the spawned session starts more than 2 s late, frames sent in between are
  missing at the endpoint (`ImplementsStream` needs `~ SlowSpawn`), and if the inlet
  has closed meanwhile the late session is never told (`Teardown` likewise).
- Inlet: a restarted inlet uses its ids again, and a frame may reach the next life's
  session of the same id; a stop drops the disconnects its sessions have just queued.
- Tunnel manager: a deletion that overlaps an update or another deletion makes the
  index found before the await name another tunnel; overlapping additions can share a
  port. A deleted tunnel keeps running at a client until the next notice or reconnect;
  an outlet whose receiver changed keeps sending to the former one until it is
  replaced. Two overlapping syncs may insert one outlet twice, and the first is
  replaced without being stopped.
- Validators: two IPv6 sources of a receiver always conflict, since an address
  with more than one colon has no port for `get_tunnel_address_port`.
- Accounts: two registrations can store one name; `update_player` does not store the
  name; a deleted account stays in `player_map`, so a login under way binds it; two
  overlapping deletions can close another player's session.
- Routing: a player that leaves between the check and the push gets nothing and nobody
  is answered.
- Pages: page numbers begin at 0; the slice of a list that shrank in between panics.
- Framing: a task stopped halfway through a frame leaves half of it on the stream.
- SOCKS5: a username and password message that arrives in pieces ends the session by
  a panic; datagrams of the client are decoded where they should be encoded, and are
  refused with compression or AES; a failed send of a datagram skips the
  acknowledgement; with a slow outlet a request may be answered twice.

## Proofs

Eight modules hold theorems, for every value of the constants. What is assumed of the
constants is `ConstantsAssumption` or `ConstantsOK` of the component; what a theorem
assumes beyond that is in its statement and below. A module that is about several
components extends one and has the others as named instances; they share no argument.

- `TunnelProofs` has what the two modules after it share: facts about queues,
  `TypeCorrect` (`TypeOK` is inductive), the conjuncts of the invariant of a stream, and
  summaries of what a step can do to a task, a queue and a stream (`Goes`, `Moves`, the
  `Lane` operators), so that each conjunct is shown once per kind of step and not once
  per action.
- `TunnelStreamProofs`: what one socket reads reaches the other. `Base` is inductive on
  any runtime: a task outside its `select!` holds nothing (`Life`), a connect is its
  session's first message (`FirstWord`), the outlet's loop waits for a session it has
  spawned (`Loop`), and frames ascend from writer to reader (`Order`). `FramesInOrder`
  follows. `DisconnectIsLast` needs besides that an end whose disconnect is in the pipe
  is closed, and so has no task left that sends. `ClosesGracefully` and `OnlyPeerCloses`
  need `Whole`: a running end is in its map or its peer is over and all it sent has
  arrived (`Known`), a closing message is followed by no data (`LastWords`), and no frame
  is missing between the last one written and the last one sent (`Exact`, `Unbroken`).
  `GracefulClose` is not inductive without it: whether the writer has everything is
  decided long before the close, by what is still in the pipe. `TunnelImplementsStream`
  is the refinement: with `Whole`, every action is a step of `Stream` or changes nothing
  that `Stream` sees. It assumes `~ SlowSpawn`, the runtime starting a spawned session
  within the 2 s that `on_i2o_connect` waits for it; otherwise the outlet drops frames
  of a session that then starts, and the stream has a gap.
- `TunnelCreditProofs`: flow control. `CreditSafety`: `CreditCovers`, given the types, is
  inductive because it is an inequality: a dropped message only lowers the left side.
  The work is in the sums: `Outstanding` adds the lengths in four queues; a sum is the
  number of cells of a table (`Totals`), so that appending to and taking from a queue are
  facts about cardinalities. `InFlightBound` strengthens `BoundedInFlight` by `Admission`
  (the frame in hand has a possible length, and the count exceeds the limit by at most
  one frame). `CreditIsExact`, the equation, needs to know where bytes are dropped:
  `Kept` says that they are only where an end leaves its `select!` or is not in its map,
  and `Whole` that neither happens while both ends run. Like `GracefulClose` and
  `ClosedByPeer`, `CreditExact` itself speaks of `~ SlowSpawn` only.
- `PlayerSessionProofs`: `NeverDangling` and `LostOnlyToAnOlderSession` from `Reachable`
  (types, a session whose login is not accepted has no Player, and `NoDangling`). No fact
  about the locks is needed: each step either binds, unbinds or leaves the binding
  alone, and each binding is undone by the close of its own session. `SessionTypes`,
  `LockDiscipline` and `PlayerChangesLocked` are about the locks and rest on
  `LocksFollow`: where a task stands determines the guards and the requests it has, in
  every lock, also after `select!` dropped it in the middle of a request. A deadlock of
  the server can therefore only be the circle of a login and a proxied message that
  `login_deadlock` finds (`TwoLocksOnly`).
  The accounts (`A`): `AccountsTypes`, `AccountsPassword`, `AccountsListed` and
  `AccountsRightClosed`, for any requests, ids and accounts. The invariant `AccountInv`
  follows each account from the table to the list and the map (`Mapped`, `Listed`): an
  account has its Player or a task that is about to add it, and while a deletion of its
  id is still to take one away, a new account with that id has two (`Holders`); the index
  a deletion has found is its player's (`Aimed`). The last two theorems assume `OneDeleter`, that the administration deletes one
  player at a time: with two deletions at once the index one has found is moved by the
  other, as noted above.
- `RoutingProofs`: `RoutingTypes` from `Typed`, whatever happens. `LandsAtRightEnd`
  assumes `MaxUpdates = 0` and that the tunnel's kind is one that has an inlet
  (`KnownKind`): while a tunnel is being updated server and client disagree on who hosts
  an end, and the run checks for that case that messages settle. The invariant is `Still`:
  all records are of the one tunnel, its ends run where they say, and every message under
  way is at its sender, the server or the host of its end. The number of players and of
  lost connections is arbitrary. `OfflineIsAnswered` assumes also `MaxLeaves <= 1`: with a
  second connection lost the answer may itself find nobody.
  The administration of tunnels (`T`): `AdminListMatchesDb` and `AdminIndexFresh`, for any
  requests, logins and restarts. `AdminBase` is inductive: ids are unique in the table and
  in the list and below the next one, a request under way holds what its stage needs, and
  the index it has found is that of its tunnel (`Kept`). `Agree` says how far list and
  table may differ in each stage of a request: by the row that was added, dropped or
  changed and is not yet so in the list. `AdminListMatchesDb` assumes `OneAtATime`;
  `AdminIndexFresh` assumes `Steady`, that requests come one at a time or none deletes.
- `TunnelAdminProofs`: `OneInletPerPort` and `SyncsConverge`, for any lists, any number of
  synchronisations at once and of changes between their steps. `ConstantsOK` says that a
  list has an id, and a receiver's port, once, as the detection ensures. `Converged` says
  nothing while a synchronisation is under way, so it is far from inductive. `Follow`
  says what the tasks under way still owe: a proxy the list does not ask for has a task
  that will drop it, a tunnel without its proxy has a task that will come to it
  (`OutletsFollow`, `InletsFollow`), and a tunnel that was refused its port is owed by
  whoever frees the port (`PortsKept`). With no task left nothing is owed. `PortsApart`,
  about `Detection`, from `Accepted` (what is stored has an IPv4 or IPv6 source, and an
  id belongs to one tunnel).
  The pages (`W`): `PagesComplete` and `PagesClosed` from `WalkInv`: a walk over a list
  that has not changed has shown exactly the entries before its page. The client (`L`):
  `StartsFresh` and `PongNeverFirst` from `Clean` (what is left in each phase of a
  connection) and `LoginFirst` (until the login is answered, the first frame on its way to
  the client is no pong, or there is none and the login is what the server has in hand or
  takes next).
- `NetProofs`: `UdpOneOwner` and `UdpLostOnlyAtEnd` from `Safe` (types, the map and the
  sessions name each other, and a loop that is calm has a session that receives or none);
  `UdpNotEarly` from `Timely` (the age exceeds the true idleness by less than a second).
  Frames (`F`): `FramingTypes` and `FramingForwarded` on any connection; `FramingWhole` and
  `FramingRefused` assume `~ MayStop`, since a task stopped halfway leaves half a frame.
  `FrameInv` says that the stream is whole frames but for the one being written, that the
  reader's buffer begins where a frame does, and that the frames before it are those
  delivered; the place of a frame is the number of frames that end up to it (`Rank`), so
  that the argument is about cardinalities and needs no induction over the stream.
  Restarts (`R`): `EntriesHaveTasks`, for any number of lives, from `Known` (everything
  that names a session names one that was accepted); `OwnDataInOneLife`, under the further
  assumption `MaxLives = 1`, from ids and keys being equal in the only life (`OneLife`).
  Addresses (`A`): `AddressReadBack`, for every address of the three types, every cut and
  whatever follows it: the bytes written determine type, host and port, and a shorter
  prefix is recognised as too short.
- `Socks5Proofs`: `Socks5Types`, `Socks5Authenticated`, `Socks5WholeRequest`,
  `Socks5NothingLost` and `Socks5AnsweredOnce`, for any plan of the client, lengths of its
  messages, number of frames and size of pieces. `Base` has the types and that no frame
  was lost; `Phase` relates the status to what the client has sent and what of it is in
  the buffer, which is why no request passes before its credentials or before it is whole;
  `Told` follows the outlet's answer from its message to the status and the reply, so that
  nobody who was told "granted" finds the status behind. `Socks5AnsweredOnce` is about an
  outlet that answers within the time the inlet gives it.

The runs state most of these over their instances, as conjuncts of `TypeOK`,
`ListMatchesDb`, `Converged`, `NoSharedPort`, `AccountsIntact`, `WalkComplete`, `RightEnd`,
`WholeFrames`, `OneOwner`, `RightSession`, `FreshStart`, `RequestSafe`, `NothingLost` and
`ReadBack`.

Only model-checked:

- all liveness properties, which the prover does not do under fairness, and `NotStuck` of
  `ProxySync` and the deadlock checks of the runs, which are about `ENABLED`;
- `CopiesAgree` and `NeededRuns`, about what a client has once it has taken in everything
  on its way: a fold over a channel of any length, which takes an induction over data;
- `SameIds` and `PortsDistinct` of `TunnelAdmin`, and the types of its clients;
- `DeliveredIntact` of `Socks5Udp`, whose data are sequences of transformations undone one
  by one, and `EndedCleared` of `InletRestart`, which compares the order of messages in
  three queues;
- `RightEnd` for the moving tunnel does not hold and is not claimed; `Settles` is its
  replacement there.

## Not modelled

- TLS, the algorithms of compression and encryption, and the generated protocol and
  database code: library calls and tables. Which transformation is applied, and when,
  is in `Codec` and `Socks5Udp`.
- The exit that is forced 600 s after a stop that does not end, since nothing follows
  it; UDP tunnels apart from SOCKS5, whose outlet actions are those of `Socks5Udp` and
  whose inlet is `UdpServer`.
- Configuration, logging, command-line parsing, static files and `test_auth`: input and
  output without state.
- The character classes of names and passwords: a word is valid or not.
- The experiments in `np_test`, which nothing uses.

`PROJECT.json` lists every component with what is modelled of it, and every hazard
with its line.
