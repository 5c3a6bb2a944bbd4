------------------------------- MODULE Accounts -------------------------------
(***************************************************************************)
(* PlayerManager: the accounts in the database, the list and the map of    *)
(* Players kept beside it, and the requests that change them.  Requests    *)
(* come from the web administration and, for add_player, from clients that *)
(* register; they run as tasks that interleave at every await.  Tunnels    *)
(* appear as the account they name, logins as the two awaits that lie      *)
(* between the check of the password and the binding of the session.       *)
(***************************************************************************)
EXTENDS Integers, SequencesExt

CONSTANTS
  Ids,             \* the range player ids are drawn from
  Words,           \* what requests carry as username or password
  ValidWords,      \* those that pass is_valid_username and is_valid_password
  Tasks,           \* tasks that carry out requests
  Deleters,        \* those of them the administration deletes players with
  Clients,         \* connections of clients that log in
  Initial,         \* the accounts in the database at the start
  Ops,             \* the kinds of request that are made
  MaxRequests,     \* bound: requests in all
  MaxLogins        \* bound: logins in all

Row == [id : Ids, username : ValidWords, password : ValidWords]

ConstantsOK ==
  /\ ValidWords \subseteq Words
  /\ Deleters \subseteq Tasks
  /\ Initial \subseteq Row
  /\ {MaxRequests, MaxLogins} \subseteq Nat

VARIABLES
  users,       \* the table user
  players,     \* PlayerManager.players, as ids
  player_map,  \* the keys of PlayerManager.player_map
  parties,     \* accounts the tunnels name (table and list agree)
  online,      \* ids of the Players with a session
  task,        \* what each task is at
  client,      \* what each connection is at
  promised,    \* history: rows that updates since answered "Success" asked for
  kicked,      \* history: <<deleted, closed>>, the sessions deletes closed
  requests,
  logins

memory == <<players, player_map, online>>
history == <<promised, kicked>>
vars == <<users, memory, parties, task, client, history, requests, logins>>

Idle == [pc |-> "idle"]
IdsOf(rows) == {u.id : u \in rows}

(* create_player for every row; the order is the database's.               *)
Init ==
  /\ users = Initial
  /\ players \in SetToSeqs({u.id : u \in Initial})
  /\ player_map = {u.id : u \in Initial}
  /\ parties = {}
  /\ online = {}
  /\ task = [k \in Tasks |-> Idle]
  /\ client = [c \in Clients |-> Idle]
  /\ promised = {}
  /\ kicked = {}
  /\ requests = 0
  /\ logins = 0

At(k, pc) == task[k].pc = pc
Do(k, t) == task' = [task EXCEPT ![k] = t]
Goto(k, pc) == Do(k, [task[k] EXCEPT !.pc = pc])
Done(k) == Do(k, Idle)
Me(k) == task[k].row.id

Request(k, op, pc, row) ==
  /\ At(k, "idle")
  /\ op \in Ops
  /\ requests < MaxRequests
  /\ requests' = requests + 1
  /\ Do(k, [pc |-> pc, row |-> row, index |-> 0])
  /\ UNCHANGED <<users, memory, parties, client, history, logins>>

NewRow(id, name, password) ==
  [id |-> id, username |-> name, password |-> password]

-----------------------------------------------------------------------------
(* add_player, from the web or from on_register_request.                   *)

Acceptable(name, password) == {name, password} \subseteq ValidWords

AddPlayer(k, name, password) ==
  /\ Acceptable(name, password)
  /\ Request(k, "add", "query", NewRow(0, name, password))

QueryName(k) ==
  /\ At(k, "query")
  /\ IF \E u \in users : u.username = task[k].row.username
       THEN Done(k) ELSE Goto(k, "pick")
  /\ UNCHANGED <<users, memory, parties, client, history, requests, logins>>

(* gen_range until contain says no; 10000 collisions in a row are left out.*)
PickId(k, id) ==
  /\ At(k, "pick")
  /\ id \notin player_map
  /\ Do(k, [task[k] EXCEPT !.pc = "insert", !.row.id = id])
  /\ UNCHANGED <<users, memory, parties, client, history, requests, logins>>

(* The id is the primary key; the username has no index.                   *)
InsertUser(k) ==
  /\ At(k, "insert")
  /\ IF Me(k) \in IdsOf(users)
       THEN Done(k) /\ UNCHANGED users
       ELSE Goto(k, "create") /\ users' = users \cup {task[k].row}
  /\ UNCHANGED <<memory, parties, client, history, requests, logins>>

(* create_player: the list, and at the next await the map.                 *)
CreatePlayer(k) ==
  /\ At(k, "create")
  /\ players' = Append(players, Me(k))
  /\ Goto(k, "map")
  /\ UNCHANGED <<users, player_map, online, parties, client, history, requests, logins>>
MapPlayer(k) ==
  /\ At(k, "map")
  /\ player_map' = player_map \cup {Me(k)}
  /\ online' = online \ {Me(k)}
  /\ Done(k)
  /\ UNCHANGED <<users, players, parties, client, history, requests, logins>>

-----------------------------------------------------------------------------
(* delete_player.                                                          *)
DeletePlayer(k, id) ==
  /\ k \in Deleters
  /\ Request(k, "delete", "tunnels", NewRow(id, "", ""))

(* The tunnels that name the player are collected, then deleted; one that  *)
(* is gone by then is an error (rows_affected = 0) that ends the request.  *)
CollectTunnels(k) ==
  /\ At(k, "tunnels")
  /\ Goto(k, IF Me(k) \in parties THEN "drop" ELSE "delete")
  /\ UNCHANGED <<users, memory, parties, client, history, requests, logins>>
DropTunnels(k) ==
  /\ At(k, "drop")
  /\ IF Me(k) \in parties THEN Goto(k, "delete") ELSE Done(k)
  /\ parties' = parties \ {Me(k)}
  /\ UNCHANGED <<users, memory, client, history, requests, logins>>

DeleteUser(k) ==
  /\ At(k, "delete")
  /\ users' = {u \in users : u.id # Me(k)}
  /\ promised' = {u \in promised : u.id # Me(k)}
  /\ IF users' = users THEN Done(k) ELSE Goto(k, "find")
  /\ UNCHANGED <<memory, parties, client, kicked, requests, logins>>

FindIndex(k) ==
  LET hits == {n \in DOMAIN players : players[n] = Me(k)}
  IN  /\ At(k, "find")
      /\ IF hits = {} THEN Done(k)
         ELSE Do(k, [task[k] EXCEPT !.pc = "remove",
                       !.index = CHOOSE n \in hits : \A m \in hits : n <= m])
      /\ UNCHANGED <<users, memory, parties, client, history, requests, logins>>

(* Mutant: the session closed is that of the last Player.                  *)
AtIndexLast(k) == Last(players)

AtIndex(k) == players[task[k].index]

(* players.remove(index), which panics beyond the end, and close_session   *)
(* of the Player it returns.  The map keeps its entry.                     *)
RemoveIndex(k) ==
  /\ At(k, "remove")
  /\ Done(k)
  /\ IF task[k].index > Len(players)
       THEN UNCHANGED <<players, online, kicked>>
       ELSE /\ players' = RemoveAt(players, task[k].index)
            /\ online' = online \ {AtIndex(k)}
            /\ kicked' = kicked \cup {<<Me(k), AtIndex(k)>>}
  /\ UNCHANGED <<users, player_map, parties, client, promised, requests, logins>>

-----------------------------------------------------------------------------
(* update_player, after the web handler's check of the lengths.            *)
UpdatePlayer(k, row) ==
  /\ Acceptable(row.username, row.password)
  /\ Request(k, "update", "load", row)

LoadUser(k) ==
  /\ At(k, "load")
  /\ IF Me(k) \in IdsOf(users) THEN Goto(k, "store") ELSE Done(k)
  /\ UNCHANGED <<users, memory, parties, client, history, requests, logins>>

Assigned(u, row) == [u EXCEPT !.password = row.password]

(* Only the columns that were set are written; no such row is an error.    *)
StoreUser(k) ==
  /\ At(k, "store")
  /\ users' = {IF u.id = Me(k) THEN Assigned(u, task[k].row) ELSE u : u \in users}
  /\ promised' = IF Me(k) \notin IdsOf(users) THEN promised
                 ELSE {u \in promised : u.id # Me(k)} \cup {task[k].row}
  /\ Done(k)
  /\ UNCHANGED <<memory, parties, client, kicked, requests, logins>>

-----------------------------------------------------------------------------
(* add_tunnel or update_tunnel naming a player: player_id_detection, and   *)
(* at a later await the insert.                                            *)
NameInTunnel(k, id) ==
  /\ id \in player_map
  /\ Request(k, "tunnel", "name", NewRow(id, "", ""))
StoreTunnel(k) ==
  /\ At(k, "name")
  /\ parties' = parties \cup {Me(k)}
  /\ Done(k)
  /\ UNCHANGED <<users, memory, client, history, requests, logins>>

-----------------------------------------------------------------------------
(* on_login_request: the query, then get_player and the binding.           *)
Login(c, u) ==
  /\ client[c].pc = "idle"
  /\ logins < MaxLogins
  /\ logins' = logins + 1
  /\ client' = [client EXCEPT ![c] = [pc |-> "bind", id |-> u.id]]
  /\ UNCHANGED <<users, memory, parties, task, history, requests>>
Bind(c) ==
  /\ client[c].pc = "bind"
  /\ client' = [client EXCEPT ![c] = Idle]
  /\ online' = IF client[c].id \in player_map
                 THEN online \cup {client[c].id} ELSE online
  /\ UNCHANGED <<users, players, player_map, parties, task, history, requests, logins>>
Leave(id) ==
  /\ id \in online
  /\ online' = online \ {id}
  /\ UNCHANGED <<users, players, player_map, parties, task, client, history, requests,
                 logins>>

-----------------------------------------------------------------------------
Add(k) == QueryName(k) \/ InsertUser(k) \/ CreatePlayer(k) \/ MapPlayer(k)
          \/ \E id \in Ids : PickId(k, id)
Delete(k) == CollectTunnels(k) \/ DropTunnels(k) \/ DeleteUser(k) \/ FindIndex(k)
             \/ RemoveIndex(k)
Update(k) == LoadUser(k) \/ StoreUser(k)

Next ==
  \/ \E k \in Tasks :
       \/ Add(k) \/ Delete(k) \/ Update(k) \/ StoreTunnel(k)
       \/ \E name, password \in Words :
            \/ AddPlayer(k, name, password)
            \/ \E id \in Ids : UpdatePlayer(k, NewRow(id, name, password))
       \/ \E id \in Ids : DeletePlayer(k, id) \/ NameInTunnel(k, id)
  \/ \E c \in Clients : Bind(c) \/ \E u \in users : Login(c, u)
  \/ \E id \in Ids : Leave(id)

Spec == Init /\ [][Next]_vars

-----------------------------------------------------------------------------
Quiet == /\ \A k \in Tasks : At(k, "idle")
         /\ \A c \in Clients : client[c].pc = "idle"

(* Types; in the table, names and passwords have the lengths add_player    *)
(* and the web's update_player allow, and the id is a key.                 *)
TypeOK ==
  /\ users \subseteq Row
  /\ \A u, v \in users : u.id = v.id => u = v
  /\ players \in Seq(Ids)
  /\ player_map \cup parties \cup online \subseteq Ids

(* Every account has its Player in the list and in the map once no request *)
(* is under way, so that it can log in and be named in a tunnel.           *)
AccountsHavePlayers ==
  Quiet => IdsOf(users) \subseteq ToSet(players) \cap player_map

(* A password that update_player answered "Success" to is the one stored,  *)
(* whatever adds, deletes and updates ran beside it.                       *)
PasswordStored ==
  \A r \in promised : \E u \in users : u.id = r.id /\ u.password = r.password

(* Deleting a player closes that player's session and nobody else's.       *)
RightClosed == \A x \in kicked : x[1] = x[2]
=============================================================================
