------------------------------ MODULE MCServer ------------------------------
(***************************************************************************)
(* Instances of Accounts, Pages and Routing for TLC.  A behaviour takes    *)
(* the steps of one instance, the one its "part" names; the others share   *)
(* no variable with it and stay as they began.                             *)
(***************************************************************************)
EXTENDS Integers, Sequences

VARIABLES
  part,
  users, players, player_map, parties, signedIn, task, client, promised,
  kicked, requests, logins,
  list, added, identity, attempts, walk,
  tunnel, copy, proxies, update, online, down, up, hand, emitted, updates,
  leaves, landed, lost

accounts == <<users, players, player_map, parties, signedIn, task, client,
              promised, kicked, requests, logins>>
pages == <<list, added, identity, attempts, walk>>
routes == <<tunnel, copy, proxies, update, online, down, up, hand, emitted,
            updates, leaves, landed, lost>>
vars == <<part, accounts, pages, routes>>

(* Two tasks change accounts, one of which also deletes.                   *)
Account == INSTANCE Accounts WITH
  Ids <- 1 .. 3, Words <- {"a", "b", "longer than 30"}, ValidWords <- {"a", "b"},
  Tasks <- {"k1", "k2"}, Deleters <- {"k1"}, Clients <- {"c1"},
  Initial <- {[id |-> 1, username |-> "a", password |-> "a"]},
  Ops <- {"add", "delete", "update", "tunnel"}, MaxRequests <- 3, MaxLogins <- 1,
  online <- signedIn

(* Walks over lists that change, and a server without a web user.          *)
Walk == INSTANCE Pages WITH
  HasUsername <- TRUE, Sizes <- {0, 1, 2, 101}, Firsts <- {0}, MaxEntries <- 3,
  MayChange <- TRUE, MaxLogins <- 1, logins <- attempts
Closed == INSTANCE Pages WITH
  HasUsername <- FALSE, Sizes <- {0, 1, 2, 101}, Firsts <- {0}, MaxEntries <- 3,
  MayChange <- FALSE, MaxLogins <- 2, logins <- attempts

At(s, r) == [id |-> 1, enabled |-> TRUE, sender |-> s, receiver |-> r,
             port |-> 1, kind |-> 0]

(* Every way to spread the ends of a tunnel over the server and two        *)
(* clients, and a tunnel whose ends change hosts, come together or part.   *)
AllKinds ==
  {"I2oConnect", "I2oDisconnect", "I2oSendData", "I2oSendToData", "I2oRecvDataResult",
   "O2iConnect", "O2iDisconnect", "O2iRecvData", "O2iRecvDataFrom", "O2iSendDataResult"}
Fixed == INSTANCE Routing WITH
  Players <- {1, 2}, Tunnels <- {At(s, r) : s, r \in 0 .. 2}, Kinds <- AllKinds,
  MaxMessages <- 2, MaxUpdates <- 0, MaxLeaves <- 1
Moving == INSTANCE Routing WITH
  Players <- {1, 2}, Tunnels <- {At(1, 0), At(2, 1), At(1, 2), At(1, 1)},
  Kinds <- {"I2oSendData", "O2iRecvData"},
  MaxMessages <- 2, MaxUpdates <- 1, MaxLeaves <- 0

ASSUME Account!ConstantsOK /\ Walk!ConstantsOK /\ Closed!ConstantsOK
       /\ Fixed!ConstantsOK /\ Moving!ConstantsOK

-----------------------------------------------------------------------------
NoEntries == \A k \in DOMAIN added : added[k] = 0

Init ==
  \/ /\ part = "accounts"
     /\ Account!Init /\ Walk!Init /\ NoEntries /\ Fixed!Init /\ tunnel = At(1, 0)
  \/ /\ \/ part = "walk" /\ Walk!Init
        \/ part = "closed" /\ Closed!Init
     /\ Account!Init /\ Fixed!Init /\ tunnel = At(1, 0)
  \/ /\ \/ part = "fixed" /\ Fixed!Init
        \/ part = "moving" /\ Moving!Init
     /\ Account!Init /\ Walk!Init /\ NoEntries

Next ==
  \/ part = "accounts" /\ Account!Next /\ UNCHANGED <<part, pages, routes>>
  \/ /\ \/ part = "walk" /\ Walk!Next
        \/ part = "closed" /\ Closed!Next
     /\ UNCHANGED <<part, accounts, routes>>
  \/ /\ \/ part = "fixed" /\ Fixed!Next
        \/ part = "moving" /\ Moving!Next
     /\ UNCHANGED <<part, accounts, pages>>

(* A request for a page is answered, and the walker goes on asking.        *)
(* Connections are read, handlers go on, and an update that began ends:    *)
(* its wait for the list is bounded, for a tokio RwLock is fair.           *)
Fairness ==
  /\ WF_pages(part = "walk" /\ Walk!Request)
  /\ WF_pages(part = "walk" /\ Walk!CountTunnels)
  /\ WF_pages(part = "walk" /\ Walk!SliceTunnels)
  /\ WF_pages(part = "walk" /\ Walk!FetchPlayers)
  /\ WF_pages(part = "walk" /\ Walk!TotalCount)
  /\ \A p \in 1 .. 2 : /\ WF_routes(part = "moving" /\ Moving!ServerReceives(p))
                       /\ WF_routes(part = "moving" /\ Moving!ClientReceives(p))
  /\ \A h \in 0 .. 2 : /\ WF_routes(part = "moving" /\ Moving!CheckOnline(h))
                       /\ WF_routes(part = "moving" /\ Moving!Push(h))
                       /\ WF_routes(part = "moving" /\ Moving!Answer(h))
  /\ WF_routes(part = "moving" /\ Moving!Tell)
  /\ WF_routes(part = "moving" /\ Moving!Store)
  /\ WF_routes(part = "moving" /\ Moving!Sync)

Spec == Init /\ [][Next]_vars /\ Fairness

-----------------------------------------------------------------------------
(* Types of all three modules' states.                                     *)
TypeOK == Account!TypeOK /\ Walk!TypeOK /\ (part = "fixed" => Fixed!TypeOK)

(* Between requests every account has its Player in the list and in the    *)
(* map of PlayerManager, a password that update_player answered "Success"  *)
(* to is the one stored, and deleting a player closes that player's        *)
(* session and nobody else's, as long as deletions do not overlap          *)
(* (delete_player).                                                        *)
AccountsIntact ==
  Account!AccountsHavePlayers /\ Account!PasswordStored /\ Account!RightClosed

(* A walk over a list that does not change shows every entry once, in      *)
(* order, whatever the size of the pages (query); without a web user it    *)
(* shows none (authentication).                                            *)
WalkComplete == Walk!WalkComplete /\ (part = "closed" => Closed!ClosedWithoutUser)

(* While nothing is updated a message lands at the end it is for and at no *)
(* other (send_proxy_message, forward_message), and one that finds its     *)
(* player offline is answered in the player's name if its sender waits.    *)
RightEnd == part = "fixed" => Fixed!RightEnd /\ Fixed!OfflineAnswered

(* Every message comes to an end, also one that client and server pass     *)
(* back and forth while they disagree on the host of an end; and so does a *)
(* walk, whatever the size asked for and whatever happens to the list.     *)
Settles ==
  (part = "moving" => Moving!Settles) /\ (part = "walk" => Walk!WalkEnds)
=============================================================================
