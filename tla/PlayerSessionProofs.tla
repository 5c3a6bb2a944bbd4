------------------------- MODULE PlayerSessionProofs -------------------------
(* Proofs about PlayerSession, for any accounts, sessions and tunnels.     *)
EXTENDS PlayerSession, TLAPS

(* What the operations on sequences do.                                    *)
LEMMA EmptyFacts ==
  ASSUME NEW S
  PROVE  <<>> \in Seq(S) /\ Len(<<>>) = 0
OBVIOUS

LEMMA HeadTailFacts ==
  ASSUME NEW S, NEW q \in Seq(S), q # <<>>
  PROVE  /\ Head(q) \in S /\ Tail(q) \in Seq(S)
         /\ Len(Tail(q)) = Len(q) - 1
         /\ \A i \in 1 .. Len(Tail(q)) : Tail(q)[i] = q[i + 1]
OBVIOUS

LEMMA AppendFacts ==
  ASSUME NEW S, NEW q \in Seq(S), NEW m \in S
  PROVE  /\ Append(q, m) \in Seq(S) /\ Append(q, m) # <<>>
         /\ Len(Append(q, m)) = Len(q) + 1
         /\ \A i \in 1 .. Len(q) : Append(q, m)[i] = q[i]
         /\ Append(q, m)[Len(q) + 1] = m
OBVIOUS

LEMMA ConcatFacts ==
  ASSUME NEW S, NEW p \in Seq(S), NEW q \in Seq(S)
  PROVE  /\ p \o q \in Seq(S) /\ Len(p \o q) = Len(p) + Len(q)
         /\ \A i \in 1 .. Len(p) + Len(q) :
              (p \o q)[i] = IF i <= Len(p) THEN p[i] ELSE q[i - Len(p)]
OBVIOUS

Messages == {"ack", "error", "push", "close"}

(* The part of the state the proofs are about.                             *)
Shape ==
  /\ pc \in [Sessions -> PC]
  /\ player \in [Sessions -> Players \cup {NoPlayer}]
  /\ session_id \in [Players -> Sessions \cup {Offline}]
  /\ outq \in [Sessions -> Seq(Messages)]

(* A session whose login has not been accepted has no Player.              *)
Unnamed ==
  \A s \in Sessions : pc[s] \in {"none", "query"} => player[s] = NoPlayer

(* Steps of a session's task that leave its login behind, or never had it. *)
Settled == Alive \ {"query", "bind"}

(* Sessions that were told to close still are.                             *)
Kept == \A z \in Sessions : Told(z) => Told(z)'

(* What a step may do to the tasks and to the Players.                     *)
Elsewhere == Kept /\ UNCHANGED <<pc, player, session_id>>
Starts(s) ==
  /\ Kept /\ UNCHANGED <<player, session_id>>
  /\ \/ pc[s] = "none" /\ GoTo(s, "reading")
     \/ pc[s] = "reading" /\ player[s] = NoPlayer /\ GoTo(s, "query")
     \/ pc[s] = "query" /\ GoTo(s, "reading")
Named(s) ==
  /\ Kept /\ UNCHANGED session_id
  /\ pc[s] = "query" /\ GoTo(s, "bind")
  /\ \E p \in Players : player' = [player EXCEPT ![s] = p]
Binds(s) ==
  /\ Kept /\ UNCHANGED player
  /\ pc[s] = "bind" /\ GoTo(s, "list")
  /\ OnConnectSession(player[s], s)
  /\ CloseSession(player[s])
WorksOn(s) ==
  /\ Kept /\ UNCHANGED <<player, session_id>>
  /\ pc[s] \in Settled
  /\ \E next \in Settled : GoTo(s, next)
Ends(s) ==
  /\ \A z \in Sessions : z # s /\ Told(z) => Told(z)'
  /\ UNCHANGED <<player, session_id>>
  /\ pc[s] \in Alive
  /\ GoTo(s, IF player[s] = NoPlayer THEN "closed" ELSE "compare")
Compares(s) ==
  /\ Kept /\ UNCHANGED <<player, session_id>>
  /\ pc[s] = "compare"
  /\ GoTo(s, IF session_id[player[s]] = s THEN "reset" ELSE "closed")
Resets(s) ==
  /\ Kept /\ UNCHANGED player
  /\ pc[s] = "reset" /\ GoTo(s, "closed")
  /\ OnDisconnectSession(player[s])

Effect ==
  \/ Elsewhere
  \/ \E s \in Sessions :
       \/ Starts(s) \/ Named(s) \/ Binds(s) \/ WorksOn(s)
       \/ Ends(s) \/ Compares(s) \/ Resets(s)

-----------------------------------------------------------------------------
(* Posting a message forgets no close, and adds one if it is one.          *)
LEMMA PostKeeps ==
  ASSUME Shape, NEW t, NEW m \in Messages, Post(t, m)
  PROVE  /\ Kept /\ outq' \in [Sessions -> Seq(Messages)]
         /\ m = "close" /\ t \in Sessions /\ t # Offline /\ pc[t] \in Alive => Told(t)'
<1>1. CASE t \in Sessions /\ t # Offline /\ pc[t] \in Alive
  <2>1. outq' = [outq EXCEPT ![t] = Append(@, m)] /\ t \in Sessions
    BY <1>1 DEF Post
  <2>2. /\ outq[t] \in Seq(Messages) /\ Len(outq[t]) \in Nat
        /\ outq'[t] = Append(outq[t], m)
        /\ \A z \in Sessions : z # t => outq'[z] = outq[z]
    BY <2>1 DEF Shape
  <2>3. /\ Append(outq[t], m) \in Seq(Messages)
        /\ Len(outq'[t]) = Len(outq[t]) + 1
        /\ \A i \in 1 .. Len(outq[t]) : outq'[t][i] = outq[t][i]
        /\ outq'[t][Len(outq[t]) + 1] = m
    BY <2>2, AppendFacts
  <2>4. outq' \in [Sessions -> Seq(Messages)]
    BY <2>1, <2>3, <2>2 DEF Shape
  <2>5. Kept
    BY <2>2, <2>3 DEF Kept, Told
  <2>6. m = "close" => Told(t)'
    BY <2>2, <2>3 DEF Told
  <2> QED
    BY <2>4, <2>5, <2>6
<1>2. CASE ~ (t \in Sessions /\ t # Offline /\ pc[t] \in Alive)
  <2>1. outq' = outq
    BY <1>2 DEF Post, Shape
  <2> QED
    BY <1>2, <2>1 DEF Kept, Told, Shape
<1> QED
  BY <1>1, <1>2

LEMMA SameKeeps ==
  ASSUME Shape, UNCHANGED outq
  PROVE  Kept /\ outq' \in [Sessions -> Seq(Messages)]
BY DEF Kept, Told, Shape

(* Delivering a message that is no close forgets none.                     *)
LEMMA DeliverKeeps ==
  ASSUME Shape, NEW s \in Sessions, Deliver(s)
  PROVE  Kept /\ outq' \in [Sessions -> Seq(Messages)]
<1>1. /\ outq[s] \in Seq(Messages) /\ outq[s] # <<>> /\ Head(outq[s]) # "close"
      /\ outq' = [outq EXCEPT ![s] = Tail(@)]
  BY DEF Deliver, Shape
<1>2. /\ Tail(outq[s]) \in Seq(Messages) /\ Len(outq[s]) \in Nat \ {0}
      /\ Len(Tail(outq[s])) = Len(outq[s]) - 1
      /\ \A i \in 1 .. Len(Tail(outq[s])) : Tail(outq[s])[i] = outq[s][i + 1]
      /\ Head(outq[s]) = outq[s][1]
  BY <1>1, HeadTailFacts
<1>3. /\ outq'[s] = Tail(outq[s])
      /\ \A z \in Sessions : z # s => outq'[z] = outq[z]
      /\ outq' \in [Sessions -> Seq(Messages)]
  BY <1>1, <1>2 DEF Shape
<1>4. Told(s) => Told(s)'
  <2> SUFFICES ASSUME NEW i \in 1 .. Len(outq[s]), outq[s][i] = "close"
               PROVE  \E j \in 1 .. Len(outq'[s]) : outq'[s][j] = "close"
    BY DEF Told
  <2>1. i # 1
    BY <1>1, <1>2
  <2>2. i - 1 \in 1 .. Len(Tail(outq[s])) /\ (i - 1) + 1 = i
    BY <1>2, <2>1
  <2> QED
    BY <1>2, <1>3, <2>2
<1> QED
  BY <1>3, <1>4 DEF Kept, Told

(* Every step has one of these effects, and keeps the queues proper.       *)
LEMMA StepEffect ==
  ASSUME Shape, [Next]_vars
  PROVE  Effect /\ outq' \in [Sessions -> Seq(Messages)]
<1> DEFINE Good == Effect /\ outq' \in [Sessions -> Seq(Messages)]
<1> USE DEF peerVars, adminVars
<1>0. {"ack", "error", "push", "close"} \subseteq Messages
  BY DEF Messages
<1>1. ASSUME NEW s \in Sessions, Connect(s) \/ LoginRequest(s) PROVE Good
  <2>1. Starts(s)
    BY <1>1, SameKeeps DEF Connect, LoginRequest, Starts
  <2>2. UNCHANGED outq
    BY <1>1 DEF Connect, LoginRequest
  <2> QED
    BY <2>1, <2>2, SameKeeps DEF Effect
<1>2. ASSUME NEW s \in Sessions, ClientLeaves(s) PROVE Good
  BY <1>2, SameKeeps DEF ClientLeaves, Effect, Elsewhere
<1>3. ASSUME NEW s \in Sessions, Deliver(s) PROVE Good
  BY <1>3, DeliverKeeps DEF Deliver, Effect, Elsewhere
<1>4. ASSUME NEW s \in Sessions, LoginRefused(s) PROVE Good
  <2>1. Kept /\ outq' \in [Sessions -> Seq(Messages)]
    BY <1>0, <1>4, PostKeeps DEF LoginRefused
  <2> QED
    BY <1>4, <2>1 DEF LoginRefused, Effect, Starts
<1>5. ASSUME NEW s \in Sessions, NEW p \in Players, LoginAccepted(s, p) PROVE Good
  <2>1. Named(s)
    BY <1>5, SameKeeps DEF LoginAccepted, Named
  <2> QED
    BY <1>5, <2>1, SameKeeps DEF LoginAccepted, Effect
<1>6. ASSUME NEW s \in Sessions, LoginBind(s) PROVE Good
  <2>1. Kept /\ outq' \in [Sessions -> Seq(Messages)]
    BY <1>0, <1>6, PostKeeps DEF LoginBind, CloseSession
  <2>2. Binds(s)
    BY <1>6, <2>1 DEF LoginBind, Binds
  <2> QED
    BY <2>1, <2>2 DEF Effect
<1>7. ASSUME NEW s \in Sessions, LoginList(s) \/ PushRequest(s) \/ PushUnknown(s)
             \/ (\E r \in Routes : PushFind(s, r)) \/ PushRoute(s) \/ PushDrop(s)
      PROVE  Good
  <2>1. UNCHANGED <<outq, player, session_id>>
    BY <1>7 DEF LoginList, PushRequest, PushUnknown, PushFind, PushRoute, PushDrop
  <2>2. pc[s] \in Settled /\ \E next \in Settled : GoTo(s, next)
    BY <1>7 DEF LoginList, PushRequest, PushUnknown, PushFind, PushRoute, PushDrop,
                Settled, Alive, Handling
  <2> QED
    BY <2>1, <2>2, SameKeeps DEF Effect, WorksOn
<1>8. ASSUME NEW s \in Sessions, LoginAnswer(s) PROVE Good
  <2>1. Kept /\ outq' \in [Sessions -> Seq(Messages)]
    BY <1>0, <1>8, PostKeeps DEF LoginAnswer
  <2> QED
    BY <1>8, <2>1 DEF LoginAnswer, Effect, WorksOn, Settled, Alive, Handling
<1>9. ASSUME NEW s \in Sessions, PushSend(s) PROVE Good
  <2>1. \E t : Post(t, "push")
    BY <1>9 DEF PushSend
  <2>2. Kept /\ outq' \in [Sessions -> Seq(Messages)]
    BY <1>0, <2>1, PostKeeps
  <2> QED
    BY <1>9, <2>2 DEF PushSend, Effect, WorksOn, Settled, Alive, Handling
<1>10. ASSUME NEW s \in Sessions, WriterClose(s) \/ WriteError(s) \/ ReadEof(s) \/ Shutdown(s)
       PROVE  Good
  <2>1. SelectReturns(s) /\ pc[s] \in Alive
    BY <1>10 DEF WriterClose, WriteError, ReadEof, Shutdown, Alive
  <2>2. /\ outq' = [outq EXCEPT ![s] = <<>>] /\ <<>> \in Seq(Messages)
        /\ UNCHANGED <<player, session_id>>
        /\ GoTo(s, IF player[s] = NoPlayer THEN "closed" ELSE "compare")
    BY <2>1, EmptyFacts DEF SelectReturns
  <2>3. /\ outq' \in [Sessions -> Seq(Messages)]
        /\ \A z \in Sessions : z # s => outq'[z] = outq[z]
    BY <2>2 DEF Shape
  <2>4. \A z \in Sessions : z # s /\ Told(z) => Told(z)'
    BY <2>3 DEF Told
  <2> QED
    BY <2>1, <2>2, <2>3, <2>4 DEF Effect, Ends
<1>11. ASSUME NEW s \in Sessions, CloseCompare(s) PROVE Good
  <2>1. Compares(s)
    BY <1>11, SameKeeps DEF CloseCompare, Compares
  <2> QED
    BY <1>11, <2>1, SameKeeps DEF CloseCompare, Effect
<1>12. ASSUME NEW s \in Sessions, CloseReset(s) PROVE Good
  <2>1. Resets(s)
    BY <1>12, SameKeeps DEF CloseReset, Resets
  <2> QED
    BY <1>12, <2>1, SameKeeps DEF CloseReset, Effect
<1>13. ASSUME NEW p \in Players, AdminNotify(p) PROVE Good
  <2>1. Kept /\ outq' \in [Sessions -> Seq(Messages)]
    BY <1>0, <1>13, PostKeeps DEF AdminNotify
  <2> QED
    BY <1>13, <2>1 DEF AdminNotify, PeersUnchanged, Effect, Elsewhere
<1>14. ASSUME \/ \E ps \in SUBSET Players : AdminStart(ps)
              \/ \E ok \in BOOLEAN : AdminCheck(ok)
              \/ \E p \in Players : AdminNext(p)
              \/ AdminStore \/ AdminStored \/ AdminSync \/ ShutdownSignal
              \/ UNCHANGED vars
       PROVE  Good
  <2>1. UNCHANGED <<pc, player, session_id, outq>>
    BY <1>14 DEF AdminStart, AdminCheck, AdminNext, AdminStore, AdminStored,
                 AdminSync, ShutdownSignal, PeersUnchanged, vars
  <2> QED
    BY <2>1, SameKeeps DEF Effect, Elsewhere
<1> QED
  BY <1>1, <1>2, <1>3, <1>4, <1>5, <1>6, <1>7, <1>8, <1>9, <1>10, <1>11, <1>12,
     <1>13, <1>14
  DEF Next, Login, Push, Writer, Close, Administer

-----------------------------------------------------------------------------
Reachable == Shape /\ Unnamed /\ NoDangling

(* Reachable is inductive; no lock is needed for it.                       *)
LEMMA ReachableStep == Reachable /\ [Next]_vars => Reachable'
<1> SUFFICES ASSUME Reachable, [Next]_vars PROVE Reachable'
  OBVIOUS
<1> USE DEF Reachable
<1>0. Effect /\ outq' \in [Sessions -> Seq(Messages)]
  BY StepEffect
<1>1. CASE Elsewhere
  BY <1>0, <1>1 DEF Elsewhere, Shape, Unnamed, NoDangling
<1>2. ASSUME NEW s \in Sessions, Starts(s) PROVE Reachable'
  <2>1. UNCHANGED <<player, session_id>>
    BY <1>2 DEF Starts
  <2>2. /\ pc[s] \in {"none", "reading", "query"}
        /\ \/ pc' = [pc EXCEPT ![s] = "reading"]
           \/ player[s] = NoPlayer /\ pc' = [pc EXCEPT ![s] = "query"]
    BY <1>2 DEF Starts, GoTo
  <2>3. Shape'
    BY <1>0, <2>1, <2>2 DEF Shape, PC, Alive, Handling
  <2>4. Unnamed'
    BY <2>1, <2>2 DEF Unnamed, Shape
  <2>5. NoDangling'
    <3> SUFFICES ASSUME NEW p \in Players, session_id[p] # Offline
                 PROVE  /\ player[session_id[p]] = p
                        /\ pc'[session_id[p]] \in Settled \cup Closing
      BY <2>1 DEF NoDangling, Settled
    <3>1. /\ player[session_id[p]] = p /\ session_id[p] \in Sessions /\ p # NoPlayer
          /\ pc[session_id[p]] \in Settled \cup Closing
      BY ConstantsAssumption DEF NoDangling, Settled, Shape
    <3> QED
      BY <2>2, <3>1 DEF Shape, Settled, Alive, Handling
  <2> QED
    BY <2>3, <2>4, <2>5
<1>3. ASSUME NEW s \in Sessions, Named(s) PROVE Reachable'
  <2>1. /\ UNCHANGED session_id /\ pc[s] = "query"
        /\ pc' = [pc EXCEPT ![s] = "bind"]
        /\ \E p \in Players : player' = [player EXCEPT ![s] = p]
    BY <1>3 DEF Named, GoTo
  <2>2. Shape'
    BY <1>0, <2>1 DEF Shape, PC, Alive, Handling
  <2>3. Unnamed'
    BY <2>1 DEF Unnamed, Shape
  <2>4. \A p \in Players : session_id[p] # s
    BY <2>1, ConstantsAssumption DEF NoDangling, Offline, Alive, Handling, Closing
  <2>5. NoDangling'
    BY <2>1, <2>4 DEF NoDangling, Shape
  <2> QED
    BY <2>2, <2>3, <2>5
<1>4. ASSUME NEW s \in Sessions, Binds(s) PROVE Reachable'
  <2>1. /\ UNCHANGED player /\ pc[s] = "bind"
        /\ pc' = [pc EXCEPT ![s] = "list"]
        /\ session_id' = [session_id EXCEPT ![player[s]] = s]
    BY <1>4 DEF Binds, GoTo, OnConnectSession
  <2>2. Shape'
    BY <1>0, <2>1 DEF Shape, PC, Alive, Handling
  <2>3. Unnamed'
    BY <2>1 DEF Unnamed, Shape
  <2>4. NoDangling'
    BY <2>1 DEF NoDangling, Shape, Alive, Handling
  <2> QED
    BY <2>2, <2>3, <2>4
<1>5. ASSUME NEW s \in Sessions, WorksOn(s) PROVE Reachable'
  <2>1. PICK next \in Settled :
          UNCHANGED <<player, session_id>> /\ pc' = [pc EXCEPT ![s] = next]
    BY <1>5 DEF WorksOn, GoTo
  <2>2. next \in PC /\ next \notin {"none", "query"}
    BY DEF Settled, PC, Alive, Handling
  <2>3. Shape'
    BY <1>0, <2>1, <2>2 DEF Shape
  <2>4. Unnamed'
    BY <2>1, <2>2 DEF Unnamed, Shape
  <2>5. NoDangling'
    BY <2>1 DEF NoDangling, Shape, Settled
  <2> QED
    BY <2>3, <2>4, <2>5
<1>6. ASSUME NEW s \in Sessions, Ends(s) PROVE Reachable'
  <2>1. /\ UNCHANGED <<player, session_id>>
        /\ pc' = [pc EXCEPT ![s] = IF player[s] = NoPlayer THEN "closed" ELSE "compare"]
    BY <1>6 DEF Ends, GoTo
  <2>2. Shape'
    BY <1>0, <2>1 DEF Shape, PC, Closing
  <2>3. Unnamed'
    BY <2>1 DEF Unnamed, Shape
  <2>4. NoDangling'
    BY <2>1, ConstantsAssumption DEF NoDangling, Shape, Closing
  <2> QED
    BY <2>2, <2>3, <2>4
<1>7. ASSUME NEW s \in Sessions, Compares(s) PROVE Reachable'
  <2>1. /\ UNCHANGED <<player, session_id>> /\ pc[s] = "compare"
        /\ pc' = [pc EXCEPT ![s] = IF session_id[player[s]] = s THEN "reset" ELSE "closed"]
    BY <1>7 DEF Compares, GoTo
  <2>2. Shape'
    BY <1>0, <2>1 DEF Shape, PC, Closing
  <2>3. Unnamed'
    BY <2>1 DEF Unnamed, Shape
  <2>4. NoDangling'
    BY <2>1 DEF NoDangling, Shape, Closing
  <2> QED
    BY <2>2, <2>3, <2>4
<1>8. ASSUME NEW s \in Sessions, Resets(s) PROVE Reachable'
  <2>1. /\ UNCHANGED player /\ pc[s] = "reset"
        /\ pc' = [pc EXCEPT ![s] = "closed"]
        /\ session_id' = [session_id EXCEPT ![player[s]] = Offline]
    BY <1>8 DEF Resets, GoTo, OnDisconnectSession
  <2>2. Shape'
    BY <1>0, <2>1 DEF Shape, PC
  <2>3. Unnamed'
    BY <2>1 DEF Unnamed, Shape
  <2>4. NoDangling'
    BY <2>1 DEF NoDangling, Shape
  <2> QED
    BY <2>2, <2>3, <2>4
<1> QED
  BY <1>0, <1>1, <1>2, <1>3, <1>4, <1>5, <1>6, <1>7, <1>8 DEF Effect

LEMMA ReachableInit == Init => Reachable
<1> SUFFICES ASSUME Init PROVE Reachable
  OBVIOUS
<1>1. <<>> \in Seq(Messages)
  BY EmptyFacts
<1>2. Shape
  BY <1>1 DEF Init, Shape, PC
<1> QED
  BY <1>2 DEF Init, Reachable, Unnamed, NoDangling

(* A Player is never left bound to a session that is over or that belongs  *)
(* to another account, wherever tcp_session's select! drops the handler:   *)
(* Peer.player is set before the Player is bound, so on_session_close      *)
(* finds the Player it has to unbind.                                      *)
THEOREM NeverDangling == Spec => []NoDangling
<1>1. Reachable => NoDangling
  BY DEF Reachable
<1> QED
  BY <1>1, ReachableInit, ReachableStep, PTL DEF Spec

-----------------------------------------------------------------------------
(* A live session that logged in loses its Player without being told only  *)
(* to the late on_disconnect_session of an older session of its account:   *)
(* on_terminate_old_session tells the session that a login replaces.       *)
THEOREM LostOnlyToAnOlderSession == Spec => []LostOnlyToOlder
<1>1. Init => LostOnlyToOlder
  BY DEF Init, LostOnlyToOlder, LoggedIn
<1>2. Reachable /\ LostOnlyToOlder /\ [Next]_vars => LostOnlyToOlder'
  <2> SUFFICES ASSUME Reachable, LostOnlyToOlder, [Next]_vars,
                      NEW z \in Sessions, LoggedIn(z)'
               PROVE  \/ session_id'[player'[z]] = z
                      \/ Told(z)'
                      \/ \E t \in Sessions \ {z} :
                           player'[t] = player'[z] /\ pc'[t] = "closed"
    BY DEF LostOnlyToOlder
  <2> DEFINE Excused == \E t \in Sessions \ {z} :
                          player'[t] = player'[z] /\ pc'[t] = "closed"
             Goal == session_id'[player'[z]] = z \/ Told(z)' \/ Excused
  <2>0. Effect /\ Shape
    BY StepEffect DEF Reachable
  <2>1. ASSUME LoggedIn(z), UNCHANGED player, Told(z) => Told(z)',
               session_id'[player[z]] = session_id[player[z]],
               \A t \in Sessions : pc[t] = "closed" => pc'[t] = "closed"
        PROVE  Goal
    <3>1. \/ session_id[player[z]] = z
          \/ Told(z)
          \/ \E t \in Sessions \ {z} : player[t] = player[z] /\ pc[t] = "closed"
      BY <2>1 DEF LostOnlyToOlder
    <3> QED
      BY <2>1, <3>1
  <2>2. CASE Elsewhere
    BY <2>1, <2>2 DEF Elsewhere, Kept, LoggedIn
  <2>3. ASSUME NEW s \in Sessions, Starts(s) PROVE Goal
    <3>1. UNCHANGED <<player, session_id>> /\ Kept /\ player[z] # NoPlayer
      BY <2>3 DEF Starts, LoggedIn
    <3>2. /\ pc[s] \in {"none", "reading", "query"}
          /\ \A t \in Sessions : t # s => pc'[t] = pc[t]
          /\ pc'[s] \in {"reading", "query"}
      BY <2>0, <2>3 DEF Starts, GoTo, Shape
    <3>3. pc[s] # "reading" => player[s] = NoPlayer
      BY <3>2 DEF Reachable, Unnamed
    <3>4. LoggedIn(z)
      BY <3>1, <3>2, <3>3 DEF LoggedIn, Alive, Handling
    <3> QED
      BY <2>1, <3>1, <3>2, <3>4 DEF Kept
  <2>4. ASSUME NEW s \in Sessions, Named(s) PROVE Goal
    <3>1. /\ UNCHANGED session_id /\ Kept /\ pc[s] = "query" /\ pc'[s] = "bind"
          /\ \A t \in Sessions : t # s => pc'[t] = pc[t] /\ player'[t] = player[t]
      BY <2>0, <2>4 DEF Named, GoTo, Shape
    <3>2. z # s /\ LoggedIn(z)
      BY <3>1 DEF LoggedIn
    <3>3. \/ session_id[player[z]] = z
          \/ Told(z)
          \/ \E t \in Sessions \ {z} : player[t] = player[z] /\ pc[t] = "closed"
      BY <3>2 DEF LostOnlyToOlder
    <3> QED
      BY <3>1, <3>2, <3>3 DEF Kept
  <2>5. ASSUME NEW s \in Sessions, Binds(s) PROVE Goal
    <3> DEFINE p == player[s]
    <3>1. /\ UNCHANGED player /\ Kept /\ pc[s] = "bind"
          /\ \A t \in Sessions : t # s => pc'[t] = pc[t]
          /\ session_id' = [session_id EXCEPT ![p] = s]
          /\ Post(session_id[p], "close")
      BY <2>0, <2>5 DEF Binds, GoTo, OnConnectSession, CloseSession, Shape
    <3>2. player[z] \in Players
      BY <2>0, <3>1 DEF LoggedIn, Shape
    <3>3. CASE z = s
      BY <2>0, <3>1, <3>2, <3>3 DEF Shape
    <3>4. CASE z # s
      <4>1. LoggedIn(z)
        BY <3>1, <3>4 DEF LoggedIn
      <4>2. CASE player[z] # p
        BY <2>0, <2>1, <3>1, <4>1, <4>2 DEF Kept, Shape
      <4>3. CASE player[z] = p /\ session_id[p] = z
        <5>1. "close" \in Messages /\ z # Offline /\ pc[z] \in Alive
          BY <4>1, ConstantsAssumption DEF Messages, Offline, LoggedIn
        <5> QED
          BY <2>0, <3>1, <4>3, <5>1, PostKeeps
      <4>4. CASE player[z] = p /\ session_id[p] # z
        <5>1. \/ Told(z)
              \/ \E t \in Sessions \ {z} : player[t] = player[z] /\ pc[t] = "closed"
          BY <4>1, <4>4 DEF LostOnlyToOlder
        <5> QED
          BY <3>1, <5>1 DEF Kept
      <4> QED
        BY <4>2, <4>3, <4>4
    <3> QED
      BY <3>3, <3>4
  <2>6. ASSUME NEW s \in Sessions, WorksOn(s) PROVE Goal
    <3>1. /\ UNCHANGED <<player, session_id>> /\ Kept /\ pc[s] \in Settled
          /\ \A t \in Sessions : t # s => pc'[t] = pc[t]
      BY <2>0, <2>6 DEF WorksOn, GoTo, Shape
    <3>2. LoggedIn(z)
      BY <3>1 DEF LoggedIn, Settled
    <3>3. pc[s] # "closed"
      BY <3>1 DEF Settled, Alive, Handling
    <3> QED
      BY <2>1, <3>1, <3>2, <3>3 DEF Kept
  <2>7. ASSUME NEW s \in Sessions, Ends(s) \/ Compares(s) PROVE Goal
    <3>1. /\ UNCHANGED <<player, session_id>>
          /\ \A t \in Sessions : t # s => pc'[t] = pc[t]
          /\ pc[s] # "closed"
          /\ pc'[s] \in {"closed", "compare", "reset"}
          /\ \A t \in Sessions : t # s /\ Told(t) => Told(t)'
      BY <2>0, <2>7 DEF Ends, Compares, GoTo, Shape, Kept, Alive, Handling
    <3>2. z # s /\ LoggedIn(z)
      BY <3>1 DEF LoggedIn, Alive, Handling
    <3> QED
      BY <2>1, <3>1, <3>2
  <2>8. ASSUME NEW s \in Sessions, Resets(s) PROVE Goal
    <3>1. /\ UNCHANGED player /\ Kept /\ pc[s] = "reset" /\ pc'[s] = "closed"
          /\ \A t \in Sessions : t # s => pc'[t] = pc[t]
          /\ session_id' = [session_id EXCEPT ![player[s]] = Offline]
      BY <2>0, <2>8 DEF Resets, GoTo, OnDisconnectSession, Shape
    <3>2. z # s /\ LoggedIn(z)
      BY <3>1 DEF LoggedIn, Alive, Handling
    <3>3. CASE player[z] = player[s]
      BY <3>1, <3>2, <3>3
    <3>4. CASE player[z] # player[s]
      BY <2>0, <2>1, <3>1, <3>2, <3>4 DEF Kept, Shape
    <3> QED
      BY <3>3, <3>4
  <2> QED
    BY <2>0, <2>2, <2>3, <2>4, <2>5, <2>6, <2>7, <2>8 DEF Effect
<1> QED
  BY <1>1, <1>2, ReachableInit, ReachableStep, PTL DEF Spec

-----------------------------------------------------------------------------
(* The locks.  A lock is sound when no task waits twice in its queue and   *)
(* its guards may be held together.                                        *)
Tasks == Sessions \cup {Admin}
Modes == {"read", "write"}
Locks == Players \cup {Tunnels}
Lock == [held : SUBSET Guard, queue : Seq(Guard)]
Entries(k) == {k.queue[i] : i \in 1 .. Len(k.queue)}
Once(k) ==
  \A i, j \in 1 .. Len(k.queue) : k.queue[i][1] = k.queue[j][1] => i = j
Shared(k) ==
  \A g, h \in k.held : g = h \/ (g[2] = "read" /\ h[2] = "read")
Sound(k) == k \in Lock /\ Once(k) /\ Shared(k)

Own(S, x) == {g \in S : g[1] = x}
Others(S, x) == {g \in S : g[1] # x}

(* From k to n only the guards and requests of x differ.                   *)
OnlyOf(x, k, n) ==
  /\ Sound(n)
  /\ Others(Entries(n), x) = Others(Entries(k), x)
  /\ Others(n.held, x) = Others(k.held, x)

(* Without closes the gap it makes.                                        *)
LEMMA WithoutIndices ==
  ASSUME NEW S, NEW q \in Seq(S), NEW i \in 1 .. Len(q)
  PROVE  /\ Without(q, i) \in Seq(S)
         /\ Len(Without(q, i)) = Len(q) - 1
         /\ \A j \in 1 .. Len(q) - 1 :
              Without(q, i)[j] = IF j < i THEN q[j] ELSE q[j + 1]
<1> DEFINE a == SubSeq(q, 1, i - 1)
           b == SubSeq(q, i + 1, Len(q))
<1>1. Len(q) \in Nat
  OBVIOUS
<1>2. a \in Seq(S) /\ Len(a) = i - 1 /\ \A j \in 1 .. i - 1 : a[j] = q[j]
  BY <1>1
<1>3. b \in Seq(S) /\ Len(b) = Len(q) - i /\ \A j \in 1 .. Len(q) - i : b[j] = q[j + i]
  BY <1>1
<1>4. Without(q, i) = a \o b
  BY DEF Without
<1> HIDE DEF a, b
<1>5. /\ a \o b \in Seq(S) /\ Len(a \o b) = Len(a) + Len(b)
      /\ \A j \in 1 .. Len(a) + Len(b) :
           (a \o b)[j] = IF j <= Len(a) THEN a[j] ELSE b[j - Len(a)]
  BY <1>2, <1>3, ConcatFacts
<1>6. Len(a \o b) = Len(q) - 1
  BY <1>1, <1>2, <1>3, <1>5
<1>7. ASSUME NEW j \in 1 .. Len(q) - 1
      PROVE  (a \o b)[j] = IF j < i THEN q[j] ELSE q[j + 1]
  <2>1. (a \o b)[j] = IF j <= Len(a) THEN a[j] ELSE b[j - Len(a)]
    BY <1>1, <1>2, <1>3, <1>5
  <2>2. CASE j < i
    BY <1>1, <1>2, <2>1, <2>2
  <2>3. CASE ~ (j < i)
    <3>1. j - Len(a) \in 1 .. Len(q) - i /\ (j - Len(a)) + i = j + 1 /\ ~ (j <= Len(a))
      BY <1>1, <1>2, <2>3
    <3> QED
      BY <1>3, <2>1, <2>3, <3>1
  <2> QED
    BY <2>2, <2>3
<1> QED
  BY <1>4, <1>5, <1>6, <1>7

(* A request joins those of the others.                                    *)
LEMMA RequestIs ==
  ASSUME NEW k, Sound(k), NEW x \in Tasks, NEW m \in Modes,
         Own(Entries(k), x) = {}
  PROVE  LET n == Request(k, x, m)
         IN  /\ OnlyOf(x, k, n)
             /\ Own(Entries(n), x) = {<<x, m>>} /\ n.held = k.held
<1> DEFINE n == Request(k, x, m)
           q == k.queue
<1>1. k \in Lock /\ <<x, m>> \in Guard /\ q \in Seq(Guard)
  BY DEF Sound, Lock, Guard, Tasks, Modes
<1>2. n \in Lock /\ n.held = k.held /\ n.queue = Append(q, <<x, m>>)
  <2>1. Append(q, <<x, m>>) \in Seq(Guard)
    BY <1>1, AppendFacts
  <2> QED
    BY <1>1, <2>1 DEF Request, Lock
<1>3. /\ Len(q) \in Nat
      /\ \A i : i \in 1 .. Len(n.queue) <=> i \in 1 .. Len(q) \/ i = Len(q) + 1
      /\ \A i \in 1 .. Len(q) : n.queue[i] = q[i]
      /\ n.queue[Len(q) + 1] = <<x, m>>
  BY <1>1, <1>2, AppendFacts
<1> HIDE DEF n
<1>4. Entries(n) = Entries(k) \cup {<<x, m>>}
  BY <1>3 DEF Entries
<1>5. \A i \in 1 .. Len(q) : q[i][1] # x
  BY DEF Entries, Own
<1>6. Once(n)
  <2>1. \A i, j \in 1 .. Len(q) : q[i][1] = q[j][1] => i = j
    BY DEF Sound, Once
  <2>2. \A i \in 1 .. Len(n.queue) : n.queue[i][1] = x => i = Len(q) + 1
    BY <1>3, <1>5
  <2>3. n.queue[Len(q) + 1][1] = x
    BY <1>3
  <2> SUFFICES ASSUME NEW i \in 1 .. Len(n.queue), NEW j \in 1 .. Len(n.queue),
                      n.queue[i][1] = n.queue[j][1]
               PROVE  i = j
    BY DEF Once
  <2>4. CASE i = Len(q) + 1 \/ j = Len(q) + 1
    BY <2>2, <2>3, <2>4
  <2>5. CASE i \in 1 .. Len(q) /\ j \in 1 .. Len(q)
    BY <1>3, <2>1, <2>5
  <2> QED
    BY <1>3, <2>4, <2>5
<1>7. Shared(n)
  BY <1>2 DEF Shared, Sound
<1>8. Own(Entries(n), x) = {<<x, m>>} /\ Others(Entries(n), x) = Others(Entries(k), x)
  BY <1>4 DEF Own, Others
<1> QED
  BY <1>2, <1>6, <1>7, <1>8 DEF Sound, OnlyOf, n

(* What is known of the request that is granted.                           *)
LEMMA GrantedIs ==
  ASSUME NEW k, Sound(k), NEW x, Granted(k, x)
  PROVE  LET n == Pass(k)
             g == Head(k.queue)
         IN  /\ OnlyOf(x, k, n) /\ g \in Guard /\ g[1] = x
             /\ Own(Entries(k), x) = {g} /\ Own(Entries(n), x) = {}
             /\ n.held = k.held
             /\ \A h \in k.held : g[2] = "read" /\ h[2] = "read"
<1> DEFINE n == Pass(k)
           q == k.queue
           g == Head(q)
<1>1. k \in Lock /\ q \in Seq(Guard) /\ q # <<>> /\ g[1] = x
  BY DEF Sound, Lock, Granted
<1>2. /\ \A h \in k.held : <<g[2], h[2]>> = <<"read", "read">>
  BY DEF Granted
<1>3. n \in Lock /\ n.held = k.held /\ n.queue = Tail(q)
  <2>1. Tail(q) \in Seq(Guard)
    BY <1>1, HeadTailFacts
  <2> QED
    BY <1>1, <2>1 DEF Pass, Lock
<1>4. /\ Len(q) \in Nat \ {0} /\ g = q[1] /\ Len(n.queue) = Len(q) - 1
      /\ \A i \in 1 .. Len(n.queue) : n.queue[i] = q[i + 1]
  BY <1>1, <1>3, HeadTailFacts
<1> HIDE DEF n
<1>5. 1 \in 1 .. Len(q) /\ g \in Guard
  BY <1>1, <1>4
<1>6. \A i \in 1 .. Len(q) : q[i][1] = x => i = 1
  BY <1>1, <1>4, <1>5 DEF Sound, Once
<1>7. Once(n)
  <2>1. \A i, j \in 1 .. Len(q) : q[i][1] = q[j][1] => i = j
    BY DEF Sound, Once
  <2> SUFFICES ASSUME NEW i \in 1 .. Len(n.queue), NEW j \in 1 .. Len(n.queue),
                      n.queue[i][1] = n.queue[j][1]
               PROVE  i = j
    BY DEF Once
  <2>2. i + 1 \in 1 .. Len(q) /\ j + 1 \in 1 .. Len(q) /\ q[i + 1][1] = q[j + 1][1]
    BY <1>4
  <2>3. i + 1 = j + 1
    BY <2>1, <2>2
  <2> QED
    BY <1>4, <2>3
<1>8. Shared(n)
  BY <1>3 DEF Sound, Shared
<1>9. \A i \in 1 .. Len(n.queue) : i + 1 \in 1 .. Len(q) /\ i + 1 # 1
  BY <1>4
<1>10. \A i \in 1 .. Len(q) : i # 1 =>
         i - 1 \in 1 .. Len(n.queue) /\ n.queue[i - 1] = q[i]
  BY <1>4
<1>11. Own(Entries(k), x) = {g}
  BY <1>1, <1>4, <1>5, <1>6 DEF Own, Entries
<1>12. Own(Entries(n), x) = {}
  BY <1>4, <1>6, <1>9 DEF Own, Entries
<1>13. Others(Entries(n), x) = Others(Entries(k), x)
  <2>1. ASSUME NEW h, h \in Entries(n) PROVE h \in Entries(k)
    BY <1>4, <1>9, <2>1 DEF Entries
  <2>2. ASSUME NEW h, h \in Entries(k), h[1] # x PROVE h \in Entries(n)
    <3>1. PICK i \in 1 .. Len(q) : q[i] = h
      BY <2>2 DEF Entries
    <3>2. i # 1
      BY <1>1, <1>4, <2>2, <3>1
    <3> QED
      BY <1>10, <3>1, <3>2 DEF Entries
  <2> QED
    BY <2>1, <2>2 DEF Others
<1> QED
  BY <1>1, <1>2, <1>3, <1>5, <1>7, <1>8, <1>11, <1>12, <1>13 DEF Sound, OnlyOf, n

(* The guard of a granted request may be held with those held already.     *)
LEMMA HoldIs ==
  ASSUME NEW k, Sound(k), NEW x, Granted(k, x)
  PROVE  LET n == Hold(k)
         IN  /\ OnlyOf(x, k, n) /\ Own(Entries(n), x) = {}
             /\ n.held = k.held \cup {Head(k.queue)}
<1> DEFINE n == Hold(k)
           p == Pass(k)
           g == Head(k.queue)
<1>1. /\ OnlyOf(x, k, p) /\ g \in Guard /\ g[1] = x /\ Own(Entries(p), x) = {}
      /\ p.held = k.held
      /\ \A h \in k.held : g[2] = "read" /\ h[2] = "read"
  BY GrantedIs
<1>2. p \in Lock /\ k \in Lock /\ p.queue = Tail(k.queue)
  BY <1>1 DEF OnlyOf, Sound, Pass, Lock
<1>3. n.queue = p.queue /\ n.held = k.held \cup {g}
  BY <1>2 DEF Hold
<1>4. n \in Lock
  BY <1>1, <1>2, <1>3 DEF Hold, Lock
<1> HIDE DEF n, p, g
<1>5. Entries(n) = Entries(p)
  BY <1>3 DEF Entries
<1>6. Once(n)
  BY <1>1, <1>3 DEF Once, OnlyOf, Sound
<1>7. Shared(n)
  BY <1>1, <1>3 DEF Shared, Sound
<1>8. Others(n.held, x) = Others(k.held, x)
  BY <1>1, <1>3 DEF Others
<1> QED
  BY <1>1, <1>3, <1>4, <1>5, <1>6, <1>7, <1>8 DEF OnlyOf, Sound, n, g

LEMMA ReleaseIs ==
  ASSUME NEW k, Sound(k), NEW x
  PROVE  LET n == Release(k, x)
         IN  /\ OnlyOf(x, k, n) /\ Own(n.held, x) = {}
             /\ Entries(n) = Entries(k) /\ n.queue = k.queue
<1> DEFINE n == Release(k, x)
<1>1. k \in Lock
  BY DEF Sound
<1>2. n \in Lock /\ n.queue = k.queue /\ n.held = Others(k.held, x)
  BY <1>1 DEF Release, Lock, Others
<1> HIDE DEF n
<1>3. Once(n) /\ Shared(n) /\ Entries(n) = Entries(k)
  BY <1>2 DEF Sound, Once, Shared, Entries, Others
<1>4. Own(n.held, x) = {} /\ Others(n.held, x) = Others(k.held, x)
  BY <1>2 DEF Own, Others
<1> QED
  BY <1>2, <1>3, <1>4 DEF OnlyOf, Sound, n

(* A dropped future leaves neither a guard nor a request.                  *)
LEMMA WithdrawIs ==
  ASSUME NEW k, Sound(k), NEW x
  PROVE  LET n == Withdraw(k, x)
         IN  /\ OnlyOf(x, k, n)
             /\ Own(Entries(n), x) = {} /\ Own(n.held, x) = {}
<1> DEFINE n == Withdraw(k, x)
           r == Release(k, x)
           q == k.queue
           at == Places(k, x)
<1>1. /\ OnlyOf(x, k, r) /\ Own(r.held, x) = {}
      /\ Entries(r) = Entries(k) /\ r.queue = q
  BY ReleaseIs
<1>2. /\ r \in Lock /\ q \in Seq(Guard) /\ Len(q) \in Nat
      /\ \A i, j \in 1 .. Len(q) : q[i][1] = q[j][1] => i = j
  BY <1>1 DEF OnlyOf, Sound, Lock, Once
<1>3. at = {i \in 1 .. Len(q) : q[i][1] = x}
  BY DEF Places
<1>4. CASE at = {}
  <2>1. n.queue = q /\ n.held = r.held /\ n \in Lock
    BY <1>1, <1>2, <1>4 DEF Withdraw, Lock
  <2> HIDE DEF n, r, at
  <2>2. Entries(n) = Entries(k) /\ Once(n) /\ Shared(n)
    BY <1>1, <2>1 DEF Entries, OnlyOf, Sound, Once, Shared
  <2>3. Own(Entries(k), x) = {}
    BY <1>3, <1>4 DEF Own, Entries
  <2> QED
    BY <1>1, <2>1, <2>2, <2>3 DEF OnlyOf, Sound, n
<1>5. CASE at # {}
  <2> DEFINE i == CHOOSE j \in at : TRUE
  <2>1. i \in 1 .. Len(q) /\ q[i][1] = x
    BY <1>3, <1>5
  <2>2. n = [r EXCEPT !.queue = Without(q, i)]
    BY <1>1, <1>5 DEF Withdraw
  <2> HIDE DEF i, at, n, r
  <2>3. /\ Without(q, i) \in Seq(Guard) /\ Len(Without(q, i)) = Len(q) - 1
        /\ \A j \in 1 .. Len(q) - 1 :
             Without(q, i)[j] = IF j < i THEN q[j] ELSE q[j + 1]
    BY <1>2, <2>1, WithoutIndices
  <2>4. n \in Lock /\ n.held = r.held /\ n.queue = Without(q, i)
    BY <1>2, <2>2, <2>3 DEF Lock
  <2>5. /\ Len(n.queue) = Len(q) - 1
        /\ \A j \in 1 .. Len(n.queue) :
             n.queue[j] = IF j < i THEN q[j] ELSE q[j + 1]
    BY <2>3, <2>4
  <2>6. Once(n)
    <3> SUFFICES ASSUME NEW a \in 1 .. Len(n.queue), NEW b \in 1 .. Len(n.queue),
                        n.queue[a][1] = n.queue[b][1]
                 PROVE  a = b
      BY DEF Once
    <3> DEFINE u == IF a < i THEN a ELSE a + 1
               v == IF b < i THEN b ELSE b + 1
    <3>1. /\ u \in 1 .. Len(q) /\ v \in 1 .. Len(q)
          /\ n.queue[a] = q[u] /\ n.queue[b] = q[v]
      BY <1>2, <2>1, <2>5
    <3>2. u = v
      BY <1>2, <3>1
    <3> QED
      BY <1>2, <2>1, <2>5, <3>2
  <2>7. \A j \in 1 .. Len(n.queue) :
          \E u \in 1 .. Len(q) : u # i /\ n.queue[j] = q[u]
    <3> SUFFICES ASSUME NEW j \in 1 .. Len(n.queue)
                 PROVE  \E u \in 1 .. Len(q) : u # i /\ n.queue[j] = q[u]
      OBVIOUS
    <3> DEFINE u == IF j < i THEN j ELSE j + 1
    <3>1. u \in 1 .. Len(q) /\ u # i /\ n.queue[j] = q[u]
      BY <1>2, <2>1, <2>5
    <3> QED
      BY <3>1
  <2>8. \A u \in 1 .. Len(q) : u # i =>
          \E j \in 1 .. Len(n.queue) : n.queue[j] = q[u]
    <3> SUFFICES ASSUME NEW u \in 1 .. Len(q), u # i
                 PROVE  \E j \in 1 .. Len(n.queue) : n.queue[j] = q[u]
      OBVIOUS
    <3> DEFINE j == IF u < i THEN u ELSE u - 1
    <3>1. j \in 1 .. Len(n.queue) /\ n.queue[j] = q[u]
      BY <1>2, <2>1, <2>5
    <3> QED
      BY <3>1
  <2>9. Own(Entries(n), x) = {}
    BY <1>2, <2>1, <2>7, SMTT(30) DEF Own, Entries
  <2>10. Others(Entries(n), x) = Others(Entries(k), x)
    <3>1. ASSUME NEW h, h \in Entries(n) PROVE h \in Entries(k)
      BY <2>7, <3>1 DEF Entries
    <3>2. ASSUME NEW h, h \in Entries(k), h[1] # x PROVE h \in Entries(n)
      BY <2>1, <2>8, <3>2 DEF Entries
    <3> QED
      BY <3>1, <3>2 DEF Others
  <2>11. Shared(n)
    BY <1>1, <2>4 DEF OnlyOf, Sound, Shared
  <2> QED
    BY <1>1, <2>4, <2>6, <2>9, <2>10, <2>11 DEF OnlyOf, Sound, n
<1> QED
  BY <1>4, <1>5

-----------------------------------------------------------------------------
(* What a session's task has asked for, and what it holds, where it        *)
(* stands: the Player to be bound, compared or reset, the list of tunnels  *)
(* for a login or a proxied message, the players at the ends of its route. *)
Asking(s, l) ==
  IF pc[s] \in {"bind", "reset"} /\ l = player[s] THEN {<<s, "write">>}
  ELSE IF \/ pc[s] = "compare" /\ l = player[s]
          \/ pc[s] \in {"list", "find"} /\ l = Tunnels
          \/ pc[s] \in {"route", "send"} /\ l = route[s][2]
          \/ pc[s] = "bounce" /\ l = route[s][1]
         THEN {<<s, "read">>} ELSE {}
Holding(s, l) ==
  IF pc[s] = "list" /\ l = player[s] THEN {<<s, "write">>}
  ELSE IF pc[s] \in {"route", "send", "bounce"} /\ l = Tunnels
         THEN {<<s, "read">>} ELSE {}

(* The administration keeps no guard across an await.  While it notifies,  *)
(* q is the player it has got to.                                          *)
AdminAsking(q, l) ==
  IF admin = "store" /\ l = Tunnels THEN {<<Admin, "write">>}
  ELSE IF \/ admin \in {"check", "sync"} /\ l = Tunnels
          \/ admin = "notify" /\ l = q
         THEN {<<Admin, "read">>} ELSE {}

(* Tasks stand only where they have what they go by.                       *)
Addressed ==
  /\ route \in [Sessions -> Routes \cup {NoRoute}]
  /\ \A s \in Sessions :
       /\ pc[s] \in {"bind", "list", "compare", "reset"} => player[s] \in Players
       /\ pc[s] \in {"route", "send", "bounce"} => route[s] \in Routes

SessionLocks(s) ==
  \A l \in Locks : /\ Own(Entries(lock[l]), s) = Asking(s, l)
                   /\ Own(lock[l].held, s) = Holding(s, l)
AdminLocks(q) ==
  \A l \in Locks : /\ Own(Entries(lock[l]), Admin) = AdminAsking(q, l)
                   /\ Own(lock[l].held, Admin) = {}

(* The locks are sound and tell where every task stands.                   *)
Locked(q) ==
  /\ lock \in [Locks -> Lock]
  /\ \A l \in Locks : Sound(lock[l])
  /\ \A s \in Sessions : SessionLocks(s)
  /\ AdminLocks(q)
LocksFollow == Addressed /\ \E q \in Players \cup {NoPlayer} : Locked(q)

(* A task that alone acts and does to the locks what its new place says.   *)
OnlyTask(s) ==
  /\ \A z \in Sessions \ {s} :
       pc'[z] = pc[z] /\ player'[z] = player[z] /\ route'[z] = route[z]
  /\ admin' = admin

LEMMA SameLock ==
  ASSUME NEW x, NEW k, Sound(k)
  PROVE  OnlyOf(x, k, k)
BY DEF OnlyOf

LEMMA TaskStep ==
  ASSUME NEW q, Locked(q), NEW s \in Sessions, OnlyTask(s),
         lock' \in [Locks -> Lock],
         \A l \in Locks : OnlyOf(s, lock[l], lock'[l]),
         SessionLocks(s)'
  PROVE  Locked(q)'
<1>1. \A l \in Locks : Sound(lock'[l])
  BY DEF OnlyOf
<1>2. ASSUME NEW x, x # s, NEW l \in Locks
      PROVE  /\ Own(Entries(lock'[l]), x) = Own(Entries(lock[l]), x)
             /\ Own(lock'[l].held, x) = Own(lock[l].held, x)
  <2>1. /\ Others(Entries(lock'[l]), s) = Others(Entries(lock[l]), s)
        /\ Others(lock'[l].held, s) = Others(lock[l].held, s)
    BY DEF OnlyOf
  <2> QED
    BY <1>2, <2>1 DEF Own, Others
<1>3. ASSUME NEW z \in Sessions PROVE SessionLocks(z)'
  <2>1. CASE z = s
    BY <2>1
  <2>2. CASE z # s
    <3>1. \A l : Asking(z, l)' = Asking(z, l) /\ Holding(z, l)' = Holding(z, l)
      BY <2>2, ZenonT(30) DEF OnlyTask, Asking, Holding
    <3> QED
      BY <1>2, <2>2, <3>1 DEF Locked, SessionLocks
  <2> QED
    BY <2>1, <2>2
<1>4. AdminLocks(q)'
  <2>1. \A l : AdminAsking(q, l)' = AdminAsking(q, l)
    BY DEF OnlyTask, AdminAsking
  <2>2. Admin # s
    BY ConstantsAssumption
  <2> QED
    BY <1>2, <2>1, <2>2 DEF Locked, AdminLocks
<1> QED
  BY <1>1, <1>3, <1>4 DEF Locked

(* One lock changes, or two.                                               *)
LEMMA OneLock ==
  ASSUME NEW q, Locked(q), NEW s \in Sessions, OnlyTask(s),
         NEW a \in Locks, NEW n, lock' = [lock EXCEPT ![a] = n],
         OnlyOf(s, lock[a], n),
         Own(Entries(n), s) = Asking(s, a)', Own(n.held, s) = Holding(s, a)',
         \A l \in Locks \ {a} : /\ Asking(s, l)' = Asking(s, l)
                                /\ Holding(s, l)' = Holding(s, l)
  PROVE  Locked(q)'
<1>1. /\ lock' \in [Locks -> Lock] /\ lock'[a] = n
      /\ \A l \in Locks \ {a} : lock'[l] = lock[l]
  BY DEF Locked, OnlyOf, Sound
<1>2. \A l \in Locks : OnlyOf(s, lock[l], lock'[l])
  BY <1>1, SameLock DEF Locked
<1>3. SessionLocks(s)'
  BY <1>1 DEF SessionLocks, Locked
<1> QED
  BY <1>1, <1>2, <1>3, TaskStep

LEMMA TwoLocks ==
  ASSUME NEW q, Locked(q), NEW s \in Sessions, OnlyTask(s),
         NEW a \in Locks, NEW b \in Locks, a # b, NEW n, NEW m,
         lock' = [lock EXCEPT ![a] = n, ![b] = m],
         OnlyOf(s, lock[a], n), OnlyOf(s, lock[b], m),
         Own(Entries(n), s) = Asking(s, a)', Own(n.held, s) = Holding(s, a)',
         Own(Entries(m), s) = Asking(s, b)', Own(m.held, s) = Holding(s, b)',
         \A l \in Locks \ {a, b} : /\ Asking(s, l)' = Asking(s, l)
                                   /\ Holding(s, l)' = Holding(s, l)
  PROVE  Locked(q)'
<1>1. /\ lock' \in [Locks -> Lock] /\ lock'[a] = n /\ lock'[b] = m
      /\ \A l \in Locks \ {a, b} : lock'[l] = lock[l]
  BY DEF Locked, OnlyOf, Sound
<1>2. \A l \in Locks : OnlyOf(s, lock[l], lock'[l])
  BY <1>1, SameLock DEF Locked
<1>3. SessionLocks(s)'
  BY <1>1 DEF SessionLocks, Locked
<1> QED
  BY <1>1, <1>2, <1>3, TaskStep

(* No lock changes, nor what the task has asked for.                       *)
LEMMA NoLock ==
  ASSUME NEW q, Locked(q), NEW s \in Sessions, OnlyTask(s), UNCHANGED lock,
         \A l \in Locks : /\ Asking(s, l)' = Asking(s, l)
                          /\ Holding(s, l)' = Holding(s, l)
  PROVE  Locked(q)'
<1>1. \A l \in Locks : OnlyOf(s, lock[l], lock'[l])
  BY SameLock DEF Locked
<1>2. SessionLocks(s)' /\ lock' \in [Locks -> Lock]
  BY DEF SessionLocks, Locked
<1> QED
  BY <1>1, <1>2, TaskStep

LEMMA OnlyOfTwice ==
  ASSUME NEW x, NEW k, NEW p, NEW n, OnlyOf(x, k, p), OnlyOf(x, p, n)
  PROVE  OnlyOf(x, k, n)
BY DEF OnlyOf

(* The steps of a session's task, one by one.                              *)
LEMMA QuietLocks ==
  ASSUME Shape, NEW q, Locked(q), NEW s \in Sessions,
         \/ Connect(s) \/ ClientLeaves(s) \/ Deliver(s) \/ LoginRequest(s)
         \/ LoginRefused(s) \/ LoginAnswer(s)
  PROVE  Locked(q)'
<1> USE DEF peerVars, adminVars
<1>1. UNCHANGED <<lock, admin, player, route>>
  BY DEF Connect, ClientLeaves, Deliver, LoginRequest, LoginRefused, LoginAnswer
<1>2. \/ UNCHANGED pc
      \/ /\ pc[s] \in {"none", "reading", "query", "answer"}
         /\ pc' = [pc EXCEPT ![s] = "reading"] \/ pc' = [pc EXCEPT ![s] = "query"]
  BY DEF Connect, ClientLeaves, Deliver, LoginRequest, LoginRefused, LoginAnswer, GoTo
<1>3. OnlyTask(s)
  BY <1>1, <1>2 DEF OnlyTask, Shape
<1>4. \A l : Asking(s, l)' = Asking(s, l) /\ Holding(s, l)' = Holding(s, l)
  BY <1>1, <1>2, ZenonT(30) DEF Asking, Holding, Shape
<1> QED
  BY <1>1, <1>3, <1>4, NoLock

LEMMA AcceptedLocks ==
  ASSUME Shape, NEW q, Locked(q), NEW s \in Sessions, NEW p \in Players,
         LoginAccepted(s, p)
  PROVE  Locked(q)'
<1> USE DEF adminVars
<1> DEFINE n == Request(lock[p], s, "write")
<1>1. /\ pc[s] = "query" /\ pc' = [pc EXCEPT ![s] = "bind"]
      /\ player' = [player EXCEPT ![s] = p]
      /\ UNCHANGED <<route, admin>> /\ lock' = [lock EXCEPT ![p] = n]
  BY DEF LoginAccepted, GoTo
<1>2. OnlyTask(s) /\ pc'[s] = "bind" /\ player'[s] = p /\ p \in Locks
  BY <1>1 DEF OnlyTask, Shape, Locks
<1>3. Own(Entries(lock[p]), s) = {} /\ Own(lock[p].held, s) = {} /\ Sound(lock[p])
  BY <1>1, <1>2, ZenonT(30) DEF Locked, SessionLocks, Asking, Holding
<1>4. s \in Tasks /\ "write" \in Modes
  BY DEF Tasks, Modes
<1>5. OnlyOf(s, lock[p], n) /\ Own(Entries(n), s) = {<<s, "write">>} /\ n.held = lock[p].held
  BY <1>3, <1>4, RequestIs
<1> HIDE DEF n
<1>6. \A l \in Locks \ {p} : Asking(s, l)' = Asking(s, l) /\ Holding(s, l)' = Holding(s, l)
  BY <1>1, <1>2 DEF Asking, Holding
<1>7. Asking(s, p)' = {<<s, "write">>} /\ Holding(s, p)' = {}
  BY <1>2 DEF Asking, Holding
<1> QED
  BY <1>1, <1>2, <1>3, <1>5, <1>6, <1>7, OneLock

LEMMA BindLocks ==
  ASSUME Shape, Addressed, NEW q, Locked(q), NEW s \in Sessions, LoginBind(s)
  PROVE  Locked(q)'
<1> USE DEF adminVars
<1>p. PICK p : p = player[s]
  OBVIOUS
<1> DEFINE n == Hold(lock[p])
           m == Request(lock[Tunnels], s, "read")
<1>1. /\ pc[s] = "bind" /\ pc' = [pc EXCEPT ![s] = "list"]
      /\ UNCHANGED <<player, route, admin>> /\ Granted(lock[p], s)
      /\ lock' = [lock EXCEPT ![p] = n, ![Tunnels] = m]
  BY <1>p DEF LoginBind, GoTo
<1>2. OnlyTask(s) /\ pc'[s] = "list"
  BY <1>1 DEF OnlyTask, Shape
<1>3. p \in Players /\ p \in Locks /\ Tunnels \in Locks /\ p # Tunnels
  BY <1>p, <1>1, ConstantsAssumption DEF Addressed, Locks
<1>4. /\ Own(Entries(lock[p]), s) = {<<s, "write">>} /\ Own(lock[p].held, s) = {}
      /\ Own(Entries(lock[Tunnels]), s) = {} /\ Own(lock[Tunnels].held, s) = {}
      /\ Sound(lock[p]) /\ Sound(lock[Tunnels])
  BY <1>p, <1>1, <1>3 DEF Locked, SessionLocks, Asking, Holding
<1>5. /\ OnlyOf(s, lock[p], n) /\ Own(Entries(n), s) = {}
      /\ n.held = lock[p].held \cup {Head(lock[p].queue)}
  BY <1>1, <1>4, HoldIs
<1>6. Own(Entries(lock[p]), s) = {Head(lock[p].queue)}
  BY <1>1, <1>4, GrantedIs
<1>7. Own(n.held, s) = {<<s, "write">>}
  <2>1. Head(lock[p].queue) = <<s, "write">>
    BY <1>4, <1>6
  <2> QED
    BY <1>4, <1>5, <2>1 DEF Own
<1>8. s \in Tasks /\ "read" \in Modes
  BY DEF Tasks, Modes
<1>9. /\ OnlyOf(s, lock[Tunnels], m) /\ Own(Entries(m), s) = {<<s, "read">>}
      /\ m.held = lock[Tunnels].held
  BY <1>4, <1>8, RequestIs
<1> HIDE DEF n, m
<1>10. \A l \in Locks \ {p, Tunnels} :
         Asking(s, l)' = Asking(s, l) /\ Holding(s, l)' = Holding(s, l)
  BY <1>p, <1>1, <1>2 DEF Asking, Holding
<1>11. /\ Asking(s, p)' = {} /\ Holding(s, p)' = {<<s, "write">>}
       /\ Asking(s, Tunnels)' = {<<s, "read">>} /\ Holding(s, Tunnels)' = {}
  BY <1>p, <1>1, <1>2, <1>3 DEF Asking, Holding
<1> QED
  BY <1>1, <1>2, <1>3, <1>4, <1>5, <1>7, <1>9, <1>10, <1>11, TwoLocks, ZenonT(30)

LEMMA ListLocks ==
  ASSUME Shape, Addressed, NEW q, Locked(q), NEW s \in Sessions, LoginList(s)
  PROVE  Locked(q)'
<1> USE DEF adminVars
<1>p. PICK p : p = player[s]
  OBVIOUS
<1> DEFINE n == Release(lock[p], s)
           m == Pass(lock[Tunnels])
<1>1. /\ pc[s] = "list" /\ pc' = [pc EXCEPT ![s] = "answer"]
      /\ UNCHANGED <<player, route, admin>> /\ Granted(lock[Tunnels], s)
      /\ lock' = [lock EXCEPT ![p] = n, ![Tunnels] = m]
  BY <1>p DEF LoginList, GoTo
<1>2. OnlyTask(s) /\ pc'[s] = "answer"
  BY <1>1 DEF OnlyTask, Shape
<1>3. p \in Players /\ p \in Locks /\ Tunnels \in Locks /\ p # Tunnels
  BY <1>p, <1>1, ConstantsAssumption DEF Addressed, Locks
<1>4. /\ Own(Entries(lock[p]), s) = {} /\ Own(lock[Tunnels].held, s) = {}
      /\ Sound(lock[p]) /\ Sound(lock[Tunnels])
  BY <1>p, <1>1, <1>3 DEF Locked, SessionLocks, Asking, Holding
<1>5. OnlyOf(s, lock[p], n) /\ Entries(n) = Entries(lock[p]) /\ Own(n.held, s) = {}
  BY <1>4, ReleaseIs
<1>6. /\ OnlyOf(s, lock[Tunnels], m) /\ Own(Entries(m), s) = {}
      /\ m.held = lock[Tunnels].held
  BY <1>1, <1>4, GrantedIs
<1> HIDE DEF n, m
<1>7. \A l \in Locks \ {p, Tunnels} :
        Asking(s, l)' = Asking(s, l) /\ Holding(s, l)' = Holding(s, l)
  BY <1>p, <1>1, <1>2 DEF Asking, Holding
<1>8. \A l : Asking(s, l)' = {} /\ Holding(s, l)' = {}
  BY <1>2 DEF Asking, Holding
<1> QED
  BY <1>1, <1>2, <1>3, <1>4, <1>5, <1>6, <1>7, <1>8, TwoLocks

LEMMA PushRequestLocks ==
  ASSUME Shape, NEW q, Locked(q), NEW s \in Sessions, PushRequest(s)
  PROVE  Locked(q)'
<1> USE DEF adminVars
<1> DEFINE n == Request(lock[Tunnels], s, "read")
<1>1. /\ pc[s] = "reading" /\ pc' = [pc EXCEPT ![s] = "find"]
      /\ UNCHANGED <<player, route, admin>> /\ lock' = [lock EXCEPT ![Tunnels] = n]
  BY DEF PushRequest, GoTo
<1>2. OnlyTask(s) /\ pc'[s] = "find" /\ Tunnels \in Locks
  BY <1>1 DEF OnlyTask, Shape, Locks
<1>3. /\ Own(Entries(lock[Tunnels]), s) = {} /\ Own(lock[Tunnels].held, s) = {}
      /\ Sound(lock[Tunnels])
  BY <1>1, <1>2, ZenonT(30) DEF Locked, SessionLocks, Asking, Holding
<1>4. s \in Tasks /\ "read" \in Modes
  BY DEF Tasks, Modes
<1>5. /\ OnlyOf(s, lock[Tunnels], n) /\ Own(Entries(n), s) = {<<s, "read">>}
      /\ n.held = lock[Tunnels].held
  BY <1>3, <1>4, RequestIs
<1> HIDE DEF n
<1>6. \A l \in Locks \ {Tunnels} :
        Asking(s, l)' = Asking(s, l) /\ Holding(s, l)' = Holding(s, l)
  BY <1>1, <1>2 DEF Asking, Holding
<1>7. Asking(s, Tunnels)' = {<<s, "read">>} /\ Holding(s, Tunnels)' = {}
  BY <1>2 DEF Asking, Holding
<1> QED
  BY <1>1, <1>2, <1>3, <1>5, <1>6, <1>7, OneLock

LEMMA PushUnknownLocks ==
  ASSUME Shape, NEW q, Locked(q), NEW s \in Sessions, PushUnknown(s)
  PROVE  Locked(q)'
<1> USE DEF adminVars
<1> DEFINE n == Pass(lock[Tunnels])
<1>1. /\ pc[s] = "find" /\ pc' = [pc EXCEPT ![s] = "reading"]
      /\ UNCHANGED <<player, route, admin>> /\ Granted(lock[Tunnels], s)
      /\ lock' = [lock EXCEPT ![Tunnels] = n]
  BY DEF PushUnknown, GoTo
<1>2. OnlyTask(s) /\ pc'[s] = "reading" /\ Tunnels \in Locks
  BY <1>1 DEF OnlyTask, Shape, Locks
<1>3. Own(lock[Tunnels].held, s) = {} /\ Sound(lock[Tunnels])
  BY <1>1, <1>2 DEF Locked, SessionLocks, Holding
<1>4. /\ OnlyOf(s, lock[Tunnels], n) /\ Own(Entries(n), s) = {}
      /\ n.held = lock[Tunnels].held
  BY <1>1, <1>3, GrantedIs
<1> HIDE DEF n
<1>5. \A l \in Locks \ {Tunnels} :
        Asking(s, l)' = Asking(s, l) /\ Holding(s, l)' = Holding(s, l)
  BY <1>1, <1>2 DEF Asking, Holding
<1>6. Asking(s, Tunnels)' = {} /\ Holding(s, Tunnels)' = {}
  BY <1>2 DEF Asking, Holding
<1> QED
  BY <1>1, <1>2, <1>3, <1>4, <1>5, <1>6, OneLock

LEMMA PushFindLocks ==
  ASSUME Shape, Addressed, NEW q, Locked(q), NEW s \in Sessions, NEW r \in Routes,
         PushFind(s, r)
  PROVE  Locked(q)'
<1> USE DEF adminVars
<1>p. PICK p : p = r[2]
  OBVIOUS
<1> DEFINE n == Hold(lock[Tunnels])
           m == Request(lock[p], s, "read")
<1>1. /\ pc[s] = "find" /\ pc' = [pc EXCEPT ![s] = "route"]
      /\ route' = [route EXCEPT ![s] = r]
      /\ UNCHANGED <<player, admin>> /\ Granted(lock[Tunnels], s)
      /\ lock' = [lock EXCEPT ![Tunnels] = n, ![p] = m]
  BY <1>p, ZenonT(30) DEF PushFind, GoTo
<1>2. OnlyTask(s) /\ pc'[s] = "route" /\ route'[s] = r
  BY <1>1 DEF OnlyTask, Shape, Addressed
<1>3. p \in Players /\ p \in Locks /\ Tunnels \in Locks /\ p # Tunnels
  BY <1>p, ConstantsAssumption, SMTT(30) DEF Locks
<1>4. /\ Own(Entries(lock[Tunnels]), s) = {<<s, "read">>}
      /\ Own(lock[Tunnels].held, s) = {}
      /\ Own(Entries(lock[p]), s) = {} /\ Own(lock[p].held, s) = {}
      /\ Sound(lock[p]) /\ Sound(lock[Tunnels])
  BY <1>1, <1>3, ZenonT(30) DEF Locked, SessionLocks, Asking, Holding
<1>5. /\ OnlyOf(s, lock[Tunnels], n) /\ Own(Entries(n), s) = {}
      /\ n.held = lock[Tunnels].held \cup {Head(lock[Tunnels].queue)}
  BY <1>1, <1>4, HoldIs, SMTT(30)
<1>6. Own(Entries(lock[Tunnels]), s) = {Head(lock[Tunnels].queue)}
  BY <1>1, <1>4, GrantedIs, ZenonT(30)
<1>7. Own(n.held, s) = {<<s, "read">>}
  <2>1. Head(lock[Tunnels].queue) = <<s, "read">>
    BY <1>4, <1>6
  <2> QED
    BY <1>4, <1>5, <2>1, ZenonT(30) DEF Own
<1>8. s \in Tasks /\ "read" \in Modes
  BY DEF Tasks, Modes
<1>9. /\ OnlyOf(s, lock[p], m) /\ Own(Entries(m), s) = {<<s, "read">>}
      /\ m.held = lock[p].held
  BY <1>4, <1>8, RequestIs
<1> HIDE DEF n, m
<1>10. \A l \in Locks \ {Tunnels, p} :
         Asking(s, l)' = Asking(s, l) /\ Holding(s, l)' = Holding(s, l)
  BY <1>p, <1>1, <1>2 DEF Asking, Holding
<1>11. /\ Asking(s, Tunnels)' = {} /\ Holding(s, Tunnels)' = {<<s, "read">>}
       /\ Asking(s, p)' = {<<s, "read">>} /\ Holding(s, p)' = {}
  BY <1>p, <1>2, <1>3 DEF Asking, Holding
<1> QED
  BY <1>1, <1>2, <1>3, <1>4, <1>5, <1>7, <1>9, <1>10, <1>11, TwoLocks, ZenonT(30)

LEMMA PushRouteLocks ==
  ASSUME Shape, Addressed, NEW q, Locked(q), NEW s \in Sessions, PushRoute(s)
  PROVE  Locked(q)'
<1> USE DEF adminVars
<1>p. PICK to, from : to = route[s][2] /\ from = route[s][1]
  OBVIOUS
<1>n. PICK next : next = IF session_id[to] # Offline THEN to ELSE from
  OBVIOUS
<1>w. PICK where : where = IF session_id[to] # Offline THEN "send" ELSE "bounce"
  OBVIOUS
<1> DEFINE n == Pass(lock[to])
<1>1. /\ pc[s] = "route" /\ pc' = [pc EXCEPT ![s] = where]
      /\ UNCHANGED <<player, route, admin>> /\ Granted(lock[to], s)
      /\ lock' = [[lock EXCEPT ![to] = n] EXCEPT ![next] = Request(@, s, "read")]
  BY <1>p, <1>n, <1>w, ZenonT(30) DEF PushRoute, GoTo
<1>2. OnlyTask(s) /\ pc'[s] = where /\ where \in {"send", "bounce"}
  BY <1>1, <1>w DEF OnlyTask, Shape
<1>3. {to, from, next} \subseteq Locks \ {Tunnels} /\ Tunnels \in Locks
  <2>1. route[s] \in Players \X Players
    BY <1>1, ConstantsAssumption DEF Addressed
  <2> QED
    BY <1>p, <1>n, <2>1, ConstantsAssumption DEF Locks
<1>4. /\ \A l \in Locks \ {to} : Own(Entries(lock[l]), s) = {}
      /\ \A l \in Locks \ {Tunnels} : Own(lock[l].held, s) = {}
      /\ \A l \in Locks : Sound(lock[l])
  BY <1>p, <1>1, ZenonT(30) DEF Locked, SessionLocks, Asking, Holding
<1>5. OnlyOf(s, lock[to], n) /\ Own(Entries(n), s) = {} /\ n.held = lock[to].held
  BY <1>1, <1>3, <1>4, GrantedIs, ZenonT(30)
<1>6. s \in Tasks /\ "read" \in Modes /\ Sound(n)
  BY <1>5 DEF Tasks, Modes, OnlyOf
<1> HIDE DEF n
<1>7. \A l \in Locks : /\ Asking(s, l)' = IF l = next THEN {<<s, "read">>} ELSE {}
                       /\ Holding(s, l)' = Holding(s, l)
  BY <1>p, <1>n, <1>w, <1>1, <1>2, ZenonT(30) DEF Asking, Holding
<1>8. \A l \in Locks \ {Tunnels} : Holding(s, l)' = {}
  BY <1>2 DEF Holding
<1>9. \A l \in Locks \ {to} : Asking(s, l) = {}
  BY <1>p, <1>1 DEF Asking
<1>10. CASE next = to
  <2> DEFINE m == Request(n, s, "read")
  <2>1. OnlyOf(s, n, m) /\ Own(Entries(m), s) = {<<s, "read">>} /\ m.held = n.held
    BY <1>5, <1>6, RequestIs
  <2>2. lock' = [lock EXCEPT ![to] = m]
    BY <1>1, <1>3, <1>10 DEF Locked
  <2> HIDE DEF m
  <2>3. OnlyOf(s, lock[to], m)
    BY <1>5, <2>1, OnlyOfTwice
  <2>4. Own(m.held, s) = {}
    BY <1>3, <1>4, <1>5, <2>1
  <2>5. \A l \in Locks \ {to} : Asking(s, l)' = Asking(s, l) /\ Holding(s, l)' = Holding(s, l)
    BY <1>7, <1>9, <1>10
  <2>6. to \in Locks /\ Asking(s, to)' = {<<s, "read">>} /\ Holding(s, to)' = {}
    BY <1>3, <1>7, <1>8, <1>10
  <2> QED
    BY <1>2, <2>1, <2>2, <2>3, <2>4, <2>5, <2>6, OneLock
<1>11. CASE next # to
  <2> DEFINE m == Request(lock[next], s, "read")
  <2>1. OnlyOf(s, lock[next], m) /\ Own(Entries(m), s) = {<<s, "read">>}
        /\ m.held = lock[next].held
    <3>1. Sound(lock[next]) /\ Own(Entries(lock[next]), s) = {}
      BY <1>3, <1>4, <1>11
    <3> QED
      BY <1>6, <3>1, RequestIs
  <2>2. lock' = [lock EXCEPT ![to] = n, ![next] = m]
    BY <1>1, <1>3, <1>11 DEF Locked
  <2> HIDE DEF m
  <2>3. Own(m.held, s) = {} /\ Own(n.held, s) = {}
    BY <1>3, <1>4, <1>5, <2>1, ZenonT(30)
  <2>4. \A l \in Locks \ {to, next} :
          Asking(s, l)' = Asking(s, l) /\ Holding(s, l)' = Holding(s, l)
    BY <1>7, <1>9
  <2>5. /\ to \in Locks /\ Asking(s, to)' = {} /\ Holding(s, to)' = {}
        /\ next \in Locks /\ Asking(s, next)' = {<<s, "read">>} /\ Holding(s, next)' = {}
    BY <1>3, <1>7, <1>8, <1>11
  <2> QED
    BY <1>2, <1>5, <1>11, <2>1, <2>2, <2>3, <2>4, <2>5, TwoLocks
<1> QED
  BY <1>10, <1>11

(* The message is sent on, or dropped, and the list let go.                *)
LEMMA PushEndLocks ==
  ASSUME Shape, Addressed, NEW q, Locked(q), NEW s \in Sessions,
         PushDrop(s) \/ PushSend(s)
  PROVE  Locked(q)'
<1> USE DEF adminVars
<1>p. PICK p : p = IF pc[s] = "bounce" THEN route[s][1] ELSE route[s][2]
  OBVIOUS
<1> DEFINE n == Pass(lock[p])
           m == Release(lock[Tunnels], s)
<1>1. /\ pc[s] \in {"route", "send", "bounce"} /\ pc' = [pc EXCEPT ![s] = "reading"]
      /\ route' = [route EXCEPT ![s] = NoRoute]
      /\ UNCHANGED <<player, admin>> /\ Granted(lock[p], s)
      /\ \/ lock' = [[lock EXCEPT ![p] = n] EXCEPT ![Tunnels] = Release(@, s)]
         \/ lock' = [lock EXCEPT ![p] = n, ![Tunnels] = m]
  BY <1>p, ZenonT(30) DEF PushDrop, PushSend, GoTo
<1>2. OnlyTask(s) /\ pc'[s] = "reading"
  BY <1>1 DEF OnlyTask, Shape, Addressed
<1>3. p \in Locks /\ Tunnels \in Locks /\ p # Tunnels
  <2>1. route[s] \in Players \X Players
    BY <1>1, ConstantsAssumption DEF Addressed
  <2> QED
    BY <1>p, <2>1, ConstantsAssumption DEF Locks
<1>4. lock' = [lock EXCEPT ![p] = n, ![Tunnels] = m]
  BY <1>1, <1>3 DEF Locked
<1>5. /\ Own(lock[p].held, s) = {} /\ Own(Entries(lock[Tunnels]), s) = {}
      /\ Sound(lock[p]) /\ Sound(lock[Tunnels])
  <2>1. Asking(s, Tunnels) = {} /\ Holding(s, p) = {}
    BY <1>p, <1>1, <1>3, ConstantsAssumption DEF Asking, Holding, Addressed
  <2> QED
    BY <1>3, <2>1 DEF Locked, SessionLocks
<1>6. OnlyOf(s, lock[p], n) /\ Own(Entries(n), s) = {} /\ n.held = lock[p].held
  BY <1>1, <1>5, GrantedIs, ZenonT(30)
<1>7. /\ OnlyOf(s, lock[Tunnels], m) /\ Own(m.held, s) = {}
      /\ Entries(m) = Entries(lock[Tunnels])
  BY <1>5, ReleaseIs
<1> HIDE DEF n, m
<1>8. \A l : Asking(s, l)' = {} /\ Holding(s, l)' = {}
  BY <1>2, SMTT(30) DEF Asking, Holding
<1>9. \A l \in Locks \ {p, Tunnels} : Asking(s, l) = {} /\ Holding(s, l) = {}
  BY <1>p, <1>1, ZenonT(30) DEF Asking, Holding
<1> QED
  BY <1>2, <1>3, <1>4, <1>5, <1>6, <1>7, <1>8, <1>9, TwoLocks

(* The handler is dropped; on_session_close may ask for the Player.        *)
LEMMA SelectLocks ==
  ASSUME Shape, Addressed, NEW q, Locked(q), NEW s \in Sessions, SelectReturns(s)
  PROVE  Locked(q)'
<1> USE DEF adminVars
<1>p. PICK p : p = player[s]
  OBVIOUS
<1>1. /\ route' = [route EXCEPT ![s] = NoRoute] /\ UNCHANGED <<player, admin>>
      /\ \/ p = NoPlayer /\ pc' = [pc EXCEPT ![s] = "closed"] /\ lock' = Withdrawn(s)
         \/ /\ p # NoPlayer /\ pc' = [pc EXCEPT ![s] = "compare"]
            /\ lock' = [Withdrawn(s) EXCEPT ![p] = Request(@, s, "read")]
  BY <1>p DEF SelectReturns, GoTo
<1>2. OnlyTask(s)
  BY <1>1 DEF OnlyTask, Shape, Addressed
<1>3. Withdrawn(s) = [l \in Locks |-> Withdraw(lock[l], s)]
  BY DEF Withdrawn, Locked
<1>4. ASSUME NEW l \in Locks
      PROVE  /\ OnlyOf(s, lock[l], Withdraw(lock[l], s)) /\ Withdraw(lock[l], s) \in Lock
             /\ Own(Entries(Withdraw(lock[l], s)), s) = {}
             /\ Own(Withdraw(lock[l], s).held, s) = {}
             /\ Sound(Withdraw(lock[l], s))
  <2>1. Sound(lock[l])
    BY DEF Locked
  <2>2. /\ OnlyOf(s, lock[l], Withdraw(lock[l], s))
        /\ Own(Entries(Withdraw(lock[l], s)), s) = {}
        /\ Own(Withdraw(lock[l], s).held, s) = {}
    BY <2>1, WithdrawIs
  <2> QED
    BY <2>2 DEF OnlyOf, Sound
<1>5. CASE p = NoPlayer
  <2>1. pc'[s] = "closed" /\ lock' = [l \in Locks |-> Withdraw(lock[l], s)]
    BY <1>1, <1>3, <1>5 DEF Shape
  <2>2. /\ lock' \in [Locks -> Lock]
        /\ \A l \in Locks : OnlyOf(s, lock[l], lock'[l])
    BY <1>4, <2>1
  <2>3. SessionLocks(s)'
    BY <1>4, <2>1, ZenonT(30) DEF SessionLocks, Asking, Holding
  <2> QED
    BY <1>2, <2>2, <2>3, TaskStep
<1>6. CASE p # NoPlayer
  <2> DEFINE n == Request(Withdraw(lock[p], s), s, "read")
  <2>1. p \in Locks /\ s \in Tasks /\ "read" \in Modes
    BY <1>p, <1>6 DEF Shape, Locks, Tasks, Modes
  <2>2. /\ OnlyOf(s, Withdraw(lock[p], s), n) /\ Own(Entries(n), s) = {<<s, "read">>}
        /\ n.held = Withdraw(lock[p], s).held
    BY <1>4, <2>1, RequestIs
  <2>3. pc'[s] = "compare" /\ player'[s] = p
    BY <1>p, <1>1, <1>6 DEF Shape
  <2>4. /\ lock' = [Withdrawn(s) EXCEPT ![p] = Request(@, s, "read")]
        /\ lock'[p] = n
        /\ \A l \in Locks \ {p} : lock'[l] = Withdraw(lock[l], s)
    BY <1>1, <1>3, <1>6, <2>1
  <2>5. n \in Lock /\ OnlyOf(s, lock[p], n)
    <3>1. OnlyOf(s, lock[p], Withdraw(lock[p], s))
      BY <1>4, <2>1
    <3> QED
      BY <2>2, <3>1, OnlyOfTwice DEF OnlyOf, Sound
  <2> HIDE DEF n
  <2>6. lock' \in [Locks -> Lock] /\ \A l \in Locks : OnlyOf(s, lock[l], lock'[l])
    <3>1. lock' = [l \in Locks |-> lock'[l]]
      BY <1>3, <2>4
    <3> QED
      BY <1>4, <2>4, <2>5, <3>1
  <2>7. \A l : Asking(s, l)' = (IF l = p THEN {<<s, "read">>} ELSE {}) /\ Holding(s, l)' = {}
    BY <2>3 DEF Asking, Holding
  <2>8. ASSUME NEW l \in Locks
        PROVE  Own(Entries(lock'[l]), s) = Asking(s, l)' /\ Own(lock'[l].held, s) = Holding(s, l)'
    <3>1. CASE l = p
      BY <1>4, <2>1, <2>2, <2>4, <2>7, <3>1
    <3>2. CASE l # p
      BY <1>4, <2>4, <2>7, <3>2, ZenonT(30)
    <3> QED
      BY <3>1, <3>2
  <2>9. SessionLocks(s)'
    BY <2>8 DEF SessionLocks
  <2> QED
    BY <1>2, <2>6, <2>9, TaskStep
<1> QED
  BY <1>5, <1>6

LEMMA CloseLocks ==
  ASSUME Shape, Addressed, NEW q, Locked(q), NEW s \in Sessions, Close(s)
  PROVE  Locked(q)'
<1> USE DEF adminVars
<1>p. PICK p : p = player[s]
  OBVIOUS
<1> DEFINE n == Pass(lock[p])
           m == Request(n, s, "write")
<1>1. /\ pc[s] \in {"compare", "reset"} /\ Granted(lock[p], s)
      /\ UNCHANGED <<player, route, admin>>
      /\ \/ lock' = [lock EXCEPT ![p] = n] /\ pc' = [pc EXCEPT ![s] = "closed"]
         \/ lock' = [lock EXCEPT ![p] = m] /\ pc' = [pc EXCEPT ![s] = "reset"]
  BY <1>p, ZenonT(30) DEF Close, CloseCompare, CloseReset, GoTo
<1>2. OnlyTask(s) /\ player'[s] = p /\ p \in Locks
  BY <1>p, <1>1 DEF OnlyTask, Shape, Addressed, Locks
<1>3. Own(lock[p].held, s) = {} /\ Sound(lock[p])
  BY <1>1, <1>2 DEF Locked, SessionLocks, Holding
<1>4. OnlyOf(s, lock[p], n) /\ Own(Entries(n), s) = {} /\ n.held = lock[p].held
  BY <1>1, <1>3, GrantedIs, ZenonT(30)
<1>5. s \in Tasks /\ "write" \in Modes /\ Sound(n)
  BY <1>4 DEF Tasks, Modes, OnlyOf
<1>6. OnlyOf(s, n, m) /\ Own(Entries(m), s) = {<<s, "write">>} /\ m.held = n.held
  BY <1>4, <1>5, RequestIs
<1> HIDE DEF n, m
<1>7. OnlyOf(s, lock[p], m)
  BY <1>4, <1>6, OnlyOfTwice
<1>8. \A l \in Locks \ {p} : Asking(s, l) = {} /\ Holding(s, l) = {}
  BY <1>p, <1>1 DEF Asking, Holding
<1>9. CASE lock' = [lock EXCEPT ![p] = n] /\ pc' = [pc EXCEPT ![s] = "closed"]
  <2>1. \A l : Asking(s, l)' = {} /\ Holding(s, l)' = {}
    BY <1>9 DEF Asking, Holding, Shape
  <2> QED
    BY <1>2, <1>3, <1>4, <1>8, <1>9, <2>1, OneLock, ZenonT(30)
<1>10. CASE lock' = [lock EXCEPT ![p] = m] /\ pc' = [pc EXCEPT ![s] = "reset"]
  <2>1. /\ Asking(s, p)' = {<<s, "write">>}
        /\ \A l : Holding(s, l)' = {} /\ (l # p => Asking(s, l)' = {})
    BY <1>2, <1>10, ZenonT(30) DEF Asking, Holding, Shape
  <2> QED
    BY <1>2, <1>3, <1>4, <1>6, <1>7, <1>8, <1>10, <2>1, OneLock, ZenonT(30)
<1> QED
  BY <1>1, <1>9, <1>10, SMTT(30)

(* The administration, which has one request at a time and no guard.       *)
LEMMA AdminLock ==
  ASSUME NEW q, Locked(q), NEW r, NEW a \in Locks, NEW n,
         lock' = [lock EXCEPT ![a] = n], UNCHANGED <<pc, player, route>>,
         OnlyOf(Admin, lock[a], n), n.held = lock[a].held,
         Own(Entries(n), Admin) = AdminAsking(r, a)',
         \A l \in Locks \ {a} : AdminAsking(r, l)' = AdminAsking(q, l)
  PROVE  Locked(r)'
<1>1. /\ lock' \in [Locks -> Lock] /\ lock'[a] = n
      /\ \A l \in Locks \ {a} : lock'[l] = lock[l]
  BY DEF Locked, OnlyOf, Sound
<1>2. \A l \in Locks : OnlyOf(Admin, lock[l], lock'[l])
  BY <1>1, SameLock DEF Locked
<1>3. \A l \in Locks : Sound(lock'[l])
  BY <1>2 DEF OnlyOf
<1>4. ASSUME NEW s \in Sessions PROVE SessionLocks(s)'
  <2>1. \A l : Asking(s, l)' = Asking(s, l) /\ Holding(s, l)' = Holding(s, l)
    BY DEF Asking, Holding
  <2>2. ASSUME NEW l \in Locks
        PROVE  /\ Own(Entries(lock'[l]), s) = Own(Entries(lock[l]), s)
               /\ Own(lock'[l].held, s) = Own(lock[l].held, s)
    <3>1. s # Admin
      BY ConstantsAssumption
    <3>2. /\ Others(Entries(lock'[l]), Admin) = Others(Entries(lock[l]), Admin)
          /\ Others(lock'[l].held, Admin) = Others(lock[l].held, Admin)
      BY <1>2 DEF OnlyOf
    <3> QED
      BY <3>1, <3>2, ZenonT(30) DEF Own, Others
  <2> QED
    BY <2>1, <2>2 DEF Locked, SessionLocks
<1>5. AdminLocks(r)'
  <2> SUFFICES ASSUME NEW l \in Locks
               PROVE  /\ Own(Entries(lock'[l]), Admin) = AdminAsking(r, l)'
                      /\ Own(lock'[l].held, Admin) = {}
    BY DEF AdminLocks
  <2>1. CASE l = a
    BY <1>1, <2>1 DEF Locked, AdminLocks
  <2>2. CASE l # a
    BY <1>1, <2>2 DEF Locked, AdminLocks
  <2> QED
    BY <2>1, <2>2
<1> QED
  BY <1>1, <1>3, <1>4, <1>5 DEF Locked

(* It asks.                                                                *)
LEMMA AdminAsks ==
  ASSUME NEW q, Locked(q),
         \/ \E ps \in SUBSET Players : AdminStart(ps)
         \/ \E p \in Players : AdminNext(p)
         \/ AdminStore
  PROVE  \E r \in Players \cup {q} : Locked(r)'
<1> USE DEF PeersUnchanged, peerVars
<1>1. PICK a \in Locks, mode \in Modes, where \in {"check", "notify", "store"} :
        /\ admin \in {"idle", "next"} /\ admin' = where
        /\ UNCHANGED <<pc, player, route>>
        /\ lock' = [lock EXCEPT ![a] = Request(@, Admin, mode)]
        /\ mode = IF where = "store" THEN "write" ELSE "read"
        /\ IF where = "notify" THEN a \in Players ELSE a = Tunnels
  BY DEF AdminStart, AdminNext, AdminStore, Locks, Modes
<1>2. PICK r : r = IF where = "notify" THEN a ELSE q
  OBVIOUS
<1> DEFINE n == Request(lock[a], Admin, mode)
<1>3. Own(Entries(lock[a]), Admin) = {} /\ Sound(lock[a]) /\ Admin \in Tasks
  BY <1>1 DEF Locked, AdminLocks, AdminAsking, Tasks
<1>4. /\ OnlyOf(Admin, lock[a], n) /\ Own(Entries(n), Admin) = {<<Admin, mode>>}
      /\ n.held = lock[a].held
  BY <1>3, RequestIs
<1>5. lock' = [lock EXCEPT ![a] = n]
  BY <1>1
<1> HIDE DEF n
<1>6. AdminAsking(r, a)' = {<<Admin, mode>>}
  BY <1>1, <1>2 DEF AdminAsking
<1>7. \A l \in Locks \ {a} : AdminAsking(r, l)' = {} /\ AdminAsking(q, l) = {}
  BY <1>1, <1>2 DEF AdminAsking
<1>8. Locked(r)'
  BY <1>1, <1>4, <1>5, <1>6, <1>7, AdminLock
<1> QED
  BY <1>1, <1>2, <1>8

(* It is given what it asked for.                                          *)
LEMMA AdminGets ==
  ASSUME NEW q, Locked(q),
         \/ \E ok \in BOOLEAN : AdminCheck(ok)
         \/ \E p \in Players : AdminNotify(p)
         \/ AdminStored \/ AdminSync
  PROVE  Locked(q)'
<1> USE DEF PeersUnchanged, peerVars
<1>1. PICK a \in Locks :
        /\ UNCHANGED <<pc, player, route>> /\ Granted(lock[a], Admin)
        /\ \/ /\ admin' \in {"idle", "next"}
              /\ lock' = [lock EXCEPT ![a] = Pass(@)]
           \/ /\ admin' = "sync" /\ a = Tunnels
              /\ lock' = [lock EXCEPT ![a] = Request(Pass(@), Admin, "read")]
  BY ZenonT(30) DEF AdminCheck, AdminNotify, AdminStored, AdminSync, Locks
<1> DEFINE n == Pass(lock[a])
           m == Request(n, Admin, "read")
<1>2. Sound(lock[a])
  BY DEF Locked
<1>3. /\ OnlyOf(Admin, lock[a], n) /\ Own(Entries(n), Admin) = {}
      /\ n.held = lock[a].held
      /\ Own(Entries(lock[a]), Admin) = {Head(lock[a].queue)}
  BY <1>1, <1>2, GrantedIs, ZenonT(30)
<1>4. Sound(n) /\ Admin \in Tasks /\ "read" \in Modes
  BY <1>3 DEF OnlyOf, Tasks, Modes
<1>5. OnlyOf(Admin, n, m) /\ Own(Entries(m), Admin) = {<<Admin, "read">>} /\ m.held = n.held
  BY <1>3, <1>4, RequestIs
<1>6. \/ admin' \in {"idle", "next"} /\ lock' = [lock EXCEPT ![a] = n]
      \/ admin' = "sync" /\ a = Tunnels /\ lock' = [lock EXCEPT ![a] = m]
  BY <1>1
<1> HIDE DEF n, m
<1>7. OnlyOf(Admin, lock[a], m)
  BY <1>3, <1>5, OnlyOfTwice
<1>8. AdminAsking(q, a) # {}
  BY <1>3 DEF Locked, AdminLocks
<1>9. \A l \in Locks \ {a} : AdminAsking(q, l) = {}
  BY <1>8 DEF AdminAsking
<1>10. CASE admin' \in {"idle", "next"} /\ lock' = [lock EXCEPT ![a] = n]
  <2>1. \A l : AdminAsking(q, l)' = {}
    BY <1>10 DEF AdminAsking
  <2> QED
    BY <1>1, <1>3, <1>9, <1>10, <2>1, AdminLock
<1>11. CASE admin' = "sync" /\ a = Tunnels /\ lock' = [lock EXCEPT ![a] = m]
  <2>1. /\ AdminAsking(q, a)' = {<<Admin, "read">>}
        /\ \A l : l # a => AdminAsking(q, l)' = {}
    BY <1>11 DEF AdminAsking
  <2>2. m.held = lock[a].held /\ lock' = [lock EXCEPT ![a] = m]
    BY <1>3, <1>5, <1>11
  <2>3. \A l \in Locks \ {a} : AdminAsking(q, l)' = AdminAsking(q, l)
    BY <1>9, <2>1
  <2>4. Own(Entries(m), Admin) = AdminAsking(q, a)'
    BY <1>5, <2>1
  <2>5. UNCHANGED <<pc, player, route>>
    BY <1>1
  <2> QED
    BY <1>7, <2>2, <2>3, <2>4, <2>5, AdminLock
<1> QED
  BY <1>6, <1>10, <1>11

LEMMA AddressedStep ==
  ASSUME Shape, Addressed, [Next]_vars
  PROVE  Addressed'
<1> USE DEF peerVars, adminVars
<1>1. CASE UNCHANGED <<pc, player, route>>
  BY <1>1 DEF Addressed
<1>2. ASSUME NEW s \in Sessions, NEW c, pc' = [pc EXCEPT ![s] = c],
             UNCHANGED <<player, route>>,
             c \in {"list", "compare", "reset"} => player[s] \in Players,
             c \in {"send", "bounce"} => route[s] \in Routes,
             c \notin {"bind", "route"}
      PROVE  Addressed'
  BY <1>2 DEF Addressed, Shape
<1>3. ASSUME NEW s \in Sessions, NEW p \in Players, LoginAccepted(s, p)
      PROVE  Addressed'
  BY <1>3 DEF LoginAccepted, GoTo, Addressed, Shape
<1>4. ASSUME NEW s \in Sessions, NEW r \in Routes, PushFind(s, r) PROVE Addressed'
  BY <1>4, ZenonT(30) DEF PushFind, GoTo, Addressed, Shape
<1>5. ASSUME NEW s \in Sessions, NEW c, pc' = [pc EXCEPT ![s] = c],
             UNCHANGED player, route' = [route EXCEPT ![s] = NoRoute],
             c \in {"reading", "closed"} \/ (c = "compare" /\ player[s] \in Players)
      PROVE  Addressed'
  BY <1>5 DEF Addressed, Shape
<1>6. ASSUME NEW s \in Sessions,
             \/ Connect(s) \/ LoginRequest(s) \/ PushRequest(s) \/ LoginRefused(s)
             \/ LoginBind(s) \/ LoginList(s) \/ LoginAnswer(s)
             \/ PushUnknown(s) \/ PushRoute(s) \/ CloseCompare(s) \/ CloseReset(s)
      PROVE  Addressed'
  <2>1. pc[s] \in {"bind", "compare"} => player[s] \in Players
    BY DEF Addressed
  <2>2. pc[s] = "route" => route[s] \in Routes
    BY DEF Addressed
  <2>3. UNCHANGED <<player, route>>
    BY <1>6, ZenonT(30)
    DEF Connect, LoginRequest, PushRequest, LoginRefused, LoginBind, LoginList,
                LoginAnswer, PushUnknown, PushRoute, CloseCompare, CloseReset
  <2>4. \E c : /\ pc' = [pc EXCEPT ![s] = c]
               /\ \/ c \in {"reading", "query", "find", "answer", "closed"}
                  \/ c = "list" /\ pc[s] = "bind"
                  \/ c = "reset" /\ pc[s] = "compare"
                  \/ c \in {"send", "bounce"} /\ pc[s] = "route"
    BY <1>6, ZenonT(30)
    DEF Connect, LoginRequest, PushRequest, LoginRefused, LoginBind, LoginList,
                LoginAnswer, PushUnknown, PushRoute, CloseCompare, CloseReset, GoTo
  <2>5. PICK c : /\ pc' = [pc EXCEPT ![s] = c]
                 /\ \/ c \in {"reading", "query", "find", "answer", "closed"}
                    \/ c = "list" /\ pc[s] = "bind"
                    \/ c = "reset" /\ pc[s] = "compare"
                    \/ c \in {"send", "bounce"} /\ pc[s] = "route"
    BY <2>4
  <2> QED
    BY <1>2, <2>1, <2>2, <2>3, <2>5
<1>7. ASSUME NEW s \in Sessions, PushDrop(s) \/ PushSend(s) PROVE Addressed'
  BY <1>5, <1>7, ZenonT(30) DEF PushDrop, PushSend, GoTo
<1>8. ASSUME NEW s \in Sessions, WriterClose(s) \/ WriteError(s) \/ ReadEof(s) \/ Shutdown(s)
      PROVE  Addressed'
  <2>1. SelectReturns(s)
    BY <1>8 DEF WriterClose, WriteError, ReadEof, Shutdown
  <2>2. UNCHANGED player /\ route' = [route EXCEPT ![s] = NoRoute]
    BY <2>1 DEF SelectReturns
  <2>3. \/ pc' = [pc EXCEPT ![s] = "closed"]
        \/ pc' = [pc EXCEPT ![s] = "compare"] /\ player[s] \in Players
    BY <2>1, SMTT(30) DEF SelectReturns, GoTo, Shape
  <2> QED
    BY <1>5, <2>2, <2>3, ZenonT(30)
<1>9. ASSUME \/ \E s \in Sessions : ClientLeaves(s) \/ Deliver(s)
             \/ \E ps \in SUBSET Players : AdminStart(ps)
             \/ Administer \/ ShutdownSignal \/ UNCHANGED vars
      PROVE  UNCHANGED <<pc, player, route>>
  BY <1>9, ZenonT(30) DEF ClientLeaves, Deliver, AdminStart, Administer, AdminCheck, AdminNext,
              AdminNotify, AdminStore, AdminStored, AdminSync, ShutdownSignal,
              PeersUnchanged, vars
<1> QED
  BY <1>1, <1>3, <1>4, <1>6, <1>7, <1>8, <1>9 DEF Next, Login, Push, Writer, Close

(* LocksFollow is inductive.                                               *)
LEMMA LocksFollowStep ==
  ASSUME Shape, LocksFollow, [Next]_vars
  PROVE  LocksFollow'
<1> USE DEF peerVars, adminVars
<1> DEFINE Good == \E r \in Players \cup {NoPlayer} : Locked(r)'
<1>0. Addressed /\ Addressed'
  BY AddressedStep DEF LocksFollow
<1>q. PICK q \in Players \cup {NoPlayer} : Locked(q)
  BY DEF LocksFollow
<1>1. ASSUME NEW s \in Sessions,
             \/ Connect(s) \/ ClientLeaves(s) \/ Deliver(s) \/ LoginRequest(s)
             \/ LoginRefused(s) \/ LoginAnswer(s)
      PROVE  Good
  BY <1>q, <1>1, QuietLocks
<1>2. ASSUME NEW s \in Sessions,
             \/ \E p \in Players : LoginAccepted(s, p)
             \/ LoginBind(s) \/ LoginList(s)
      PROVE  Good
  BY <1>0, <1>q, <1>2, AcceptedLocks, BindLocks, ListLocks
<1>3. ASSUME NEW s \in Sessions, PushRequest(s) \/ Push(s) PROVE Good
  BY <1>0, <1>q, <1>3, PushRequestLocks, PushUnknownLocks, PushFindLocks, PushRouteLocks,
     PushEndLocks DEF Push
<1>4. ASSUME NEW s \in Sessions, WriterClose(s) \/ WriteError(s) \/ ReadEof(s) \/ Shutdown(s)
      PROVE  Good
  BY <1>0, <1>q, <1>4, SelectLocks DEF WriterClose, WriteError, ReadEof, Shutdown
<1>5. ASSUME NEW s \in Sessions, Close(s) PROVE Good
  BY <1>0, <1>q, <1>5, CloseLocks
<1>6. ASSUME (\E ps \in SUBSET Players : AdminStart(ps)) \/ Administer PROVE Good
  <2>1. CASE \/ \E ps \in SUBSET Players : AdminStart(ps)
             \/ \E p \in Players : AdminNext(p)
             \/ AdminStore
    BY <1>q, <2>1, AdminAsks
  <2>2. CASE \/ \E ok \in BOOLEAN : AdminCheck(ok)
             \/ \E p \in Players : AdminNotify(p)
             \/ AdminStored \/ AdminSync
    BY <1>q, <2>2, AdminGets
  <2> QED
    BY <1>6, <2>1, <2>2 DEF Administer
<1>7. ASSUME ShutdownSignal \/ UNCHANGED vars PROVE Good
  <2>1. UNCHANGED <<pc, player, route, lock, admin>>
    BY <1>7 DEF ShutdownSignal, vars
  <2>2. \A s \in Sessions, l \in Locks :
          Asking(s, l)' = Asking(s, l) /\ Holding(s, l)' = Holding(s, l)
    BY <2>1 DEF Asking, Holding
  <2>3. \A l \in Locks : AdminAsking(q, l)' = AdminAsking(q, l)
    BY <2>1 DEF AdminAsking
  <2>4. (\A s \in Sessions : SessionLocks(s)') /\ AdminLocks(q)'
    BY <1>q, <2>1, <2>2, <2>3 DEF Locked, SessionLocks, AdminLocks
  <2>5. Locked(q)'
    BY <1>q, <2>1, <2>4 DEF Locked
  <2> QED
    BY <2>5
<1>8. Good
  BY <1>1, <1>2, <1>3, <1>4, <1>5, <1>6, <1>7 DEF Next, Login, Writer
<1>9. PICK r \in Players \cup {NoPlayer} : Locked(r)'
  BY <1>8
<1> QED
  BY <1>0, <1>9 DEF LocksFollow

LEMMA LocksFollowInit == Init => LocksFollow
<1> SUFFICES ASSUME Init PROVE LocksFollow
  OBVIOUS
<1>1. /\ pc = [s \in Sessions |-> "none"] /\ route = [s \in Sessions |-> NoRoute]
      /\ admin = "idle" /\ lock = [l \in Locks |-> Free]
  BY DEF Init, Locks
<1>2. Free \in Lock /\ Entries(Free) = {} /\ Free.held = {} /\ Len(Free.queue) = 0
  <2>1. <<>> \in Seq(Guard)
    BY EmptyFacts
  <2> QED
    BY <2>1 DEF Free, Lock, Entries
<1>3. Sound(Free)
  BY <1>2 DEF Sound, Once, Shared
<1>4. ASSUME NEW s \in Sessions PROVE SessionLocks(s)
  BY <1>1, <1>2 DEF SessionLocks, Own, Asking, Holding
<1>5. AdminLocks(NoPlayer)
  BY <1>1, <1>2 DEF AdminLocks, Own, AdminAsking
<1>6. Locked(NoPlayer)
  BY <1>1, <1>2, <1>3, <1>4, <1>5 DEF Locked
<1>7. Addressed
  BY <1>1 DEF Addressed
<1> QED
  BY <1>6, <1>7 DEF LocksFollow

LEMMA Locking == Spec => [](Reachable /\ LocksFollow)
<1>1. Reachable => Shape
  BY DEF Reachable
<1>2. Reachable /\ LocksFollow /\ [Next]_vars => (Reachable /\ LocksFollow)'
  BY <1>1, ReachableStep, LocksFollowStep
<1> QED
  BY <1>2, ReachableInit, LocksFollowInit, PTL DEF Spec

(* The rest of the state.                                                  *)
Remainder ==
  /\ client \in [Sessions -> {"none", "connected", "waiting", "ready", "gone"}]
  /\ admin \in {"idle", "check", "next", "notify", "store", "sync"}
  /\ notify \subseteq Players
  /\ stopping \in BOOLEAN
  /\ pushes \in 0 .. MaxPushes
  /\ updates \in 0 .. MaxUpdates

LEMMA RemainderStep == Remainder /\ [Next]_vars => Remainder'
<1> SUFFICES ASSUME Remainder, [Next]_vars PROVE Remainder'
  OBVIOUS
<1> USE DEF peerVars, adminVars
<1>1. ASSUME NEW s \in Sessions,
             \/ Connect(s) \/ ClientLeaves(s) \/ LoginRequest(s) \/ Deliver(s)
             \/ WriterClose(s) \/ WriteError(s) \/ ReadEof(s) \/ Shutdown(s)
      PROVE  Remainder'
  <2>1. UNCHANGED <<admin, notify, stopping, pushes, updates>>
    BY <1>1, ZenonT(30)
    DEF Connect, ClientLeaves, LoginRequest, Deliver, WriterClose, WriteError,
                ReadEof, Shutdown, SelectReturns
  <2>2. client' \in [Sessions -> {"none", "connected", "waiting", "ready", "gone"}]
    BY <1>1 DEF Connect, ClientLeaves, LoginRequest, Deliver, ClientAfter, WriterClose,
                WriteError, ReadEof, Shutdown, SelectReturns, Remainder
  <2> QED
    BY <2>1, <2>2, SMTT(30) DEF Remainder
<1>2. ASSUME NEW s \in Sessions, PushRequest(s) PROVE Remainder'
  BY <1>2, ConstantsAssumption DEF PushRequest, Remainder
<1>3. ASSUME NEW s \in Sessions, Login(s) \/ Push(s) \/ Close(s) PROVE Remainder'
  <2>1. UNCHANGED <<client, admin, notify, stopping, pushes, updates>>
    BY <1>3, ZenonT(30)
    DEF Login, LoginRefused, LoginAccepted, LoginBind, LoginList, LoginAnswer, Push,
                PushUnknown, PushFind, PushRoute, PushDrop, PushSend, Close, CloseCompare,
                CloseReset
  <2> QED
    BY <2>1 DEF Remainder
<1>4. ASSUME NEW ps \in SUBSET Players, AdminStart(ps) PROVE Remainder'
  BY <1>4, ConstantsAssumption DEF AdminStart, PeersUnchanged, Remainder
<1>5. CASE Administer
  <2>1. UNCHANGED <<client, stopping, pushes, updates>>
    BY <1>5, ZenonT(30)
    DEF Administer, AdminCheck, AdminNext, AdminNotify, AdminStore, AdminStored,
                AdminSync, PeersUnchanged
  <2>2. /\ notify' \subseteq Players
        /\ admin' \in {"idle", "check", "next", "notify", "store", "sync"}
    BY <1>5, ZenonT(30)
    DEF Administer, AdminCheck, AdminNext, AdminNotify, AdminStore, AdminStored,
                AdminSync, Remainder
  <2> QED
    BY <2>1, <2>2, SMTT(30) DEF Remainder
<1>6. CASE ShutdownSignal \/ UNCHANGED vars
  BY <1>6 DEF ShutdownSignal, vars, Remainder
<1> QED
  BY <1>1, <1>2, <1>3, <1>4, <1>5, <1>6 DEF Next, Writer

(* Types: in particular a lock's guards and requests are those of tasks,   *)
(* and every message in a session's queue is one the client knows.         *)
THEOREM SessionTypes == Spec => []TypeOK
<1>1. Init => Remainder
  <2> SUFFICES ASSUME Init PROVE Remainder
    OBVIOUS
  <2>1. client \in [Sessions -> {"none", "connected", "waiting", "ready", "gone"}]
    BY DEF Init
  <2>2. /\ admin \in {"idle", "check", "next", "notify", "store", "sync"}
        /\ notify \subseteq Players /\ stopping \in BOOLEAN
    BY DEF Init
  <2>3. pushes \in 0 .. MaxPushes /\ updates \in 0 .. MaxUpdates
    BY ConstantsAssumption DEF Init
  <2> QED
    BY <2>1, <2>2, <2>3 DEF Remainder
<1>2. Spec => []Remainder
  BY <1>1, RemainderStep, PTL DEF Spec
<1>3. Reachable /\ LocksFollow /\ Remainder => TypeOK
  <2> SUFFICES ASSUME Reachable, LocksFollow, Remainder PROVE TypeOK
    OBVIOUS
  <2>1. Shape /\ route \in [Sessions -> Routes \cup {NoRoute}]
    BY ZenonT(30) DEF Reachable, LocksFollow, Addressed
  <2>2. lock \in [Locks -> Lock]
    BY DEF LocksFollow, Locked
  <2>3. /\ DOMAIN lock = Players \cup {Tunnels}
        /\ \A l \in DOMAIN lock : lock[l].held \subseteq Guard /\ lock[l].queue \in Seq(Guard)
    BY <2>2 DEF Locks, Lock
  <2> QED
    BY <2>1, <2>3, ZenonT(30) DEF Shape, Messages, Remainder, TypeOK
<1> QED
  BY <1>2, <1>3, Locking, PTL

(* Guards that are held together are all read guards.                      *)
GuardsShared ==
  \A l \in Players \cup {Tunnels} : \A g, h \in lock[l].held :
    g = h \/ (g[2] = "read" /\ h[2] = "read")

(* A task that is between two requests, or over, has left no guard and no  *)
(* request in any lock.                                                    *)
NothingLeftLocked ==
  \A s \in Sessions :
    pc[s] \in {"none", "reading", "query", "answer", "closed"} =>
      \A l \in Players \cup {Tunnels} :
        /\ \A g \in lock[l].held : g[1] # s
        /\ \A i \in 1 .. Len(lock[l].queue) : lock[l].queue[i][1] # s

(* Only a login, with its Player locked, and a proxied message, with the   *)
(* list of tunnels locked, wait for a second lock: the list, or a Player.  *)
TwoLocksOnly ==
  \A s \in Sessions : \A k, l \in Players \cup {Tunnels} :
    (\E g \in lock[k].held : g[1] = s)
    /\ (\E i \in 1 .. Len(lock[l].queue) : lock[l].queue[i][1] = s) =>
      \/ pc[s] = "list" /\ k = player[s] /\ l = Tunnels
      \/ pc[s] \in {"route", "send", "bounce"} /\ k = Tunnels /\ l \in Players

(* The locks of the server keep what RwLock promises, and its tasks keep   *)
(* to an order of their own: a session that ends, wherever its handler is  *)
(* dropped, leaves no guard and no request behind, and the only tasks that *)
(* ask for a lock with another in hand are a login and a proxied message,  *)
(* each asking for what the other has: that is how a deadlock of the       *)
(* server must look.                                                       *)
THEOREM LockDiscipline ==
  Spec => [](GuardsShared /\ NothingLeftLocked /\ TwoLocksOnly)
<1>1. LocksFollow => GuardsShared /\ NothingLeftLocked /\ TwoLocksOnly
  <2> SUFFICES ASSUME LocksFollow
               PROVE  GuardsShared /\ NothingLeftLocked /\ TwoLocksOnly
    OBVIOUS
  <2>0. PICK q \in Players \cup {NoPlayer} : Locked(q)
    BY DEF LocksFollow
  <2>1. ASSUME NEW s \in Sessions, NEW l \in Locks
        PROVE  /\ (\E g \in lock[l].held : g[1] = s) <=> Holding(s, l) # {}
               /\ (\E i \in 1 .. Len(lock[l].queue) : lock[l].queue[i][1] = s)
                    <=> Asking(s, l) # {}
    <3>1. Own(Entries(lock[l]), s) = Asking(s, l) /\ Own(lock[l].held, s) = Holding(s, l)
      BY <2>0 DEF Locked, SessionLocks
    <3> QED
      BY <3>1 DEF Own, Entries
  <2>2. GuardsShared
    BY <2>0 DEF GuardsShared, Locked, Sound, Shared, Locks
  <2>3. NothingLeftLocked
    <3>1. ASSUME NEW s \in Sessions, NEW l \in Locks,
                 pc[s] \in {"none", "reading", "query", "answer", "closed"}
          PROVE  Holding(s, l) = {} /\ Asking(s, l) = {}
      BY <3>1 DEF Holding, Asking
    <3> QED
      BY <2>1, <3>1 DEF NothingLeftLocked, Locks
  <2>4. TwoLocksOnly
    <3>1. ASSUME NEW s \in Sessions, NEW k \in Locks, NEW l \in Locks,
                 Holding(s, k) # {}, Asking(s, l) # {}
          PROVE  \/ pc[s] = "list" /\ k = player[s] /\ l = Tunnels
                 \/ pc[s] \in {"route", "send", "bounce"} /\ k = Tunnels /\ l \in Players
      <4>1. pc[s] \in {"route", "send", "bounce"} =>
              route[s][1] \in Players /\ route[s][2] \in Players
        BY ConstantsAssumption DEF LocksFollow, Addressed
      <4> QED
        BY <3>1, <4>1 DEF Holding, Asking
    <3>2. ASSUME NEW s \in Sessions, NEW k \in Locks, NEW l \in Locks,
                 \E g \in lock[k].held : g[1] = s,
                 \E i \in 1 .. Len(lock[l].queue) : lock[l].queue[i][1] = s
          PROVE  \/ pc[s] = "list" /\ k = player[s] /\ l = Tunnels
                 \/ pc[s] \in {"route", "send", "bounce"} /\ k = Tunnels /\ l \in Players
      <4>1. Holding(s, k) # {} /\ Asking(s, l) # {}
        BY <2>1, <3>2, Zenon
      <4> QED
        BY <3>1, <4>1, Zenon
    <3> QED
      BY <3>2, ZenonT(30) DEF TwoLocksOnly, Locks
  <2> QED
    BY <2>2, <2>3, <2>4
<1> QED
  BY <1>1, Locking, PTL

(* A Player is bound to a session, and unbound, only while no other task   *)
(* has a guard on it: on_connect_session and on_disconnect_session run     *)
(* under the Player's write lock, so what a reader saw of it stays so      *)
(* until the reader lets go.                                               *)
ChangedUnderLock ==
  [][\A p \in Players : session_id'[p] # session_id[p] => lock[p].held = {}]_vars

(* ChangedUnderLock holds: a task that binds or unbinds a Player was       *)
(* granted the write request it made for that, and so no guard is out.     *)
THEOREM PlayerChangesLocked == Spec => ChangedUnderLock
<1> DEFINE Kind == \A p \in Players : session_id'[p] # session_id[p] => lock[p].held = {}
<1>1. Reachable /\ LocksFollow /\ [Next]_vars => [Kind]_vars
  <2> SUFFICES ASSUME Reachable, LocksFollow, [Next]_vars,
                      NEW p \in Players, session_id'[p] # session_id[p]
               PROVE  lock[p].held = {}
    OBVIOUS
  <2>0. PICK q \in Players \cup {NoPlayer} : Locked(q)
    BY DEF LocksFollow
  <2>1. Shape /\ Effect
    BY StepEffect DEF Reachable
  <2>2. PICK s \in Sessions : LoginBind(s) \/ CloseReset(s)
    <3> USE DEF peerVars, adminVars
    <3>1. \E s \in Sessions : LoginBind(s) \/ CloseReset(s)
      BY ZenonT(30)
      DEF Next, Connect, ClientLeaves, LoginRequest, PushRequest, Login, LoginRefused,
             LoginAccepted, LoginList, LoginAnswer, Push, PushUnknown, PushFind, PushRoute,
             PushDrop, PushSend, Writer, Deliver, WriterClose, WriteError, ReadEof, Shutdown,
             SelectReturns, Close, CloseCompare, AdminStart, Administer, AdminCheck,
             AdminNext, AdminNotify, AdminStore, AdminStored, AdminSync, PeersUnchanged,
             ShutdownSignal, vars
    <3> QED
      BY <3>1, SMTT(30)
  <2>3. /\ pc[s] \in {"bind", "reset"} /\ Granted(lock[player[s]], s)
        /\ \E v : session_id' = [session_id EXCEPT ![player[s]] = v]
    BY <2>2, ZenonT(30) DEF LoginBind, CloseReset, OnConnectSession, OnDisconnectSession
  <2>4. p = player[s] /\ p \in Locks
    BY <2>1, <2>3 DEF Shape, Locks
  <2>5. Asking(s, p) = {<<s, "write">>}
    BY <2>3, <2>4, ZenonT(30) DEF Asking
  <2>6. Own(Entries(lock[p]), s) = {<<s, "write">>} /\ Sound(lock[p])
    BY <2>0, <2>4, <2>5, ZenonT(30) DEF Locked, SessionLocks
  <2>7. /\ Own(Entries(lock[p]), s) = {Head(lock[p].queue)}
        /\ \A h \in lock[p].held : Head(lock[p].queue)[2] = "read"
    BY <2>3, <2>4, <2>6, GrantedIs, ZenonT(30)
  <2>8. Head(lock[p].queue) = <<s, "write">>
    BY <2>6, <2>7
  <2> QED
    BY <2>7, <2>8
<1> QED
  BY <1>1, Locking, PTL DEF Spec, ChangedUnderLock
=============================================================================
