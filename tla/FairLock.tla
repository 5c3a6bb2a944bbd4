------------------------------- MODULE FairLock -------------------------------
(***************************************************************************)
(* tokio::sync::RwLock, as the server uses it: requests are served in the  *)
(* order they are made, so a reader that comes after a waiting writer      *)
(* waits for that writer, and dropping a future withdraws its request and  *)
(* its guard.                                                              *)
(***************************************************************************)
EXTENDS Integers, Sequences

Free == [held |-> {}, queue |-> <<>>]

(* lock.read() or lock.write(): the request joins the queue.               *)
Request(lock, who, mode) == [lock EXCEPT !.queue = Append(@, <<who, mode>>)]

(* The await of the request at the head of the queue completes.            *)
Granted(lock, who) ==
  /\ lock.queue # <<>>
  /\ LET request == Head(lock.queue)
     IN  /\ request[1] = who
         /\ \A guard \in lock.held : <<request[2], guard[2]>> = <<"read", "read">>

(* The guard is kept across an await, or dropped within the step.          *)
Hold(lock) ==
  [held |-> lock.held \cup {Head(lock.queue)}, queue |-> Tail(lock.queue)]
Pass(lock) == [lock EXCEPT !.queue = Tail(@)]

(* The guards of a dropped future, and the request it waited for: a future *)
(* waits for one at a time.                                                *)
Release(lock, who) == [lock EXCEPT !.held = {guard \in @ : guard[1] # who}]
Places(lock, who) == {i \in 1 .. Len(lock.queue) : lock.queue[i][1] = who}
Without(queue, i) ==
  SubSeq(queue, 1, i - 1) \o SubSeq(queue, i + 1, Len(queue))
Withdraw(lock, who) ==
  [Release(lock, who) EXCEPT !.queue =
     IF Places(lock, who) = {} THEN @
       ELSE Without(@, CHOOSE i \in Places(lock, who) : TRUE)]
=============================================================================
