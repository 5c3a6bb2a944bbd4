------------------------------- MODULE Pages -------------------------------
(***************************************************************************)
(* The administrator's view of the server: logging in to the web pages and *)
(* reading the lists of players and tunnels page by page, while requests   *)
(* of other administrators change the lists.  web/mod.rs runs on one       *)
(* worker, so that requests interleave at their awaits: query reads the    *)
(* length of the list of tunnels under one lock and the page under the     *)
(* next, and a writer may be waiting for the lock in between.              *)
(***************************************************************************)
EXTENDS Integers, Sequences, SequencesExt

CONSTANTS
  HasUsername,  \* whether the configuration names a web user
  Sizes,        \* the page sizes asked for
  Firsts,       \* the page numbers a walk begins at
  MaxEntries,   \* bound: entries of a list, which are numbered upwards
  MayChange,    \* whether the lists change during a walk
  MaxLogins     \* bound: attempts to log in

ConstantsOK ==
  /\ {HasUsername, MayChange} \subseteq BOOLEAN
  /\ Sizes \cup Firsts \cup {MaxEntries, MaxLogins} \subseteq Nat

Kinds == {"tunnels", "players"}

VARIABLES
  list,      \* the entries of each kind, the players as the database has them
  added,     \* the highest entry so far, of each kind
  identity,  \* whether the session of the walker is logged in
  logins,    \* attempts so far
  walk       \* [pc, kind, size, first, page, num, seen, total, stable]

vars == <<list, added, identity, logins, walk>>

Asleep == [pc |-> "idle", kind |-> "tunnels", size |-> 1, first |-> 0, page |-> 0,
           num |-> 0, seen |-> <<>>, total |-> 0, stable |-> TRUE]

Init ==
  /\ added \in [Kinds -> 0 .. MaxEntries]
  /\ list = [k \in Kinds |-> [i \in 1 .. added[k] |-> i]]
  /\ identity = FALSE
  /\ logins = 0
  /\ walk = Asleep

-----------------------------------------------------------------------------
(* login and logout; the session also ends by itself after an hour.        *)
Login(right) ==
  /\ logins < MaxLogins
  /\ logins' = logins + 1
  /\ identity' = (identity \/ (HasUsername /\ right))
  /\ UNCHANGED <<list, added, walk>>

Logout ==
  /\ identity
  /\ identity' = FALSE
  /\ UNCHANGED <<list, added, logins, walk>>

(* The walker asks for a page of a list, the first one first.              *)
Begin(kind, size, first) ==
  /\ walk.pc = "idle"
  /\ walk' = [Asleep EXCEPT !.pc = "ask", !.kind = kind, !.size = size,
                            !.first = first, !.page = first]
  /\ UNCHANGED <<list, added, identity, logins>>

authentication == identity

Refused == "denied"

(* player_list and tunnel_list.                                            *)
Request ==
  /\ walk.pc = "ask"
  /\ walk' = [walk EXCEPT !.pc = IF ~ authentication THEN Refused
                                 ELSE IF walk.kind = "tunnels" THEN "count" ELSE "fetch"]
  /\ UNCHANGED <<list, added, identity, logins>>

(* Mutant: the size is taken as it comes.                                  *)
PageSizeAsked(kind, size) == size

PageSize(kind, size) ==
  IF size = 0 \/ size > 100 THEN (IF kind = "tunnels" THEN 10 ELSE 1) ELSE size

(* Mutant: pages overlap.                                                  *)
StartBefore(w) == IF w.page = 0 THEN 0 ELSE w.page * PageSize(w.kind, w.size) - 1

Start(w) == w.page * PageSize(w.kind, w.size)

Smaller(a, b) == IF a <= b THEN a ELSE b
End(w, num) == Smaller(Start(w) + PageSize(w.kind, w.size), num)

(* query: the length first, the page later.  The page is a slice of the    *)
(* list as it is by then, and a slice that reaches past it panics.         *)
CountTunnels ==
  /\ walk.pc = "count"
  /\ walk' = [walk EXCEPT !.pc = "slice", !.num = Len(list["tunnels"])]
  /\ UNCHANGED <<list, added, identity, logins>>

SliceTunnels ==
  LET end == End(walk, walk.num)
  IN  /\ walk.pc = "slice"
      /\ walk' = CASE Start(walk) > end -> [walk EXCEPT !.pc = "total"]
                   [] Start(walk) <= end /\ end > Len(list["tunnels"]) ->
                        [walk EXCEPT !.pc = "panicked"]
                   [] OTHER ->
                        [walk EXCEPT !.pc = "total",
                           !.seen = @ \o SubSeq(list["tunnels"], Start(walk) + 1, end)]
      /\ UNCHANGED <<list, added, identity, logins>>

(* The page of players is one query to the database.                       *)
FetchPlayers ==
  /\ walk.pc = "fetch"
  /\ walk' = [walk EXCEPT !.pc = "total",
                !.seen = @ \o SubSeq(list["players"], Start(walk) + 1,
                                     End(walk, Len(list["players"])))]
  /\ UNCHANGED <<list, added, identity, logins>>

(* The total is read last; the walker goes on while it has seen fewer      *)
(* pages than that makes.                                                  *)
TotalCount ==
  /\ walk.pc = "total"
  /\ LET total == Len(list[walk.kind])
         more == (walk.page + 1 - walk.first) * PageSize(walk.kind, walk.size) < total
     IN  walk' = [walk EXCEPT !.total = total,
                              !.pc = IF more THEN "ask" ELSE "done",
                              !.page = IF more THEN @ + 1 ELSE @]
  /\ UNCHANGED <<list, added, identity, logins>>

Ended == walk.pc \in {"done", "denied", "panicked"}

Leave ==
  /\ Ended
  /\ walk' = Asleep
  /\ UNCHANGED <<list, added, identity, logins>>

-----------------------------------------------------------------------------
(* Other administrators add and delete.                                    *)
Add(kind) ==
  /\ MayChange
  /\ added[kind] < MaxEntries
  /\ added' = [added EXCEPT ![kind] = @ + 1]
  /\ list' = [list EXCEPT ![kind] = Append(@, added[kind] + 1)]
  /\ walk' = [walk EXCEPT !.stable = FALSE]
  /\ UNCHANGED <<identity, logins>>

Delete(kind, i) ==
  /\ MayChange
  /\ list' = [list EXCEPT ![kind] = RemoveAt(@, i)]
  /\ walk' = [walk EXCEPT !.stable = FALSE]
  /\ UNCHANGED <<added, identity, logins>>

Next ==
  \/ \E right \in BOOLEAN : Login(right)
  \/ Logout
  \/ \E kind \in Kinds, size \in Sizes, first \in Firsts : Begin(kind, size, first)
  \/ Request \/ CountTunnels \/ SliceTunnels \/ FetchPlayers \/ TotalCount \/ Leave
  \/ \E kind \in Kinds : Add(kind) \/ \E i \in DOMAIN list[kind] : Delete(kind, i)

Spec == Init /\ [][Next]_vars

-----------------------------------------------------------------------------
(* Types.  No walk goes beyond the last page.                              *)
TypeOK ==
  /\ \A k \in Kinds : list[k] \in Seq(1 .. MaxEntries)
  /\ identity \in BOOLEAN
  /\ walk.pc \in {"idle", "ask", "count", "slice", "fetch", "total", "done",
                  "denied", "panicked"}
  /\ walk.num \in 0 .. MaxEntries
  /\ walk.page \in 0 .. MaxEntries
  /\ walk.seen \in Seq(1 .. MaxEntries)

(* Where no web user is configured nobody logs in, not even with the empty *)
(* name and password of the configuration, and nothing is listed.          *)
ClosedWithoutUser == ~ HasUsername => walk.seen = <<>> /\ ~ identity

(* A walk from page 0 over a list that does not change shows every entry   *)
(* once, in order, whatever the size of the pages.                         *)
WalkComplete ==
  walk.pc = "done" /\ walk.stable /\ walk.first = 0 => walk.seen = list[walk.kind]

(* A walk ends, whatever the size asked for.                               *)
WalkEnds == walk.pc = "ask" ~> Ended
=============================================================================
