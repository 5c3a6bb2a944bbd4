----------------------------- MODULE AddrReader -----------------------------
(***************************************************************************)
(* An address read from a connection: the bytes of to_be_bytes and some    *)
(* that follow arrive in any cuts, and on_socks5_connect tries             *)
(* read_address on what it has each time.  The first four bytes of the     *)
(* address are there before it tries at all (socks5/mod.rs:275).           *)
(***************************************************************************)
EXTENDS TargetAddr

CONSTANTS
  Addresses,  \* the addresses tried
  Tails       \* what follows them

ConstantsOK ==
  /\ \A a \in Addresses : a \in Address /\ a.host # <<>>
  /\ \A tail \in Tails : tail \in Seq(Byte)

VARIABLES
  addr,    \* the address that was written
  bytes,   \* what was written
  buffer,  \* what has arrived after the type
  got      \* what read_address returned last

vars == <<addr, bytes, buffer, got>>

Init ==
  /\ addr \in Addresses
  /\ \E tail \in Tails : LET b == to_be_bytes(addr)
                         IN  b.ok /\ bytes = b.value \o tail
  /\ buffer = <<>>
  /\ got = Missing

(* One more read, after which the address is looked for.                   *)
OnRecvFrame ==
  /\ got = Missing
  /\ \E n \in Len(buffer) + 1 .. Len(bytes) - 1 :
       /\ buffer' = SubSeq(bytes, 2, n + 1)
       /\ got' = IF n < 4 THEN Missing ELSE read_address(buffer', bytes[1])
  /\ UNCHANGED <<addr, bytes>>

Spec == Init /\ [][OnRecvFrame]_vars

(* However the bytes are cut, what is read is the address that was written *)
(* and the length up to what follows it; nothing is read from fewer bytes  *)
(* than that, and no address that can be written is refused.               *)
ReadBack ==
  \/ got = Missing /\ Len(buffer) < Len(to_be_bytes(addr).value) - 1
  \/ got = Found(addr, Len(to_be_bytes(addr).value) - 1)
=============================================================================
