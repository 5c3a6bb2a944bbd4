----------------------------- MODULE TargetAddr -----------------------------
(***************************************************************************)
(* The addresses of SOCKS5, socks5/target_addr.rs: to_be_bytes writes one, *)
(* read_address reads one from the bytes that follow its type, or says     *)
(* that they are too few yet.  An address is a record [type, host, port]   *)
(* whose host is the bytes of an IP or of a name.                          *)
(***************************************************************************)
EXTENDS Integers, Sequences

Byte == 0 .. 255
U16 == {p \in Nat : p < 65536}
IPV4 == 1           \* SOCKS5_ADDR_TYPE_IPV4
DOMAIN_NAME == 3    \* SOCKS5_ADDR_TYPE_DOMAIN_NAME
IPV6 == 4           \* SOCKS5_ADDR_TYPE_IPV6

(* String::from_utf8 of the standard library, for names of ASCII.          *)
Utf8(s) == \A i \in DOMAIN s : s[i] < 128

(* The addresses a TargetAddr can hold.                                    *)
Address ==
       [type : {IPV4}, host : [1 .. 4 -> Byte], port : U16]
  \cup [type : {IPV6}, host : [1 .. 16 -> Byte], port : U16]
  \cup [type : {DOMAIN_NAME}, host : {s \in Seq(Byte) : Utf8(s)}, port : U16]

(* u16::to_be_bytes, and the shift in read_address.                        *)
PortBytes(p) == <<p \div 256, p % 256>>
PortOf(hi, lo) == hi * 256 + lo

Ok(value) == [ok |-> TRUE, value |-> value]
Err == [ok |-> FALSE, value |-> <<>>]

(* to_be_bytes.                                                            *)
to_be_bytes(a) ==
  IF a.type = DOMAIN_NAME
    THEN IF Len(a.host) > 255
           THEN Err
           ELSE Ok(<<a.type, Len(a.host)>> \o a.host \o PortBytes(a.port))
    ELSE Ok(<<a.type>> \o a.host \o PortBytes(a.port))

(* Mutant: the port is not counted.                                        *)
AddrDataLenBare(data, atyp) ==
  CASE atyp = IPV4 -> 4 [] atyp = IPV6 -> 16 [] OTHER -> data[1] + 1

(* addr_data_len: the bytes of the address and of the port.                *)
AddrDataLen(data, atyp) ==
  CASE atyp = IPV4 -> 6 [] atyp = IPV6 -> 18 [] OTHER -> 2 + data[1] + 1

(* Whether the bytes are too few: Addr::Unknown.                           *)
Unknown(data, atyp) == Len(data) < AddrDataLen(data, atyp)

(* What read_address returns: an error, none yet, or address and length.   *)
Missing == [result |-> "none"]
Failed == [result |-> "error"]
Found(a, len) == [result |-> "some", addr |-> a, len |-> len]

read_address(data, atyp) ==
  LET len == AddrDataLen(data, atyp)
      host == IF atyp = DOMAIN_NAME THEN SubSeq(data, 2, len - 2)
                                    ELSE SubSeq(data, 1, len - 2)
      port == PortOf(data[len - 1], data[len])
  IN  CASE atyp \notin {IPV4, IPV6, DOMAIN_NAME} -> Failed
        [] atyp \in {IPV4, IPV6, DOMAIN_NAME} /\ Unknown(data, atyp) -> Missing
        [] atyp = DOMAIN_NAME /\ ~ Unknown(data, atyp) /\ ~ Utf8(host) -> Failed
        [] OTHER -> Found([type |-> atyp, host |-> host, port |-> port], len)
=============================================================================
