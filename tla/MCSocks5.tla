------------------------------ MODULE MCSocks5 ------------------------------
(***************************************************************************)
(* Instances of Socks5, Socks5Udp and AddrReader for TLC.  The three       *)
(* modules share no variable, so a behaviour takes the steps of one of     *)
(* them, the one its "part" names, and leaves the others as they began.    *)
(***************************************************************************)
EXTENDS Integers, Sequences

VARIABLES
  part,
  plan, stage, left, frame, lock, status, buffer, writeq, inq, life, credit,
  up, o2i, outlet, sent, answers, lost,
  conf, udpTask, inlet, udpOutlet, held, toOutlet, toInlet, udpCredit,
  atTarget, atClient, udpSent,
  addr, bytes, arrived, got

session == <<plan, stage, left, frame, lock, status, buffer, writeq, inq, life,
             credit, up, o2i, outlet, sent, answers, lost>>
association == <<conf, udpTask, inlet, udpOutlet, held, toOutlet, toInlet,
                 udpCredit, atTarget, atClient, udpSent>>
address == <<addr, bytes, arrived, got>>
vars == <<part, session, association, address>>

AllPlans == [version : BOOLEAN, methods : (SUBSET {"none", "password"}) \ {{}},
             username : BOOLEAN, password : BOOLEAN,
             cmd : {"connect", "udp", "bind"}, address : BOOLEAN]

(* Clients that follow the protocol.                                       *)
GoodPlans ==
  [version : {TRUE}, methods : {{"none"}, {"none", "password"}},
   username : {TRUE}, password : {TRUE}, cmd : {"connect", "udp"}, address : {TRUE}]

(* A tunnel without credentials, one with a username, and one whose outlet *)
(* takes its time.                                                         *)
Open == INSTANCE Socks5 WITH
  HasUsername <- FALSE, HasPassword <- FALSE, Plans <- AllPlans, AuthLen <- 5,
  RequestLen <- 12, MaxUp <- 2, MaxDown <- 2, Slow <- FALSE
Password == INSTANCE Socks5 WITH
  HasUsername <- TRUE, HasPassword <- FALSE, Plans <- AllPlans, AuthLen <- 5,
  RequestLen <- 9, MaxUp <- 1, MaxDown <- 1, Slow <- FALSE
Slow == INSTANCE Socks5 WITH
  HasUsername <- FALSE, HasPassword <- FALSE, Plans <- GoodPlans, AuthLen <- 5,
  RequestLen <- 9, MaxUp <- 3, MaxDown <- 1, Slow <- TRUE

(* Every compression and encryption a tunnel may have.                     *)
AnyConf == [compressed : BOOLEAN, method : {"None", "Aes128", "Xor"}]
Udp == INSTANCE Socks5Udp WITH
  Conf <- AnyConf, MayFail <- FALSE, MaxUp <- 2, MaxDown <- 2,
  outlet <- udpOutlet, i2o <- toOutlet, o2i <- toInlet, credit <- udpCredit,
  sent <- udpSent

(* Bytes and ports at their limits, names of one byte and as long as they  *)
(* get, and what may follow an address.                                    *)
Ports == {0, 1, 255, 256, 258, 65535}
Name(n) == [i \in 1 .. n |-> 97 + (i % 3)]
Addresses ==
       [type : {1}, host : {<<0, 0, 0, 0>>, <<127, 0, 0, 1>>, <<255, 1, 2, 255>>}, port : Ports]
  \cup [type : {4}, host : {[i \in 1 .. 16 |-> i], [i \in 1 .. 16 |-> 255]}, port : Ports]
  \cup [type : {3}, host : {Name(1), Name(3), Name(11)}, port : Ports]
  \cup [type : {3}, host : {Name(255), Name(256)}, port : {258}]
Addr == INSTANCE AddrReader WITH
  Tails <- {<<>>, <<1>>, <<5, 255>>}, buffer <- arrived

ASSUME
  /\ Open!ConstantsOK /\ Password!ConstantsOK /\ Slow!ConstantsOK
  /\ Udp!ConstantsOK
  /\ Addr!ConstantsOK

-----------------------------------------------------------------------------
AnAddr == CHOOSE a \in Addresses : a.type = 1

AnySession ==
  Open!Init /\ plan \in GoodPlans /\ plan.cmd = "udp" /\ plan.methods = {"none"}
AnyAssociation == Udp!Init /\ conf = [compressed |-> FALSE, method |-> "None"]
AnyAddress == Addr!Init /\ addr = AnAddr /\ Len(bytes) = 7

Init ==
  \/ /\ \/ part = "open" /\ Open!Init
        \/ part = "password" /\ Password!Init
        \/ part = "slow" /\ Slow!Init
     /\ AnyAssociation /\ AnyAddress
  \/ part = "udp" /\ Udp!Init /\ AnySession /\ AnyAddress
  \/ part = "addr" /\ Addr!Init /\ AnySession /\ AnyAssociation

Next ==
  \/ /\ \/ part = "open" /\ Open!Next
        \/ part = "password" /\ Password!Next
        \/ part = "slow" /\ Slow!Next
     /\ UNCHANGED <<part, association, address>>
  \/ /\ part = "udp" /\ Udp!Next
     /\ UNCHANGED <<part, session, address>>
  \/ /\ part = "addr" /\ Addr!OnRecvFrame
     /\ UNCHANGED <<part, session, association>>

(* The tasks of the runtime run whenever they can and finish what they     *)
(* started; the outlet answers a connect and writes what it has; a client  *)
(* that started a message goes on with it.                                 *)
Fairness ==
  /\ WF_session(part = "slow" /\ Slow!ClientSends)
  /\ WF_session(part = "slow" /\ (Slow!RecvHandshake \/ Slow!RecvIgnored
                                  \/ Slow!RecvData))
  /\ WF_session(part = "slow" /\ Slow!SendData)
  /\ WF_session(part = "slow" /\ Slow!InputInternal)
  /\ WF_session(part = "slow" /\ Slow!OnRecvProxyMessage)
  /\ WF_session(part = "slow" /\ Slow!PollWrite)
  /\ WF_session(part = "slow" /\ Slow!OnSessionClose)
  /\ WF_session(part = "slow" /\ (Slow!Opens \/ Slow!Refuses))
  /\ WF_session(part = "slow" /\ Slow!Writes)
  /\ WF_association(part = "udp" /\ (Udp!InputInternal \/ Udp!UnknownSession
                                     \/ \E ok \in BOOLEAN : Udp!RecvDataFrom(ok)))
  /\ WF_association(part = "udp" /\ Udp!OnSessionClose)
  /\ WF_association(part = "udp" /\ (Udp!SendToData \/ Udp!RecvDataResult
                                     \/ Udp!Disconnect))
  /\ WF_association(part = "udp" /\ Udp!RecvFrameFrom)
  /\ WF_association(part = "udp" /\ Udp!OutletCloses)

Spec == Init /\ [][Next]_vars /\ Fairness

-----------------------------------------------------------------------------
(* Types of the session's state (Socks5).                                  *)
TypeOK == part = "open" => Open!TypeOK

(* No connection is requested before the client's credentials were         *)
(* verified (on_socks5_init, on_socks5_verification), the outlet is asked  *)
(* for a whole request only, however it was cut (on_socks5_connect), and a *)
(* connect request gets one reply though success is reported twice         *)
(* (on_recv_proxy_message).                                                *)
RequestSafe ==
  /\ part = "password" => Password!AuthenticatedFirst
  /\ part \in {"open", "slow"} => Open!WholeRequest
  /\ part = "open" => Open!AnsweredOnce

(* After "granted" no frame of either side is lost.                        *)
NothingLost == part \in {"open", "slow"} => Open!NothingLost

(* Datagrams of the targets reach the client unchanged, whatever the       *)
(* tunnel's compression and encryption, and the outlet's credit is what is *)
(* on the way to the client (Socks5Udp).                                   *)
DeliveredIntact == Udp!DeliveredIntact /\ Udp!CreditInFlight

(* What read_address finds in any cut of to_be_bytes is what was written,  *)
(* and nothing sooner than it is whole (AddrReader).                       *)
ReadBack == Addr!ReadBack

(* Nobody waits for ever: a frame that waits for credit with the context   *)
(* locked goes on, a message sent in full is answered or the session ends, *)
(* on_session_close destroys the context, the outlet's reader held for     *)
(* credit goes on, and the ends of an association end together.            *)
NobodyWaits ==
  /\ part = "slow" => Slow!Resumes /\ Slow!Replied /\ Slow!Destroyed
  /\ part = "udp" => Udp!HeldResumes /\ Udp!EndTogether
=============================================================================
