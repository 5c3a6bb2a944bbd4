---------------------------- MODULE Socks5Proofs ----------------------------
(***************************************************************************)
(* A session of a SOCKS5 inlet, for any credentials of the tunnel, any     *)
(* plans of clients, any lengths of the messages and any number of frames. *)
(* The invariant has three parts: Base, the types; Phase, what each Status *)
(* says of the client, the buffer and the queue to the client; and Told,   *)
(* how the outlet's reports lie in the two queues before read_input.       *)
(***************************************************************************)
EXTENDS Socks5, FiniteSetTheorems, SequenceTheorems, TLAPS

Running == {"Connecting", "RunWithTcp", "RunWithUdp"}
Acceptable == plan.version /\ Method # "not acceptable"
Credentials == plan.username /\ plan.password
Authenticated == NeedsPassword => Credentials

(* Nothing has been asked of the outlet.                                   *)
Quiet == /\ outlet = "idle" /\ inq = <<>> /\ o2i = <<>>
         /\ up = 0 /\ credit = 0 /\ lock = "free"

Denial == {"refused", "close"}
NoSupport == {"unsupported", "close"}
Failure == {"failed", "close"}
Service == {"granted", "failed", "data", "close"}
OutMessages == {"connected", "refused", "data", "ack", "closed"}
Result == {"connected", "refused"}
ResultOrEnd == {"connected", "refused", "closed"}

Greeting ==
  /\ Quiet /\ answers = 0
  /\ stage \in {"greet", "stop"}
  /\ buffer + frame + left <= Length("greet")
  /\ writeq \in Seq(Denial)
  /\ (writeq # <<>> \/ stage = "stop") => ~ Acceptable

Verifying ==
  /\ Quiet /\ answers = 0
  /\ \/ /\ stage = "greet" /\ left = 0 /\ frame = 0 /\ buffer = 0
        /\ writeq \in {<<>>, <<"password">>}
     \/ /\ stage \in {"auth", "stop"}
        /\ buffer + frame + left <= AuthLen
        /\ writeq \in Seq(Denial)
        /\ (writeq # <<>> \/ stage = "stop") => ~ Credentials

Requesting ==
  /\ Quiet /\ Authenticated
  /\ \/ /\ stage \in {"greet", "auth"} /\ left = 0 /\ frame = 0 /\ buffer = 0
        /\ writeq \in {<<>>, <<"none">>, <<"verified">>}
        /\ answers = 0
     \/ /\ stage \in {"request", "stop"}
        /\ 4 * answers + buffer + frame + left <= RequestLen
        /\ answers # 0 => 4 * answers + 4 <= RequestLen
        /\ writeq \in Seq(NoSupport)
        /\ (writeq # <<>> \/ answers # 0 \/ stage = "stop") => plan.cmd = "bind"

Has(s, m) == \E i \in DOMAIN s : s[i] = m

Asked ==
  /\ outlet # "idle" /\ Authenticated
  /\ plan.cmd \in {"connect", "udp"}
  /\ buffer = 0 /\ left = 0 /\ frame \in {0, 1}
  /\ stage \in {"request", "run", "stop"}
  /\ writeq \in Seq(Service)
  /\ status = "RunWithTcp" => plan.cmd = "connect"
  /\ status = "RunWithUdp" => plan.cmd = "udp" /\ up = 0
  /\ status = "Connecting" => /\ lock = "free" /\ credit = 0 /\ up = 0 /\ frame = 0
                              /\ stage # "run"
                              /\ writeq \in Seq(Failure)
  /\ lock = "frame" => frame = 1 /\ status = "RunWithTcp"
  /\ up + frame <= sent.up
  /\ outlet = "asked" => /\ status = "Connecting" /\ stage = "request" /\ answers = 0
                         /\ inq = <<>> /\ o2i = <<>> /\ writeq = <<>>
  /\ outlet = "late" => Slow

(* What came of a connect request: data follows the report that lets it    *)
(* through, and the one refusal comes before anything else.                *)
Reports ==
  /\ \A i \in DOMAIN inq : inq[i] = "data" =>
       status = "RunWithTcp" \/ \E j \in 1 .. i - 1 : inq[j] = "connected"
  /\ life = "open" => \A i \in DOMAIN o2i : o2i[i] = "data" =>
       \/ status = "RunWithTcp" \/ Has(inq, "connected")
       \/ \E j \in 1 .. i - 1 : o2i[j] = "connected"
  /\ life = "open" /\ outlet \in {"opening", "open"} =>
       status = "RunWithTcp" \/ Has(inq, "connected") \/ Has(o2i, "connected")
  /\ answers <= IF status = "Connecting" THEN 1 ELSE 2
  /\ \A i \in DOMAIN inq : inq[i] = "refused" =>
       i = 1 /\ answers = 0 /\ status = "Connecting" /\ ~ Has(o2i, "refused")
  /\ \A i \in DOMAIN o2i : o2i[i] = "refused" =>
       i = 1 /\ answers = 0 /\ status = "Connecting" /\ inq = <<>>

(* Without a late success there is one report or the other.                *)
OneReport ==
  ~ Slow =>
  /\ answers <= 1
  /\ (answers # 0 \/ Has(inq, "refused") \/ Has(o2i, "refused")) /\ status = "Connecting"
       => outlet = "gone" /\ inq \in Seq({"refused"}) /\ o2i \in Seq({"refused"})

Conn(s) == IF s # <<>> /\ s[Len(s)] = "closed" THEN Len(s) - 1 ELSE Len(s)
Coming == CASE outlet = "asked" -> 2 [] outlet \in {"opening", "late"} -> 1 [] OTHER -> 0

(* A UDP request: two reports in all, and no data.                         *)
TwoReports ==
  /\ inq \in Seq(Result)
  /\ o2i \in Seq(ResultOrEnd)
  /\ outlet # "gone" => o2i \in Seq(Result)
  /\ answers + Len(inq) + Conn(o2i) + Coming <= 2

Base ==
  /\ TypeOK
  /\ o2i \in Seq(OutMessages)
  /\ sent \in [up : 0 .. MaxUp, down : 0 .. MaxDown]
  /\ ~ lost

IInv ==
  /\ Base
  /\ status = "Init" => Greeting
  /\ status = "Verification" => Verifying
  /\ status = "Connect" => Requesting
  /\ status \in Running => Asked
  /\ status \in Running /\ plan.cmd = "connect" => Reports /\ OneReport
  /\ status \in Running /\ plan.cmd = "udp" => TwoReports

-----------------------------------------------------------------------------
LEMMA SeqWider ==
  ASSUME NEW A, NEW B, A \subseteq B, NEW s \in Seq(A)
  PROVE  s \in Seq(B)
<1>1. \A i \in 1 .. Len(s) : s[i] \in B
  BY ElementOfSeq, Zenon
<1> QED
  BY <1>1, SeqDef, LenProperties

LEMMA EmptyIn == ASSUME NEW S PROVE <<>> \in Seq(S) /\ Len(<<>>) = 0 /\ \A i \in DOMAIN <<>> : FALSE
OBVIOUS

LEMMA Appended ==
  ASSUME NEW S, NEW s \in Seq(S), NEW m \in S
  PROVE  /\ Append(s, m) \in Seq(S) /\ Len(Append(s, m)) = Len(s) + 1
         /\ Append(s, m) # <<>>
         /\ DOMAIN s = 1 .. Len(s) /\ DOMAIN Append(s, m) = 1 .. Len(s) + 1 /\ Len(s) \in Nat
         /\ \A i \in 1 .. Len(s) : Append(s, m)[i] = s[i]
         /\ Append(s, m)[Len(s) + 1] = m
OBVIOUS

LEMMA Taken ==
  ASSUME NEW S, NEW s \in Seq(S), s # <<>>
  PROVE  /\ Tail(s) \in Seq(S) /\ Head(s) \in S /\ Head(s) = s[1]
         /\ Len(s) \in Nat /\ Len(s) >= 1
         /\ Len(Tail(s)) = Len(s) - 1
         /\ DOMAIN s = 1 .. Len(s) /\ DOMAIN Tail(s) = 1 .. Len(s) - 1
         /\ \A i \in 1 .. Len(s) - 1 : Tail(s)[i] = s[i + 1]
OBVIOUS

LEMMA Kinds ==
  /\ Denial \subseteq WriterMessages /\ NoSupport \subseteq WriterMessages
  /\ Failure \subseteq Service /\ Service \subseteq WriterMessages
  /\ Result \subseteq ResultOrEnd /\ Result \subseteq Reported
  /\ ResultOrEnd \subseteq OutMessages /\ {"refused"} \subseteq Result
  /\ {"none"} \subseteq WriterMessages /\ {"password"} \subseteq WriterMessages
  /\ {"verified"} \subseteq WriterMessages
BY DEF Denial, NoSupport, Failure, Service, Result, ResultOrEnd, OutMessages, Reported,
       WriterMessages

(* A greeting is of three or four bytes.                                   *)
LEMMA GreetingLength ==
  ASSUME ConstantsOK, plan \in Plans
  PROVE  Length("greet") \in {3, 4}
<1> DEFINE M == plan.methods
<1>1. M \in SUBSET {"none", "password"} /\ M # {}
  <2>1. plan \in PlanSet
    BY DEF ConstantsOK
  <2> DEFINE S == (SUBSET {"none", "password"}) \ {{}}
  <2> HIDE DEF S
  <2>2. plan \in [version : BOOLEAN, methods : S, username : BOOLEAN, password : BOOLEAN,
                  cmd : {"connect", "udp", "bind"}, address : BOOLEAN]
    BY <2>1 DEF PlanSet, S
  <2>3. plan.methods \in S
    BY <2>2
  <2> QED
    BY <2>3 DEF S
<1> HIDE DEF M
<1>2. M = {"none"} \/ M = {"password"} \/ M = {"none", "password"}
  <2>1. \A x \in M : x = "none" \/ x = "password"
    BY <1>1
  <2>2. CASE "none" \in M /\ "password" \in M
    BY <2>1, <2>2
  <2>3. CASE "none" \in M /\ "password" \notin M
    BY <2>1, <2>3
  <2>4. CASE "none" \notin M
    BY <1>1, <2>1, <2>4
  <2> QED
    BY <2>2, <2>3, <2>4
<1>3. Cardinality({"none"}) = 1 /\ Cardinality({"password"}) = 1
      /\ IsFiniteSet({"none"})
  BY FS_Singleton
<1>4. Cardinality({"none"} \cup {"password"}) = 2
  <2>1. "password" \notin {"none"}
    OBVIOUS
  <2> QED
    BY <1>3, <2>1, FS_AddElement
<1>5. {"none", "password"} = {"none"} \cup {"password"}
  BY Zenon
<1>6. Cardinality(M) \in {1, 2}
  BY <1>2, <1>3, <1>4, <1>5
<1>7. Length("greet") = 2 + Cardinality(M)
  BY DEF Length, M
<1> QED
  BY <1>6, <1>7

LEMMA Lengths ==
  ASSUME ConstantsOK
  PROVE  /\ Length("auth") = AuthLen /\ Length("request") = RequestLen
         /\ Length("run") = 0 /\ Length("stop") = 0
         /\ AuthLen \in Nat /\ RequestLen \in Nat /\ RequestLen >= 8 /\ AuthLen >= 3
         /\ Longest \in Nat /\ AuthLen <= Longest /\ RequestLen <= Longest
BY DEF Length, ConstantsOK, Longest

(* What depends on the plan alone stays with it.                           *)
LEMMA PlanKept ==
  ASSUME plan' = plan
  PROVE  /\ Length("greet")' = Length("greet")
         /\ Acceptable' = Acceptable /\ Credentials' = Credentials
         /\ Authenticated' = Authenticated /\ Method' = Method
BY DEF Length, Acceptable, Credentials, Authenticated, Method, NeedsPassword

LEMMA ReportsKept ==
  ASSUME UNCHANGED <<status, inq, o2i, outlet, answers>>, life' = "open" => life = "open",
         Reports, OneReport
  PROVE  Reports' /\ OneReport'
<1>1. UNCHANGED <<status, inq, o2i, outlet, answers>>
  OBVIOUS
<1>2. Has(inq, "connected")' = Has(inq, "connected") /\ Has(o2i, "connected")' = Has(o2i, "connected")
      /\ Has(inq, "refused")' = Has(inq, "refused") /\ Has(o2i, "refused")' = Has(o2i, "refused")
  BY DEF Has
<1>3. Reports'
  BY <1>1, <1>2, Zenon DEF Reports
<1>4. OneReport'
  BY <1>1, <1>2, Zenon DEF OneReport
<1> QED
  BY <1>3, <1>4

LEMMA TwoKept ==
  ASSUME UNCHANGED <<inq, o2i, outlet, answers>>, TwoReports
  PROVE  TwoReports'
BY DEF TwoReports, Conn, Coming

(* The part of the invariant that is about reports, where they stay.       *)
Told ==
  /\ status \in Running /\ plan.cmd = "connect" => Reports /\ OneReport
  /\ status \in Running /\ plan.cmd = "udp" => TwoReports

LEMMA ToldKept ==
  ASSUME Told, UNCHANGED <<plan, status, inq, o2i, outlet, answers>>,
         life' = "open" => life = "open"
  PROVE  Told'
<1>1. UNCHANGED <<plan, status, inq, o2i, outlet, answers>>
  OBVIOUS
<1>2. status' \in Running /\ plan'.cmd = "connect" => Reports' /\ OneReport'
  BY <1>1, ReportsKept, Zenon DEF Told
<1>3. status' \in Running /\ plan'.cmd = "udp" => TwoReports'
  BY <1>1, TwoKept, Zenon DEF Told
<1>4. Running' = Running
  BY DEF Running
<1> QED
  BY <1>2, <1>3, <1>4, Zenon DEF Told

(* How far the session is.                                                 *)
Phase ==
  /\ status = "Init" => Greeting
  /\ status = "Verification" => Verifying
  /\ status = "Connect" => Requesting
  /\ status \in Running => Asked

LEMMA Parts == IInv <=> Base /\ Phase /\ Told
BY DEF IInv, Phase, Told

LEMMA PartsNext == IInv' <=> Base' /\ Phase' /\ Told'
BY DEF IInv, Phase, Told

LEMMA ClientSendsKeeps ==
  ASSUME ConstantsOK, Base, Phase, Told, ClientSends
  PROVE  Base' /\ Phase' /\ Told'
<1>1. PICK n \in 1 .. left : frame' = n /\ left' = left - n
  BY DEF ClientSends
<1>2. /\ UNCHANGED <<plan, stage, sent, lock, status, buffer, credit, writeq, inq, life, up,
                    o2i, outlet, answers, lost>>
      /\ frame = 0
  BY DEF ClientSends, context
<1>3. left \in Nat /\ left <= Longest /\ buffer \in Nat /\ n \in Nat
  BY Lengths DEF Base, TypeOK
<1>4. Base'
  <2>1. frame' \in 0 .. Longest /\ left' \in 0 .. Longest
    BY <1>1, <1>3, Lengths
  <2> QED
    BY <1>2, <2>1 DEF Base, TypeOK
<1>5. Told'
  BY <1>2, ToldKept
<1>6. buffer' + frame' + left' = buffer + frame + left
  BY <1>1, <1>2, <1>3
<1>7. Phase'
  <2>1. CASE status = "Init"
    BY <1>2, <1>6, <2>1, PlanKept DEF Phase, Greeting, Quiet, Running
  <2>2. CASE status = "Verification"
    BY <1>1, <1>2, <1>6, <2>2, PlanKept DEF Phase, Verifying, Quiet, Running
  <2>3. CASE status = "Connect"
    <3>1. answers \in Nat
      BY Lengths DEF Base, TypeOK
    <3>2. Requesting
      BY <2>3 DEF Phase
    <3>3. left # 0
      BY <1>1, <1>3
    <3>4. stage \in {"request", "stop"} /\ 4 * answers + buffer + frame + left <= RequestLen
      BY <3>2, <3>3 DEF Requesting
    <3>5. 4 * answers' + buffer' + frame' + left' <= RequestLen
      BY <1>1, <1>2, <1>3, <3>1, <3>4, Lengths
    <3> QED
      BY <1>2, <2>3, <3>2, <3>3, <3>4, <3>5, PlanKept DEF Phase, Requesting, Quiet, Running
  <2>4. CASE status \in Running
    BY <1>1, <1>3, <2>4 DEF Phase, Asked
  <2> QED
    BY <2>1, <2>2, <2>3, <2>4 DEF Base, TypeOK, Statuses, Running
<1> QED
  BY <1>4, <1>5, <1>7

LEMMA ClientDataKeeps ==
  ASSUME ConstantsOK, Base, Phase, Told, ClientData
  PROVE  Base' /\ Phase' /\ Told'
<1>1. /\ UNCHANGED <<plan, stage, left, lock, status, buffer, credit, writeq, inq, life, up,
                    o2i, outlet, answers, lost>>
      /\ frame = 0 /\ frame' = 1 /\ stage = "run" /\ sent.up < MaxUp
      /\ sent' = [sent EXCEPT !.up = @ + 1]
  BY DEF ClientData, context
<1>2. sent' \in [up : 0 .. MaxUp, down : 0 .. MaxDown] /\ sent'.up = sent.up + 1
      /\ sent.up \in Nat
  BY <1>1 DEF Base, ConstantsOK
<1>3. Base'
  <2>1. frame' \in 0 .. Longest
    BY <1>1, Lengths
  <2> QED
    BY <1>1, <1>2, <2>1 DEF Base, TypeOK
<1>4. Told'
  BY <1>1, ToldKept
<1>5. status \in Running /\ Asked
  BY <1>1 DEF Phase, Greeting, Verifying, Requesting, Base, TypeOK, Statuses, Running
<1>6. up' + frame' <= sent'.up
  BY <1>1, <1>2, <1>5 DEF Asked, Base, TypeOK, ConstantsOK
<1>7. Asked'
  BY <1>1, <1>5, <1>6, PlanKept DEF Asked, Running
<1> QED
  BY <1>1, <1>3, <1>4, <1>5, <1>7 DEF Phase, Running

LEMMA ClientLeavesKeeps ==
  ASSUME ConstantsOK, Base, Phase, Told, ClientLeaves
  PROVE  Base' /\ Phase' /\ Told'
<1>1. /\ UNCHANGED <<plan, stage, left, sent, frame, lock, status, buffer, credit, writeq, inq,
                    up, o2i, outlet, answers, lost>>
      /\ life = "open" /\ life' = "closing"
  BY DEF ClientLeaves, context, client
<1>2. Base'
  BY <1>1 DEF Base, TypeOK, Lives
<1>3. Told'
  BY <1>1, ToldKept
<1>4. Phase'
  BY <1>1, PlanKept DEF Phase, Greeting, Verifying, Requesting, Asked, Quiet, Running
<1> QED
  BY <1>2, <1>3, <1>4

-----------------------------------------------------------------------------
(* The handshake.                                                          *)
LEMMA RepliesCounted ==
  /\ Replies(<<>>) = 0 /\ Replies(<<"none">>) = 0 /\ Replies(<<"password">>) = 0
  /\ Replies(<<"verified">>) = 0 /\ Replies(<<"refused", "close">>) = 0
  /\ Replies(<<"unsupported", "close">>) = 1
<1> DEFINE K == {"granted", "failed", "unsupported"}
           P(out) == {i \in DOMAIN out : out[i] \in K}
<1>1. P(<<>>) = {} /\ P(<<"none">>) = {} /\ P(<<"password">>) = {} /\ P(<<"verified">>) = {}
  OBVIOUS
<1>2. P(<<"refused", "close">>) = {}
  OBVIOUS
<1>3. P(<<"unsupported", "close">>) = {1}
  OBVIOUS
<1>4. Cardinality({}) = 0 /\ Cardinality({1}) = 1
  BY FS_EmptySet, FS_Singleton
<1> QED
  BY <1>1, <1>2, <1>3, <1>4, Zenon DEF Replies

LEMMA TakesStep ==
  ASSUME RecvHandshake, NEW st, NEW b, NEW out, NEW asks \in BOOLEAN, NEW fate,
         Handshake = Step(st, b, out, asks, fate)
  PROVE  /\ status' = st /\ buffer' = b /\ writeq' = writeq \o out
         /\ outlet' = (IF asks THEN "asked" ELSE outlet)
         /\ life' = fate /\ answers' = answers + Replies(out) /\ frame' = 0
         /\ UNCHANGED <<plan, stage, left, sent, lock, credit, inq, up, o2i, lost>>
<1>1. /\ Handshake.status = st /\ Handshake.buffer = b /\ Handshake.out = out
      /\ Handshake.asks = asks /\ Handshake.fate = fate
  BY DEF Step
<1> QED
  BY <1>1, Zenon DEF RecvHandshake, client

(* The handler waits for more, or fails: no reply, and no more bytes in    *)
(* the buffer than there were.                                             *)
LEMMA StaysIn ==
  ASSUME ConstantsOK, Base, Phase, Told, RecvHandshake, NEW c \in Nat, NEW fate \in Lives,
         c <= buffer + frame, Handshake = Step(status, c, <<>>, FALSE, fate)
  PROVE  Base' /\ Phase' /\ Told'
<1>1. /\ status' = status /\ buffer' = c /\ writeq' = writeq
      /\ outlet' = outlet /\ life' = fate /\ answers' = answers /\ frame' = 0
      /\ UNCHANGED <<plan, stage, left, sent, lock, credit, inq, up, o2i, lost>>
  <2>1. writeq \o <<>> = writeq /\ answers + 0 = answers
    BY Lengths DEF Base, TypeOK
  <2>2. /\ status' = status /\ buffer' = c /\ writeq' = writeq \o <<>>
        /\ outlet' = outlet /\ life' = fate /\ answers' = answers + Replies(<<>>) /\ frame' = 0
        /\ UNCHANGED <<plan, stage, left, sent, lock, credit, inq, up, o2i, lost>>
    BY TakesStep, Zenon
  <2> QED
    BY <2>1, <2>2, RepliesCounted
<1>2. life = "open" /\ status \in {"Init", "Verification", "Connect"}
  BY DEF RecvHandshake
<1>3. left \in Nat /\ buffer \in Nat /\ frame \in Nat /\ answers \in Nat
  BY Lengths DEF Base, TypeOK
<1>4. buffer' + frame' + left' <= buffer + frame + left
  BY <1>1, <1>3
<1>5. buffer + frame <= Longest
  <2>1. Length("greet") \in {3, 4}
    BY GreetingLength DEF Base, TypeOK
  <2>2. CASE status = "Init"
    BY <1>3, <2>1, <2>2, Lengths DEF Phase, Greeting
  <2>3. CASE status = "Verification"
    BY <1>3, <2>3, Lengths DEF Phase, Verifying
  <2>4. CASE status = "Connect"
    BY <1>3, <2>4, Lengths DEF Phase, Requesting
  <2> QED
    BY <1>2, <2>2, <2>3, <2>4
<1>9. Length("greet") \in {3, 4}
  BY GreetingLength DEF Base, TypeOK
<1>6. Base'
  <2>1. buffer' \in 0 .. Longest /\ frame' \in 0 .. Longest
    BY <1>1, <1>3, <1>5, Lengths
  <2> QED
    BY <1>1, <2>1 DEF Base, TypeOK
<1>7. Told'
  BY <1>1, <1>2, ToldKept
<1>8. Phase'
  <2>1. CASE status = "Init"
    BY <1>1, <1>3, <1>4, <1>9, <2>1, PlanKept DEF Phase, Greeting, Quiet, Running
  <2>2. CASE status = "Verification"
    BY <1>1, <1>3, <1>4, <2>2, PlanKept, Lengths DEF Phase, Verifying, Quiet, Running
  <2>3. CASE status = "Connect"
    <3>1. Requesting
      BY <2>3 DEF Phase
    <3>2. 4 * answers' + buffer' + frame' + left' <= 4 * answers + buffer + frame + left
      BY <1>1, <1>3
    <3>3. CASE stage \in {"greet", "auth"} /\ left = 0 /\ frame = 0 /\ buffer = 0
      BY <1>1, <2>3, <1>3, <3>1, <3>2, <3>3, PlanKept DEF Phase, Requesting, Quiet, Running
    <3>4. CASE stage \in {"request", "stop"}
      BY <1>1, <2>3, <1>3, <3>1, <3>2, <3>4, PlanKept, Lengths DEF Phase, Requesting, Quiet, Running
    <3> QED
      BY <3>1, <3>3, <3>4 DEF Requesting
  <2> QED
    BY <1>2, <2>1, <2>2, <2>3
<1> QED
  BY <1>6, <1>7, <1>8


LEMMA Waits ==
  ASSUME ConstantsOK, Base, Phase, Told, RecvHandshake, Handshake = Wait(buffer + frame)
  PROVE  Base' /\ Phase' /\ Told'
<1>1. buffer + frame \in Nat /\ buffer + frame <= buffer + frame
  BY Lengths DEF Base, TypeOK
<1>2. "open" \in Lives
  BY DEF Lives
<1>3. Handshake = Step(status, buffer + frame, <<>>, FALSE, "open")
  BY Zenon DEF Wait
<1> QED
  BY <1>1, <1>2, <1>3, StaysIn, Zenon

LEMMA Joined ==
  ASSUME NEW S, NEW s \in Seq(S), NEW t \in Seq(S)
  PROVE  s \o t \in Seq(S) /\ (t # <<>> => s \o t # <<>>)
OBVIOUS

(* No report is due before the outlet is asked.                            *)
LEMMA NothingTold ==
  ASSUME status' \in {"Init", "Verification", "Connect"}
  PROVE  Told'
BY DEF Told, Running

(* The greeting is refused, or the credentials are.                        *)
LEMMA Refused ==
  ASSUME ConstantsOK, Base, Phase, Told, RecvHandshake,
         Handshake = Refuse(buffer + frame, "refused"),
         \/ status = "Init" /\ ~ Acceptable
         \/ status = "Verification" /\ ~ Credentials /\ stage # "greet"
  PROVE  Base' /\ Phase' /\ Told'
<1> DEFINE out == <<"refused", "close">>
<1>1. /\ status' = status /\ buffer' = buffer + frame /\ writeq' = writeq \o out
      /\ outlet' = outlet /\ life' = "open" /\ answers' = answers + Replies(out) /\ frame' = 0
      /\ UNCHANGED <<plan, stage, left, sent, lock, credit, inq, up, o2i, lost>>
  BY TakesStep, Zenon DEF Refuse
<1>2. left \in Nat /\ buffer \in Nat /\ frame \in Nat /\ answers \in Nat
  BY Lengths DEF Base, TypeOK
<1>3. answers' = answers /\ buffer' + frame' + left' = buffer + frame + left
  BY <1>1, <1>2, RepliesCounted
<1>4. Length("greet") \in {3, 4}
  BY GreetingLength DEF Base, TypeOK
<1>5. buffer + frame <= Longest /\ writeq \in Seq(Denial)
  BY <1>2, <1>4, Lengths DEF Phase, Greeting, Verifying
<1>6. out \in Seq(Denial)
  BY DEF Denial
<1>7. writeq' \in Seq(Denial) /\ writeq' \in Seq(WriterMessages)
  <2>1. writeq' \in Seq(Denial)
    BY <1>1, <1>5, <1>6, Joined
  <2> QED
    BY <2>1, Kinds, SeqWider
<1>8. Base'
  <2>1. buffer' \in 0 .. Longest /\ frame' \in 0 .. Longest
    BY <1>1, <1>2, <1>5, Lengths
  <2> QED
    BY <1>1, <1>3, <1>7, <2>1 DEF Base, TypeOK, Lives
<1>9. Told'
  BY <1>1, NothingTold
<1> HIDE DEF out
<1>10. Phase'
  <2>1. CASE status = "Init"
    BY <1>1, <1>3, <1>7, <2>1, PlanKept DEF Phase, Greeting, Quiet, Running
  <2>2. CASE status = "Verification"
    BY <1>1, <1>3, <1>7, <2>2, PlanKept DEF Phase, Verifying, Quiet, Running
  <2> QED
    BY <2>1, <2>2
<1> QED
  BY <1>8, <1>9, <1>10

(* The handler goes on: nothing is left in the buffer and the one message  *)
(* on its way to the client is the reply.                                  *)
LEMMA Proceeds ==
  ASSUME ConstantsOK, Base, Phase, Told, RecvHandshake, NEW st, NEW reply,
         Handshake = Step(st, 0, <<reply>>, FALSE, "open"),
         left = 0, writeq = <<>>, answers = 0, Quiet,
         \/ st = "Connect" /\ reply = "none" /\ stage = "greet" /\ Authenticated
         \/ st = "Connect" /\ reply = "verified" /\ stage = "auth" /\ Authenticated
         \/ st = "Verification" /\ reply = "password" /\ stage = "greet"
  PROVE  Base' /\ Phase' /\ Told'
<1>1. /\ status' = st /\ buffer' = 0 /\ writeq' = writeq \o <<reply>>
      /\ outlet' = outlet /\ life' = "open" /\ answers' = answers + Replies(<<reply>>) /\ frame' = 0
      /\ UNCHANGED <<plan, stage, left, sent, lock, credit, inq, up, o2i, lost>>
  BY TakesStep, Zenon
<1>2. writeq' = <<reply>>
  BY <1>1
<1>3. answers' = 0
  BY <1>1, RepliesCounted
<1>4. writeq' \in Seq(WriterMessages)
  BY <1>2 DEF WriterMessages
<1>5. Base'
  <2>1. buffer' \in 0 .. Longest /\ frame' \in 0 .. Longest /\ answers' \in 0 .. RequestLen
    BY <1>1, <1>3, Lengths
  <2>2. status' \in Statuses
    BY <1>1 DEF Statuses
  <2> QED
    BY <1>1, <1>4, <2>1, <2>2 DEF Base, TypeOK, Lives
<1>6. Told'
  BY <1>1, NothingTold
<1>7. Quiet'
  BY <1>1 DEF Quiet
<1>8. CASE st = "Verification"
  BY <1>1, <1>2, <1>3, <1>5, <1>6, <1>7, <1>8 DEF Phase, Verifying, Running
<1>9. CASE st = "Connect"
  BY <1>1, <1>2, <1>3, <1>5, <1>6, <1>7, <1>9, PlanKept DEF Phase, Requesting, Running
<1> QED
  BY <1>8, <1>9

LEMMA InitKeeps ==
  ASSUME ConstantsOK, Base, Phase, Told, RecvHandshake, status = "Init"
  PROVE  Base' /\ Phase' /\ Told'
<1> DEFINE b == buffer + frame
           G == Length("greet")
<1>1. Handshake = on_socks5_init(b)
  BY DEF Handshake
<1>2. G \in {3, 4} /\ b \in Nat /\ left \in Nat
  BY GreetingLength, Lengths DEF Base, TypeOK
<1>3. Greeting /\ b + left <= G
  BY <1>2 DEF Phase, Greeting
<1> HIDE DEF b, G
<1>4. CASE b < 3 \/ (plan.version /\ b < G)
  <2>1. on_socks5_init(b) = Wait(b)
    <3>1. ~ (b >= 3) \/ (plan.version /\ ~ (b >= G))
      BY <1>2, <1>4
    <3> QED
      BY <1>4, <3>1, Zenon DEF on_socks5_init, G
  <2> QED
    BY <1>1, <2>1, Waits DEF b
<1>5. CASE b >= 3 /\ plan.version /\ b >= G /\ Method = "none"
  <2>1. on_socks5_init(b) = Step("Connect", b - G, <<"none">>, FALSE, "open")
    <3>1. ~ (b < 3) /\ ~ (b < G)
      BY <1>2, <1>5
    <3>2. "none" # "password"
      OBVIOUS
    <3> QED
      BY <1>5, <3>1, <3>2, Zenon DEF on_socks5_init, G
  <2>2. b - G = 0 /\ left = 0
    BY <1>2, <1>3, <1>5
  <2>3. Acceptable /\ Authenticated
    BY <1>5 DEF Acceptable, Authenticated, Method
  <2>4. writeq = <<>> /\ stage = "greet" /\ answers = 0 /\ Quiet
    BY <1>3, <2>3 DEF Greeting
  <2> QED
    BY <1>1, <2>1, <2>2, <2>3, <2>4, Proceeds
<1>6. CASE b >= 3 /\ plan.version /\ b >= G /\ Method = "password"
  <2>1. on_socks5_init(b) = Step("Verification", b - G, <<"password">>, FALSE, "open")
    <3>1. ~ (b < 3) /\ ~ (b < G)
      BY <1>2, <1>6
    <3>2. "none" # "password"
      OBVIOUS
    <3> QED
      BY <1>6, <3>1, <3>2, Zenon DEF on_socks5_init, G
  <2>2. b - G = 0 /\ left = 0
    BY <1>2, <1>3, <1>6
  <2>3. Acceptable
    BY <1>6 DEF Acceptable
  <2>4. writeq = <<>> /\ stage = "greet" /\ answers = 0 /\ Quiet
    BY <1>3, <2>3 DEF Greeting
  <2> QED
    BY <1>1, <2>1, <2>2, <2>4, Proceeds
<1>7. CASE b >= 3 /\ ~ (plan.version /\ b < G) /\ ~ (plan.version /\ Method \in {"none", "password"})
  <2>1. on_socks5_init(b) = Refuse(b, "refused")
    <3>1. ~ (b < 3)
      BY <1>2, <1>7
    <3> QED
      BY <1>7, <3>1, Zenon DEF on_socks5_init, G
  <2>2. ~ Acceptable
    BY <1>7 DEF Acceptable, Method
  <2> QED
    BY <1>1, <2>1, <2>2, Refused DEF b
<1> QED
  BY <1>2, <1>4, <1>5, <1>6, <1>7

LEMMA VerificationKeeps ==
  ASSUME ConstantsOK, Base, Phase, Told, RecvHandshake, status = "Verification"
  PROVE  Base' /\ Phase' /\ Told'
<1> DEFINE b == buffer + frame
<1>1. Handshake = on_socks5_verification(b)
  BY DEF Handshake
<1>2. AuthLen \in Nat /\ AuthLen >= 3 /\ b \in Nat /\ left \in Nat /\ frame # 0
  BY Lengths DEF Base, TypeOK, RecvHandshake
<1>3. /\ Quiet /\ answers = 0 /\ stage \in {"auth", "stop"} /\ b + left <= AuthLen
      /\ (writeq # <<>> \/ stage = "stop") => ~ Credentials
  BY <1>2 DEF Phase, Verifying
<1>4. b <= buffer + frame
  BY <1>2
<1> HIDE DEF b
<1>5. CASE b < 4
  <2>1. ~ (b >= 4)
    BY <1>2, <1>5
  <2>2. on_socks5_verification(b) = Wait(b)
    BY <1>5, <2>1, Zenon DEF on_socks5_verification
  <2> QED
    BY <1>1, <2>2, Waits DEF b
<1>6. CASE b >= 4 /\ b < AuthLen
  <2>1. ~ (b < 4) /\ ~ (b >= AuthLen)
    BY <1>2, <1>6
  <2>2. on_socks5_verification(b) = Step(status, b, <<>>, FALSE, "panicked")
    BY <1>6, <2>1, Zenon DEF on_socks5_verification
  <2>3. "panicked" \in Lives
    BY DEF Lives
  <2> QED
    BY <1>1, <1>2, <1>4, <2>2, <2>3, StaysIn, Zenon
<1>7. CASE b >= 4 /\ b >= AuthLen /\ Credentials
  <2>1. ~ (b < 4) /\ ~ (b < AuthLen)
    BY <1>2, <1>7
  <2>2. on_socks5_verification(b) = Step("Connect", b - AuthLen, <<"verified">>, FALSE, "open")
    BY <1>7, <2>1, Zenon DEF on_socks5_verification, Credentials
  <2>3. b - AuthLen = 0 /\ left = 0
    BY <1>2, <1>3, <1>7
  <2>4. writeq = <<>> /\ stage = "auth" /\ Authenticated
    BY <1>3, <1>7 DEF Authenticated
  <2> QED
    BY <1>1, <1>3, <2>2, <2>3, <2>4, Proceeds
<1>8. CASE b >= 4 /\ b >= AuthLen /\ ~ Credentials
  <2>1. ~ (b < 4) /\ ~ (b < AuthLen)
    BY <1>2, <1>8
  <2>2. on_socks5_verification(b) = Refuse(b, "refused")
    BY <1>8, <2>1, Zenon DEF on_socks5_verification, Credentials
  <2>3. stage # "greet"
    BY <1>3
  <2> QED
    BY <1>1, <1>8, <2>2, <2>3, Refused DEF b
<1> QED
  BY <1>2, <1>5, <1>6, <1>7, <1>8

LEMMA FourBytes ==
  ASSUME NEW a \in Nat, NEW b \in Nat, NEW f \in Nat, NEW l \in Nat, NEW n \in Nat,
         NEW c \in Nat, c + 4 = b + f, b + f >= 8, a + b + f + l <= n
  PROVE  (a + 4) + c + 0 + l <= n /\ (a + 4) + 4 <= n
OBVIOUS

(* A request that is not supported: every refusal takes four bytes out of  *)
(* the buffer.                                                             *)
LEMMA Unsupported ==
  ASSUME ConstantsOK, Base, Phase, Told, RecvHandshake, status = "Connect",
         buffer + frame >= 8, plan.cmd = "bind",
         Handshake = Refuse((buffer + frame) - 4, "unsupported")
  PROVE  Base' /\ Phase' /\ Told'
<1> DEFINE out == <<"unsupported", "close">>
<1>1. /\ status' = status /\ buffer' = (buffer + frame) - 4 /\ writeq' = writeq \o out
      /\ outlet' = outlet /\ life' = "open" /\ answers' = answers + Replies(out) /\ frame' = 0
      /\ UNCHANGED <<plan, stage, left, sent, lock, credit, inq, up, o2i, lost>>
  BY TakesStep, Zenon DEF Refuse
<1>2. left \in Nat /\ buffer \in Nat /\ frame \in Nat /\ answers \in Nat /\ frame # 0
  BY Lengths DEF Base, TypeOK, RecvHandshake
<1>3. answers' = answers + 1
  BY <1>1, <1>2, RepliesCounted
<1>4. /\ Quiet /\ Authenticated /\ stage \in {"request", "stop"} /\ writeq \in Seq(NoSupport)
      /\ 4 * answers + buffer + frame + left <= RequestLen
  BY <1>2 DEF Phase, Requesting
<1>5. /\ 4 * answers' + buffer' + frame' + left' <= RequestLen
      /\ 4 * answers' + 4 <= RequestLen
  <2>1. 4 * answers' = 4 * answers + 4 /\ 4 * answers \in Nat
    BY <1>2, <1>3
  <2>2. buffer' \in Nat /\ buffer' + 4 = buffer + frame /\ buffer + frame >= 8
        /\ frame' = 0 /\ left' = left
    BY <1>1, <1>2
  <2> DEFINE A == 4 * answers
             B == 4 * answers'
  <2>3. A \in Nat /\ B = A + 4 /\ A + buffer + frame + left <= RequestLen
    BY <1>4, <2>1
  <2> HIDE DEF A, B
  <2>4. B + buffer' + frame' + left' <= RequestLen /\ B + 4 <= RequestLen
    BY <1>2, <2>2, <2>3, Lengths, FourBytes, Zenon
  <2> QED
    BY <2>4 DEF B
<1>6. out \in Seq(NoSupport)
  BY DEF NoSupport
<1>7. writeq' \in Seq(NoSupport) /\ writeq' \in Seq(WriterMessages)
  <2>1. writeq' \in Seq(NoSupport)
    BY <1>1, <1>4, <1>6, Joined
  <2> QED
    BY <2>1, Kinds, SeqWider
<1> HIDE DEF out
<1>8. Base'
  <2>1. buffer' \in 0 .. Longest /\ frame' \in 0 .. Longest /\ answers' \in 0 .. RequestLen
    BY <1>1, <1>2, <1>3, <1>4, <1>5, Lengths
  <2> QED
    BY <1>1, <1>7, <2>1 DEF Base, TypeOK, Lives
<1>9. Told'
  BY <1>1, NothingTold
<1>10. Quiet'
  BY <1>1, <1>4 DEF Quiet
<1> QED
  BY <1>1, <1>4, <1>5, <1>7, <1>8, <1>9, <1>10, PlanKept DEF Phase, Requesting, Running

(* The whole request is there and the outlet is asked.                     *)
LEMMA Asks ==
  ASSUME ConstantsOK, Base, Phase, Told, RecvHandshake, status = "Connect",
         buffer + frame >= RequestLen, plan.cmd # "bind",
         Handshake = Step("Connecting", 0, <<>>, TRUE, "open")
  PROVE  Base' /\ Phase' /\ Told'
<1>1. /\ status' = "Connecting" /\ buffer' = 0 /\ writeq' = writeq \o <<>>
      /\ outlet' = "asked" /\ life' = "open" /\ answers' = answers + Replies(<<>>) /\ frame' = 0
      /\ UNCHANGED <<plan, stage, left, sent, lock, credit, inq, up, o2i, lost>>
  BY TakesStep, Zenon
<1>2. left \in Nat /\ buffer \in Nat /\ frame \in Nat /\ answers \in Nat /\ frame # 0
  BY Lengths DEF Base, TypeOK, RecvHandshake
<1>3. /\ Quiet /\ Authenticated /\ stage = "request" /\ writeq = <<>> /\ answers = 0
      /\ 4 * answers + buffer + frame + left <= RequestLen
  BY <1>2 DEF Phase, Requesting
<1>4. left = 0 /\ answers' = 0 /\ writeq' = <<>>
  BY <1>1, <1>2, <1>3, Lengths, RepliesCounted
<1>5. plan.cmd \in {"connect", "udp"}
  BY DEF Base, TypeOK, ConstantsOK, PlanSet
<1>6. writeq' \in Seq(WriterMessages) /\ writeq' \in Seq(Service) /\ writeq' \in Seq(Failure)
  BY <1>4, EmptyIn
<1>7. Base'
  <2>1. buffer' \in 0 .. Longest /\ frame' \in 0 .. Longest /\ answers' \in 0 .. RequestLen
    BY <1>1, <1>4, Lengths
  <2> QED
    BY <1>1, <1>6, <2>1 DEF Base, TypeOK, Lives, Statuses
<1>8. inq' = <<>> /\ o2i' = <<>> /\ up' = 0 /\ credit' = 0 /\ lock' = "free"
  BY <1>1, <1>3 DEF Quiet
<1>9. Phase'
  <2>1. up' + frame' <= sent'.up
    BY <1>1, <1>8 DEF Base, ConstantsOK
  <2> QED
    BY <1>1, <1>3, <1>4, <1>5, <1>6, <1>8, <2>1, PlanKept DEF Phase, Asked, Running
<1>10. Reports' /\ OneReport'
  <2>1. ~ Has(inq, "refused")' /\ ~ Has(o2i, "refused")'
    BY <1>8, EmptyIn DEF Has
  <2>2. Reports'
    BY <1>1, <1>4, <1>8, EmptyIn DEF Reports
  <2> QED
    BY <1>4, <2>1, <2>2 DEF OneReport
<1>11. TwoReports'
  <2>1. Conn(o2i)' = 0 /\ Coming' = 2 /\ Len(inq') = 0
    BY <1>1, <1>8, EmptyIn DEF Conn, Coming
  <2>2. inq' \in Seq(Result) /\ o2i' \in Seq(ResultOrEnd) /\ o2i' \in Seq(Result)
    BY <1>8, EmptyIn
  <2> QED
    BY <1>4, <2>1, <2>2 DEF TwoReports
<1> QED
  BY <1>7, <1>9, <1>10, <1>11 DEF Told

LEMMA ConnectKeeps ==
  ASSUME ConstantsOK, Base, Phase, Told, RecvHandshake, status = "Connect"
  PROVE  Base' /\ Phase' /\ Told'
<1> DEFINE b == buffer + frame
<1>1. Handshake = on_socks5_connect(b)
  BY DEF Handshake
<1>2. RequestLen \in Nat /\ RequestLen >= 8 /\ b \in Nat
  BY Lengths DEF Base, TypeOK
<1>3. b <= buffer + frame /\ (b >= 8 => b - 4 \in Nat /\ b - 4 <= buffer + frame)
  BY <1>2
<1> HIDE DEF b
<1>4. CASE b < 8
  <2>1. ~ (b >= 8)
    BY <1>2, <1>4
  <2>2. on_socks5_connect(b) = Wait(b)
    BY <1>4, <2>1, Zenon DEF on_socks5_connect
  <2> QED
    BY <1>1, <2>2, Waits DEF b
<1>5. CASE b >= 8 /\ plan.cmd = "bind"
  <2>1. ~ (b < 8)
    BY <1>2, <1>5
  <2>2. on_socks5_connect(b) = Refuse(b - 4, "unsupported")
    BY <1>5, <2>1, Zenon DEF on_socks5_connect
  <2> QED
    <3>1. Handshake = Refuse((buffer + frame) - 4, "unsupported") /\ buffer + frame >= 8
      BY <1>1, <1>5, <2>2, Zenon DEF b
    <3> QED
      BY <1>5, <3>1, Unsupported, Zenon
<1>6. CASE b >= 8 /\ plan.cmd # "bind" /\ ~ plan.address
  <2>1. ~ (b < 8)
    BY <1>2, <1>6
  <2>2. on_socks5_connect(b) = Step(status, b - 4, <<>>, FALSE, "closing")
    BY <1>6, <2>1, Zenon DEF on_socks5_connect
  <2>3. "closing" \in Lives
    BY DEF Lives
  <2> QED
    BY <1>1, <1>3, <1>6, <2>2, <2>3, StaysIn, Zenon
<1>7. CASE b >= 8 /\ plan.cmd # "bind" /\ plan.address /\ ~ Complete(b)
  <2>1. ~ (b < 8)
    BY <1>2, <1>7
  <2>2. on_socks5_connect(b) = Wait(b)
    BY <1>7, <2>1, Zenon DEF on_socks5_connect
  <2> QED
    BY <1>1, <2>2, Waits DEF b
<1>8. CASE b >= 8 /\ plan.cmd # "bind" /\ plan.address /\ Complete(b)
  <2>1. ~ (b < 8)
    BY <1>2, <1>8
  <2>2. on_socks5_connect(b) = Step("Connecting", 0, <<>>, TRUE, "open")
    BY <1>8, <2>1, Zenon DEF on_socks5_connect
  <2>3. buffer + frame >= RequestLen
    BY <1>8 DEF Complete, b
  <2> QED
    BY <1>1, <1>8, <2>2, <2>3, Asks
<1> QED
  BY <1>2, <1>4, <1>5, <1>6, <1>7, <1>8

LEMMA RecvHandshakeKeeps ==
  ASSUME ConstantsOK, Base, Phase, Told, RecvHandshake
  PROVE  Base' /\ Phase' /\ Told'
BY InitKeeps, VerificationKeeps, ConnectKeeps DEF RecvHandshake

LEMMA RecvIgnoredKeeps ==
  ASSUME ConstantsOK, Base, Phase, Told, RecvIgnored
  PROVE  Base' /\ Phase' /\ Told'
<1>1. /\ UNCHANGED <<plan, stage, left, sent, lock, status, buffer, credit, writeq, inq, life,
                    up, o2i, outlet, answers>>
      /\ frame' = 0 /\ status \in {"Connecting", "RunWithUdp"}
      /\ lost' = (lost \/ (stage = "run" /\ plan.cmd = "connect"))
  BY DEF RecvIgnored, client, context
<1>2. Asked
  BY <1>1 DEF Phase, Running
<1>3. ~ lost'
  BY <1>1, <1>2, Zenon DEF Asked, Base
<1>4. frame' \in 0 .. Longest
  BY <1>1, Lengths
<1>5. Base'
  BY <1>1, <1>3, <1>4 DEF Base, TypeOK
<1>6. Told'
  BY <1>1, ToldKept
<1>7. up' + frame' <= sent'.up
  BY <1>1, <1>2 DEF Asked, Base, TypeOK, ConstantsOK
<1>8. lock = "free"
  BY <1>1, <1>2 DEF Asked, Base, TypeOK
<1>9. Asked'
  BY <1>1, <1>2, <1>7, <1>8, PlanKept DEF Asked
<1> QED
  BY <1>1, <1>5, <1>6, <1>9 DEF Phase, Running

LEMMA RecvDataKeeps ==
  ASSUME ConstantsOK, Base, Phase, Told, RecvData
  PROVE  Base' /\ Phase' /\ Told'
<1>1. /\ UNCHANGED <<plan, stage, left, sent, frame, status, buffer, credit, writeq, inq, life,
                    up, o2i, outlet, answers, lost>>
      /\ frame # 0 /\ lock' = "frame" /\ status = "RunWithTcp"
  BY DEF RecvData, client, context
<1>2. Asked
  BY <1>1 DEF Phase, Running
<1>3. Base'
  BY <1>1 DEF Base, TypeOK
<1>4. Told'
  BY <1>1, ToldKept
<1>5. Asked'
  BY <1>1, <1>2, PlanKept DEF Asked
<1> QED
  BY <1>1, <1>3, <1>4, <1>5 DEF Phase, Running

LEMMA SendDataKeeps ==
  ASSUME ConstantsOK, Base, Phase, Told, SendData
  PROVE  Base' /\ Phase' /\ Told'
<1>1. /\ UNCHANGED <<plan, stage, left, sent, status, buffer, writeq, inq, life,
                    o2i, outlet, answers, lost>>
      /\ lock = "frame" /\ lock' = "free" /\ credit <= 0 /\ credit' = credit + 1
      /\ up' = up + 1 /\ frame' = 0
  BY DEF SendData, client, READ_BUF_MAX_LEN
<1>2. status \in Running /\ Asked
  BY <1>1 DEF Phase, Running, Greeting, Verifying, Requesting, Quiet, Base, TypeOK, Statuses
<1>3. frame = 1 /\ status = "RunWithTcp" /\ up + frame <= sent.up
  BY <1>1, <1>2 DEF Asked
<1>4. up \in Nat /\ sent.up \in Nat /\ sent.up <= MaxUp /\ credit \in {0, 1}
  BY DEF Base, TypeOK, ConstantsOK
<1>5. up' \in 0 .. MaxUp /\ credit' \in 0 .. 1 /\ up' + frame' <= sent'.up /\ frame' \in 0 .. Longest
  BY <1>1, <1>3, <1>4, Lengths DEF ConstantsOK
<1>6. Base'
  BY <1>1, <1>5 DEF Base, TypeOK
<1>7. Told'
  BY <1>1, ToldKept
<1>8. Asked'
  BY <1>1, <1>2, <1>3, <1>5, PlanKept DEF Asked
<1> QED
  BY <1>1, <1>3, <1>6, <1>7, <1>8 DEF Phase, Running

-----------------------------------------------------------------------------
(* Messages in queues.                                                     *)
LEMMA HasAppended ==
  ASSUME NEW S, NEW s \in Seq(S), NEW m \in S, NEW x
  PROVE  Has(Append(s, m), x) <=> Has(s, x) \/ m = x
BY Appended DEF Has

LEMMA HasTaken ==
  ASSUME NEW S, NEW s \in Seq(S), s # <<>>, NEW x
  PROVE  Has(s, x) <=> Head(s) = x \/ Has(Tail(s), x)
<1>1. /\ Head(s) = s[1] /\ Len(s) \in Nat /\ Len(s) >= 1
      /\ DOMAIN s = 1 .. Len(s) /\ DOMAIN Tail(s) = 1 .. Len(s) - 1
      /\ \A i \in 1 .. Len(s) - 1 : Tail(s)[i] = s[i + 1]
  BY Taken
<1>2. ASSUME NEW i \in DOMAIN s, s[i] = x PROVE Head(s) = x \/ Has(Tail(s), x)
  <2>1. CASE i = 1
    BY <1>1, <1>2, <2>1
  <2>2. CASE i # 1
    <3>1. i - 1 \in DOMAIN Tail(s) /\ (i - 1) + 1 = i
      BY <1>1, <1>2, <2>2
    <3>2. Tail(s)[i - 1] = x
      BY <1>1, <1>2, <3>1
    <3> QED
      BY <3>1, <3>2 DEF Has
  <2> QED
    BY <2>1, <2>2
<1>3. ASSUME NEW i \in DOMAIN Tail(s), Tail(s)[i] = x PROVE Has(s, x)
  <2>1. i + 1 \in DOMAIN s /\ s[i + 1] = x
    BY <1>1, <1>3
  <2> QED
    BY <2>1 DEF Has
<1>4. Head(s) = x => Has(s, x)
  BY <1>1 DEF Has
<1> QED
  BY <1>2, <1>3, <1>4 DEF Has

LEMMA ConnValue ==
  ASSUME NEW s
  PROVE  /\ s = <<>> => Conn(s) = Len(s)
         /\ s # <<>> /\ s[Len(s)] = "closed" => Conn(s) = Len(s) - 1
         /\ s # <<>> /\ s[Len(s)] # "closed" => Conn(s) = Len(s)
BY Zenon DEF Conn

LEMMA ConnTaken ==
  ASSUME NEW S, NEW s \in Seq(S), s # <<>>
  PROVE  /\ Conn(s) \in Nat /\ Conn(Tail(s)) \in Nat /\ Conn(Tail(s)) <= Conn(s)
         /\ Head(s) # "closed" => Conn(Tail(s)) = Conn(s) - 1
<1>1. /\ Tail(s) \in Seq(S) /\ Head(s) = s[1] /\ Len(s) \in Nat /\ Len(s) >= 1
      /\ Len(Tail(s)) = Len(s) - 1
      /\ \A i \in 1 .. Len(s) - 1 : Tail(s)[i] = s[i + 1]
  BY Taken
<1>2. CASE Len(s) = 1
  <2>1. Tail(s) = <<>>
    <3>1. Len(Tail(s)) = 0
      BY <1>1, <1>2
    <3> QED
      BY <1>1, <3>1, EmptySeq, Zenon
  <2>2. Conn(Tail(s)) = 0
    BY <2>1, EmptyIn DEF Conn
  <2>3. Conn(s) = IF Head(s) = "closed" THEN 0 ELSE 1
    BY <1>1, <1>2, ConnValue
  <2> QED
    BY <2>2, <2>3
<1>3. CASE Len(s) # 1
  <2>1. Tail(s) # <<>> /\ Tail(s)[Len(s) - 1] = s[Len(s)]
    <3>1. Len(s) - 1 \in 1 .. Len(s) - 1 /\ (Len(s) - 1) + 1 = Len(s)
      BY <1>1, <1>3
    <3>2. Tail(s) # <<>>
      BY <1>1, <3>1, EmptyIn
    <3> QED
      BY <1>1, <3>1, <3>2
  <2>2. CASE s[Len(s)] = "closed"
    <3>1. Conn(s) = Len(s) - 1
      BY <2>2, ConnValue, Zenon
    <3>2. Conn(Tail(s)) = Len(Tail(s)) - 1
      BY <1>1, <2>1, <2>2, ConnValue, Zenon
    <3> QED
      BY <1>1, <1>3, <3>1, <3>2
  <2>3. CASE s[Len(s)] # "closed"
    <3>1. Conn(s) = Len(s)
      BY <2>3, ConnValue, Zenon
    <3>2. Conn(Tail(s)) = Len(Tail(s))
      BY <1>1, <2>1, <2>3, ConnValue, Zenon
    <3> QED
      BY <1>1, <1>3, <3>1, <3>2
  <2> QED
    BY <2>2, <2>3
<1> QED
  BY <1>2, <1>3

LEMMA ConnAppended ==
  ASSUME NEW s \in Seq(Result), NEW m
  PROVE  /\ Len(s) \in Nat /\ Conn(s) = Len(s)
         /\ m = "closed" => Conn(Append(s, m)) = Len(s)
         /\ m \in Result => Conn(Append(s, m)) = Len(s) + 1
<1>1. Len(s) \in Nat /\ (s # <<>> => Len(s) \in 1 .. Len(s))
  BY EmptySeq
<1>2. Conn(s) = Len(s)
  <2>1. s # <<>> => s[Len(s)] \in Result
    BY <1>1, ElementOfSeq
  <2> QED
    BY <2>1 DEF Conn, Result
<1>3. Append(s, m) # <<>> /\ Len(Append(s, m)) = Len(s) + 1 /\ Append(s, m)[Len(s) + 1] = m
  <2>1. s \in Seq(Result \cup {m})
    BY SeqWider
  <2> QED
    BY <2>1, Appended
<1>4. m = "closed" => Conn(Append(s, m)) = Len(s)
  BY <1>1, <1>3 DEF Conn
<1>5. m \in Result => Conn(Append(s, m)) = Len(s) + 1
  BY <1>1, <1>3 DEF Conn, Result
<1> QED
  BY <1>1, <1>2, <1>4, <1>5

(* One more message from the outlet.                                       *)
LEMMA ReportsSaid ==
  ASSUME Reports, OneReport, o2i \in Seq(OutMessages), inq \in Seq(Reported),
         NEW m \in OutMessages \ {"refused"}, o2i' = Append(o2i, m),
         UNCHANGED <<status, inq, life, answers>>,
         m = "data" => outlet \in {"opening", "open"},
         outlet' \in {"opening", "open"} => m = "connected" \/ outlet \in {"opening", "open"},
         outlet # "gone",
         Slow \/ (answers = 0 /\ ~ Has(inq, "refused") /\ ~ Has(o2i, "refused"))
              \/ outlet \in {"opening", "open"}
  PROVE  Reports' /\ OneReport'
<1>1. UNCHANGED <<status, inq, life, answers>>
  OBVIOUS
<1>2. /\ DOMAIN o2i = 1 .. Len(o2i) /\ DOMAIN o2i' = 1 .. Len(o2i) + 1 /\ Len(o2i) \in Nat
      /\ \A i \in 1 .. Len(o2i) : o2i'[i] = o2i[i]
      /\ o2i'[Len(o2i) + 1] = m
  BY Appended
<1>3. \A x : Has(o2i', x) <=> Has(o2i, x) \/ m = x
  BY HasAppended
<1>4. \A i \in DOMAIN inq' : inq'[i] = "data" =>
        status' = "RunWithTcp" \/ \E j \in 1 .. i - 1 : inq'[j] = "connected"
  BY <1>1, Zenon DEF Reports
<1>5. life' = "open" => \A i \in DOMAIN o2i' : o2i'[i] = "data" =>
        \/ status' = "RunWithTcp" \/ Has(inq', "connected")
        \/ \E j \in 1 .. i - 1 : o2i'[j] = "connected"
  <2> SUFFICES ASSUME life' = "open", NEW i \in DOMAIN o2i', o2i'[i] = "data",
                      ~ (status' = "RunWithTcp"), ~ Has(inq', "connected")
               PROVE  \E j \in 1 .. i - 1 : o2i'[j] = "connected"
    OBVIOUS
  <2>1. CASE i \in 1 .. Len(o2i)
    <3>1. PICK j \in 1 .. i - 1 : o2i[j] = "connected"
      BY <1>1, <1>2, <2>1 DEF Reports
    <3>2. j \in 1 .. Len(o2i)
      BY <1>2, <2>1
    <3> QED
      BY <1>2, <3>1, <3>2
  <2>2. CASE i = Len(o2i) + 1
    <3>1. Has(o2i, "connected")
      BY <1>1, <1>2, <2>2 DEF Reports
    <3>2. PICK j \in 1 .. Len(o2i) : o2i[j] = "connected"
      BY <1>2, <3>1 DEF Has
    <3>3. j \in 1 .. i - 1
      BY <1>2, <2>2
    <3> QED
      BY <1>2, <3>2, <3>3
  <2> QED
    BY <1>2, <2>1, <2>2
<1>6. life' = "open" /\ outlet' \in {"opening", "open"} =>
        status' = "RunWithTcp" \/ Has(inq', "connected") \/ Has(o2i', "connected")
  BY <1>1, <1>3 DEF Reports
<1>7. answers' <= IF status' = "Connecting" THEN 1 ELSE 2
  BY <1>1, Zenon DEF Reports
<1>8. \A i \in DOMAIN inq' : inq'[i] = "refused" =>
        i = 1 /\ answers' = 0 /\ status' = "Connecting" /\ ~ Has(o2i', "refused")
  BY <1>1, <1>3, Zenon DEF Reports
<1>9. \A i \in DOMAIN o2i' : o2i'[i] = "refused" =>
        i = 1 /\ answers' = 0 /\ status' = "Connecting" /\ inq' = <<>>
  BY <1>1, <1>2 DEF Reports
<1>10. Reports'
  <2>1. \A q, x : Has(q, x)' = Has(q', x)
    BY DEF Has
  <2> QED
    BY <1>4, <1>5, <1>6, <1>7, <1>8, <1>9, Zenon DEF Reports, Has
<1>11. OneReport'
  <2> SUFFICES ASSUME ~ Slow PROVE OneReport'
    BY DEF OneReport
  <2>1. ~ ((answers # 0 \/ Has(inq, "refused") \/ Has(o2i, "refused")) /\ status = "Connecting")
    BY DEF OneReport
  <2>2. ~ ((answers' # 0 \/ Has(inq', "refused") \/ Has(o2i', "refused")) /\ status' = "Connecting")
    BY <1>1, <1>3, <2>1, Zenon
  <2>3. answers' <= 1
    BY <1>1 DEF OneReport
  <2> QED
    BY <2>2, <2>3, Zenon DEF OneReport, Has
<1> QED
  BY <1>10, <1>11

(* A message is in a queue once the outlet has been asked.                 *)
LEMMA IsAsked ==
  ASSUME Base, Phase, inq # <<>> \/ o2i # <<>> \/ up # 0 \/ outlet # "idle"
  PROVE  status \in Running /\ Asked
BY DEF Base, TypeOK, Statuses, Phase, Greeting, Verifying, Requesting, Quiet, Running

(* The inlet's input loop hands a message on.                              *)
LEMMA ReportsMoved ==
  ASSUME Reports, OneReport, o2i \in Seq(OutMessages), inq \in Seq(Reported), o2i # <<>>,
         life = "open", UNCHANGED <<status, outlet, life, answers>>, o2i' = Tail(o2i),
         \/ Head(o2i) \in Reported /\ inq' = Append(inq, Head(o2i))
         \/ Head(o2i) \notin Reported /\ inq' = inq
  PROVE  Reports' /\ OneReport'
<1>1. UNCHANGED <<status, outlet, life, answers>>
  OBVIOUS
<1>2. /\ DOMAIN o2i = 1 .. Len(o2i) /\ DOMAIN o2i' = 1 .. Len(o2i) - 1 /\ Len(o2i) \in Nat
      /\ \A i \in 1 .. Len(o2i) - 1 : o2i'[i] = o2i[i + 1]
      /\ Head(o2i) = o2i[1] /\ Len(o2i) >= 1
  BY Taken
<1>3. /\ DOMAIN inq = 1 .. Len(inq) /\ Len(inq) \in Nat
      /\ \A i \in 1 .. Len(inq) : inq'[i] = inq[i]
      /\ Head(o2i) \in Reported => DOMAIN inq' = 1 .. Len(inq) + 1 /\ inq'[Len(inq) + 1] = Head(o2i)
      /\ Head(o2i) \notin Reported => DOMAIN inq' = 1 .. Len(inq)
  <2>1. CASE Head(o2i) \in Reported
    BY <2>1, Appended
  <2>2. CASE Head(o2i) \notin Reported
    BY <2>2
  <2> QED
    BY <2>1, <2>2
<1>4. /\ \A x \in Reported : Has(inq', x) <=> Has(inq, x) \/ Head(o2i) = x
      /\ \A x : Has(o2i, x) <=> Head(o2i) = x \/ Has(o2i', x)
  <2>1. \A x : Has(o2i, x) <=> Head(o2i) = x \/ Has(o2i', x)
    BY HasTaken
  <2>2. CASE Head(o2i) \in Reported
    <3>1. \A x : Has(Append(inq, Head(o2i)), x) <=> Has(inq, x) \/ Head(o2i) = x
      BY <2>2, HasAppended
    <3>2. inq' = Append(inq, Head(o2i))
      BY <2>2
    <3> QED
      BY <2>1, <3>1, <3>2, Zenon
  <2>3. CASE Head(o2i) \notin Reported
    BY <2>1, <2>3
  <2> QED
    BY <2>2, <2>3
<1>5. "data" \in Reported /\ "connected" \in Reported /\ "refused" \in Reported
  BY DEF Reported
<1>6. ASSUME NEW i \in DOMAIN inq', inq'[i] = "data", status' # "RunWithTcp"
      PROVE  \E j \in 1 .. i - 1 : inq'[j] = "connected"
  <2>1. CASE i \in 1 .. Len(inq)
    <3>1. PICK j \in 1 .. i - 1 : inq[j] = "connected"
      BY <1>1, <1>3, <1>6, <2>1 DEF Reports
    <3>2. j \in 1 .. Len(inq)
      BY <1>3, <2>1
    <3> QED
      BY <1>3, <3>1, <3>2
  <2>2. CASE i \notin 1 .. Len(inq)
    <3>1. i = Len(inq) + 1 /\ Head(o2i) = "data"
      BY <1>3, <1>6, <2>2
    <3>2. Has(inq, "connected") \/ \E j \in 1 .. 1 - 1 : o2i[j] = "connected"
      <4>1. 1 \in DOMAIN o2i
        BY <1>2
      <4> QED
        BY <1>1, <1>2, <1>6, <3>1, <4>1 DEF Reports
    <3>3. PICK j \in 1 .. Len(inq) : inq[j] = "connected"
      BY <1>3, <3>2 DEF Has
    <3>4. j \in 1 .. i - 1
      BY <1>3, <3>1
    <3> QED
      BY <1>3, <3>3, <3>4
  <2> QED
    BY <2>1, <2>2
<1>7. ASSUME NEW i \in DOMAIN o2i', o2i'[i] = "data", status' # "RunWithTcp",
             ~ Has(inq', "connected")
      PROVE  \E j \in 1 .. i - 1 : o2i'[j] = "connected"
  <2>1. i + 1 \in DOMAIN o2i /\ o2i[i + 1] = "data"
    BY <1>2, <1>7
  <2>2. ~ Has(inq, "connected") /\ Head(o2i) # "connected"
    BY <1>4, <1>5, <1>7
  <2>3. PICK j \in 1 .. (i + 1) - 1 : o2i[j] = "connected"
    BY <1>1, <1>7, <2>1, <2>2 DEF Reports
  <2>4. j # 1 /\ j - 1 \in 1 .. i - 1 /\ j - 1 \in 1 .. Len(o2i) - 1 /\ (j - 1) + 1 = j
    BY <1>2, <2>2, <2>3
  <2> QED
    BY <1>2, <2>3, <2>4
<1>8. ASSUME outlet' \in {"opening", "open"}
      PROVE  status' = "RunWithTcp" \/ Has(inq', "connected") \/ Has(o2i', "connected")
  BY <1>1, <1>4, <1>5, <1>8 DEF Reports
<1>9. answers' <= IF status' = "Connecting" THEN 1 ELSE 2
  BY <1>1, Zenon DEF Reports
<1>10. ASSUME NEW i \in DOMAIN o2i' PROVE o2i'[i] # "refused"
  <2>1. i + 1 \in DOMAIN o2i /\ o2i[i + 1] = o2i'[i] /\ i + 1 # 1
    BY <1>2
  <2> QED
    BY <2>1 DEF Reports
<1>11. ASSUME NEW i \in DOMAIN inq', inq'[i] = "refused"
       PROVE  i = 1 /\ answers' = 0 /\ status' = "Connecting" /\ ~ Has(o2i', "refused")
  <2>1. CASE i \in 1 .. Len(inq)
    BY <1>1, <1>3, <1>4, <1>11, <2>1 DEF Reports
  <2>2. CASE i \notin 1 .. Len(inq)
    <3>1. i = Len(inq) + 1 /\ Head(o2i) = "refused"
      BY <1>3, <1>11, <2>2
    <3>2. answers = 0 /\ status = "Connecting" /\ inq = <<>>
      <4>1. 1 \in DOMAIN o2i /\ o2i[1] = "refused"
        BY <1>2, <3>1
      <4> QED
        BY <4>1 DEF Reports
    <3>3. i = 1
      BY <3>1, <3>2, EmptyIn
    <3> QED
      BY <1>1, <1>10, <3>2, <3>3 DEF Has
  <2> QED
    BY <2>1, <2>2
<1>12. Reports'
  <2>1. ~ Has(o2i', "refused")
    BY <1>10 DEF Has
  <2> QED
    BY <1>1, <1>6, <1>7, <1>8, <1>9, <1>10, <1>11, Zenon DEF Reports, Has
<1>13. OneReport'
  <2> SUFFICES ASSUME ~ Slow PROVE OneReport'
    BY DEF OneReport
  <2>1. answers' <= 1
    BY <1>1 DEF OneReport
  <2>2. ASSUME answers' # 0 \/ Has(inq', "refused") \/ Has(o2i', "refused"), status' = "Connecting"
        PROVE  outlet' = "gone" /\ inq' \in Seq({"refused"}) /\ o2i' \in Seq({"refused"})
    <3>1. answers # 0 \/ Has(inq, "refused") \/ Has(o2i, "refused")
      BY <1>1, <1>4, <1>5, <2>2
    <3>2. outlet = "gone" /\ inq \in Seq({"refused"}) /\ o2i \in Seq({"refused"})
      BY <1>1, <2>2, <3>1 DEF OneReport
    <3>3. Tail(o2i) \in Seq({"refused"}) /\ Head(o2i) = "refused"
      BY <3>2, Taken
    <3>4. inq' \in Seq({"refused"})
      BY <1>5, <3>2, <3>3
    <3> QED
      BY <1>1, <3>2, <3>3, <3>4
  <2> QED
    BY <2>1, <2>2, Zenon DEF OneReport, Has
<1> QED
  BY <1>12, <1>13

LEMMA InputInternalKeeps ==
  ASSUME ConstantsOK, Base, Phase, Told, InputInternal
  PROVE  Base' /\ Phase' /\ Told'
<1>1. /\ UNCHANGED <<plan, stage, left, sent, frame, lock, status, buffer, life, up, outlet,
                    answers, lost>>
      /\ o2i # <<>> /\ life = "open" /\ o2i' = Tail(o2i)
      /\ inq' = IF Head(o2i) \in Direct THEN inq ELSE Append(inq, Head(o2i))
      /\ writeq' = IF Head(o2i) = "closed" THEN Append(writeq, "close") ELSE writeq
      /\ credit' = IF Head(o2i) = "ack" /\ "ack" \in Direct /\ credit > 0
                     THEN credit - 1 ELSE credit
  BY DEF InputInternal, client
<1>2. status \in Running /\ Asked /\ outlet # "asked"
  <2>1. status \in Running /\ Asked
    BY <1>1, IsAsked
  <2> QED
    BY <1>1, <2>1 DEF Asked
<1>3. /\ o2i \in Seq(OutMessages) /\ inq \in Seq(Reported) /\ writeq \in Seq(WriterMessages)
      /\ credit \in {0, 1}
  BY DEF Base, TypeOK
<1>4. Head(o2i) \in OutMessages /\ o2i' \in Seq(OutMessages)
  BY <1>1, <1>3, Taken
<1>5. Head(o2i) \in Reported <=> Head(o2i) \notin Direct
  BY <1>4 DEF OutMessages, Reported, Direct
<1>6. /\ Head(o2i) \in Reported => inq' = Append(inq, Head(o2i))
      /\ Head(o2i) \notin Reported => inq' = inq
  BY <1>1, <1>5
<1>7. inq' \in Seq(Reported)
  <2>1. CASE Head(o2i) \in Reported
    <3>1. inq' = Append(inq, Head(o2i))
      BY <1>6, <2>1, Zenon
    <3> QED
      BY <1>3, <2>1, <3>1
  <2>2. CASE Head(o2i) \notin Reported
    BY <1>3, <1>6, <2>2
  <2> QED
    BY <2>1, <2>2
<1>8. writeq' \in Seq(WriterMessages)
  <2>1. "close" \in WriterMessages
    BY DEF WriterMessages
  <2> QED
    BY <1>1, <1>3, <2>1, Appended
<1>9. credit' \in 0 .. 1 /\ (credit = 0 => credit' = 0)
  <2>1. credit' = credit \/ (credit > 0 /\ credit' = credit - 1)
    BY <1>1, Zenon
  <2> QED
    BY <1>3, <2>1
<1>10. Base'
  BY <1>1, <1>4, <1>7, <1>8, <1>9 DEF Base, TypeOK
<1>11. Asked'
  <2>1. writeq' \in Seq(Service)
    <3>1. writeq \in Seq(Service) /\ "close" \in Service
      BY <1>2 DEF Asked, Service
    <3> QED
      BY <1>1, <3>1, Appended
  <2>2. status = "Connecting" => writeq' \in Seq(Failure)
    <3>1. status = "Connecting" => writeq \in Seq(Failure)
      BY <1>2 DEF Asked
    <3>2. "close" \in Failure
      BY DEF Failure
    <3> QED
      BY <1>1, <3>1, <3>2, Appended
  <2> QED
    BY <1>1, <1>2, <1>9, <2>1, <2>2, PlanKept DEF Asked
<1>12. ASSUME plan.cmd = "connect" PROVE Reports' /\ OneReport'
  <2>1. Reports /\ OneReport
    BY <1>2, <1>12 DEF Told
  <2> QED
    BY <1>1, <1>3, <1>6, <2>1, ReportsMoved
<1>13. ASSUME plan.cmd = "udp" PROVE TwoReports'
  <2>1. TwoReports
    BY <1>2, <1>13 DEF Told
  <2>2. /\ inq \in Seq(Result) /\ o2i \in Seq(ResultOrEnd) /\ Len(inq) \in Nat
        /\ answers + Len(inq) + Conn(o2i) + Coming <= 2
    BY <2>1, LenProperties DEF TwoReports
  <2>3. /\ Head(o2i) \in ResultOrEnd /\ o2i' \in Seq(ResultOrEnd)
        /\ Conn(o2i) \in Nat /\ Conn(o2i') \in Nat /\ Conn(o2i') <= Conn(o2i)
        /\ Head(o2i) # "closed" => Conn(o2i') = Conn(o2i) - 1
    BY <1>1, <2>2, Taken, ConnTaken
  <2>4. outlet' # "gone" => o2i' \in Seq(Result)
    BY <1>1, <2>1, Taken DEF TwoReports
  <2>5. Coming' = Coming /\ Coming \in Nat /\ Conn(o2i)' = Conn(o2i')
    BY <1>1 DEF Coming, Conn
  <2>6. answers' = answers /\ answers \in Nat
    BY <1>1, Lengths DEF Base, TypeOK
  <2>7. CASE Head(o2i) = "closed"
    <3>1. inq' = inq
      BY <1>6, <2>7 DEF Reported
    <3> QED
      BY <2>2, <2>3, <2>4, <2>5, <2>6, <3>1 DEF TwoReports
  <2>8. CASE Head(o2i) # "closed"
    <3>1. Head(o2i) \in Result /\ Head(o2i) \in Reported
      BY <2>3, <2>8 DEF Result, ResultOrEnd, Reported
    <3>2. inq' \in Seq(Result) /\ Len(inq') = Len(inq) + 1
      BY <1>6, <2>2, <3>1, Appended
    <3>3. answers' + Len(inq') + Conn(o2i') + Coming' <= 2
      BY <2>2, <2>3, <2>5, <2>6, <2>8, <3>2
    <3> QED
      BY <2>3, <2>4, <2>5, <3>2, <3>3 DEF TwoReports
  <2> QED
    BY <2>7, <2>8
<1> QED
  BY <1>1, <1>2, <1>10, <1>11, <1>12, <1>13 DEF Phase, Told, Running

LEMMA UnknownSessionKeeps ==
  ASSUME ConstantsOK, Base, Phase, Told, UnknownSession
  PROVE  Base' /\ Phase' /\ Told'
<1>1. /\ UNCHANGED <<plan, stage, left, sent, frame, lock, status, buffer, credit, writeq, inq,
                    life, up, outlet, answers, lost>>
      /\ o2i # <<>> /\ life # "open" /\ o2i' = Tail(o2i)
  BY DEF UnknownSession, client, context
<1>2. status \in Running /\ Asked /\ outlet # "asked"
  <2>1. status \in Running /\ Asked
    BY <1>1, IsAsked
  <2> QED
    BY <1>1, <2>1 DEF Asked
<1>3. o2i \in Seq(OutMessages) /\ o2i' \in Seq(OutMessages)
  BY <1>1, Taken DEF Base
<1>4. Base'
  BY <1>1, <1>3 DEF Base, TypeOK
<1>5. Asked'
  BY <1>1, <1>2, PlanKept DEF Asked
<1>6. ASSUME plan.cmd = "connect" PROVE Reports' /\ OneReport'
  <2>1. Reports /\ OneReport
    BY <1>2, <1>6 DEF Told
  <2>2. /\ DOMAIN o2i = 1 .. Len(o2i) /\ DOMAIN o2i' = 1 .. Len(o2i) - 1 /\ Len(o2i) \in Nat
        /\ \A i \in 1 .. Len(o2i) - 1 : o2i'[i] = o2i[i + 1]
    BY <1>1, <1>3, Taken
  <2>3. ASSUME NEW i \in DOMAIN o2i' PROVE o2i'[i] # "refused"
    <3>1. i + 1 \in DOMAIN o2i /\ o2i[i + 1] = o2i'[i] /\ i + 1 # 1
      BY <2>2
    <3> QED
      BY <2>1, <3>1 DEF Reports
  <2>4. ~ Has(o2i', "refused")
    BY <2>3 DEF Has
  <2>5. Reports'
    BY <1>1, <2>1, <2>3, <2>4, Zenon DEF Reports, Has
  <2>6. o2i \in Seq({"refused"}) => o2i' \in Seq({"refused"})
    BY <1>1, Taken
  <2>7. OneReport'
    BY <1>1, <2>1, <2>4, <2>6, Zenon DEF OneReport, Has
  <2> QED
    BY <2>5, <2>7
<1>7. ASSUME plan.cmd = "udp" PROVE TwoReports'
  <2>1. TwoReports
    BY <1>2, <1>7 DEF Told
  <2>2. /\ o2i' \in Seq(ResultOrEnd) /\ Conn(o2i) \in Nat /\ Conn(o2i') \in Nat
        /\ Conn(o2i') <= Conn(o2i)
    BY <1>1, <2>1, Taken, ConnTaken DEF TwoReports
  <2>3. outlet' # "gone" => o2i' \in Seq(Result)
    BY <1>1, <2>1, Taken DEF TwoReports
  <2>4. Coming' = Coming /\ Coming \in Nat /\ Conn(o2i)' = Conn(o2i')
    BY <1>1 DEF Coming, Conn
  <2>5. answers \in Nat /\ Len(inq) \in Nat
    BY <2>1, Lengths, LenProperties DEF Base, TypeOK, TwoReports
  <2>6. answers + Len(inq) + Conn(o2i') + Coming <= 2
    BY <2>1, <2>2, <2>4, <2>5 DEF TwoReports
  <2> QED
    BY <1>1, <2>1, <2>2, <2>3, <2>4, <2>6 DEF TwoReports
<1> QED
  BY <1>1, <1>2, <1>4, <1>5, <1>6, <1>7 DEF Phase, Told, Running

LEMMA OnSessionCloseKeeps ==
  ASSUME ConstantsOK, Base, Phase, Told, OnSessionClose
  PROVE  Base' /\ Phase' /\ Told'
<1>1. /\ UNCHANGED <<plan, stage, left, sent, frame, lock, status, buffer, credit, up, o2i,
                    outlet, answers, lost>>
      /\ life' = "ended" /\ inq' = <<>> /\ writeq' = <<>>
  BY DEF OnSessionClose, client, context
<1>2. \A S : <<>> \in Seq(S)
  BY EmptyIn
<1>3. Base'
  BY <1>1, <1>2 DEF Base, TypeOK, Lives
<1>4. Phase'
  <2>1. CASE status = "Init"
    BY <1>1, <1>2, <2>1, PlanKept DEF Phase, Greeting, Quiet, Running
  <2>2. CASE status = "Verification"
    BY <1>1, <1>2, <2>2, PlanKept DEF Phase, Verifying, Quiet, Running
  <2>3. CASE status = "Connect"
    BY <1>1, <1>2, <2>3, PlanKept DEF Phase, Requesting, Quiet, Running
  <2>4. CASE status \in Running
    <3>1. Asked'
      BY <1>1, <1>2, <2>4, PlanKept DEF Phase, Asked
    <3> QED
      BY <1>1, <2>4, <3>1 DEF Phase, Running
  <2> QED
    BY <2>1, <2>2, <2>3, <2>4 DEF Base, TypeOK, Statuses, Running
<1>5. Reports /\ OneReport => Reports' /\ OneReport'
  <2>1. ~ Has(inq', "refused") /\ \A i \in DOMAIN inq' : FALSE
    BY <1>1, EmptyIn DEF Has
  <2>2. life' # "open"
    BY <1>1
  <2>3. Reports => Reports'
    BY <1>1, <2>1, <2>2, Zenon DEF Reports, Has
  <2>4. OneReport => OneReport'
    BY <1>1, <1>2, <2>1, Zenon DEF OneReport, Has
  <2> QED
    BY <2>3, <2>4
<1>6. TwoReports => TwoReports'
  <2> SUFFICES ASSUME TwoReports PROVE TwoReports'
    OBVIOUS
  <2>1. Coming' = Coming /\ Coming \in Nat /\ Conn(o2i)' = Conn(o2i) /\ Len(inq') = 0
    BY <1>1, EmptyIn DEF Coming, Conn
  <2>2. answers \in Nat /\ Len(inq) \in Nat /\ Conn(o2i) \in Nat
    <3>1. CASE o2i = <<>>
      BY <3>1, Lengths, LenProperties, ConnValue, EmptyIn DEF Base, TypeOK, TwoReports
    <3>2. CASE o2i # <<>>
      BY <3>2, Lengths, LenProperties, ConnTaken DEF Base, TypeOK, TwoReports
    <3> QED
      BY <3>1, <3>2
  <2>3. answers + Len(inq') + Conn(o2i) + Coming <= 2
    BY <2>1, <2>2 DEF TwoReports
  <2> QED
    BY <1>1, <1>2, <2>1, <2>3 DEF TwoReports
<1>7. Told'
  BY <1>1, <1>5, <1>6 DEF Told, Running
<1> QED
  BY <1>3, <1>4, <1>7

-----------------------------------------------------------------------------
(* The read_input task.                                                    *)
LEMMA Shifted ==
  ASSUME inq # <<>>, inq \in Seq(Reported), inq' = Tail(inq)
  PROVE  /\ inq' \in Seq(Reported) /\ Head(inq) \in Reported /\ 1 \in DOMAIN inq
         /\ Head(inq) = inq[1]
         /\ \A i \in DOMAIN inq' : i + 1 \in DOMAIN inq /\ inq'[i] = inq[i + 1] /\ i + 1 # 1
                                   /\ i \in Nat /\ i >= 1
         /\ \A i \in DOMAIN inq : i # 1 => i - 1 \in DOMAIN inq' /\ inq'[i - 1] = inq[i]
         /\ \A x : Has(inq, x) <=> Head(inq) = x \/ Has(inq', x)
<1>1. /\ inq' \in Seq(Reported) /\ Head(inq) \in Reported /\ Head(inq) = inq[1]
      /\ Len(inq) \in Nat /\ Len(inq) >= 1
      /\ DOMAIN inq = 1 .. Len(inq) /\ DOMAIN inq' = 1 .. Len(inq) - 1
      /\ \A i \in 1 .. Len(inq) - 1 : inq'[i] = inq[i + 1]
  BY Taken
<1>2. \A x : Has(inq, x) <=> Head(inq) = x \/ Has(inq', x)
  BY HasTaken
<1>3. ASSUME NEW i \in DOMAIN inq'
      PROVE  i + 1 \in DOMAIN inq /\ inq'[i] = inq[i + 1] /\ i + 1 # 1 /\ i \in Nat /\ i >= 1
  BY <1>1
<1>4. ASSUME NEW i \in DOMAIN inq, i # 1
      PROVE  i - 1 \in DOMAIN inq' /\ inq'[i - 1] = inq[i]
  <2>1. i - 1 \in 1 .. Len(inq) - 1 /\ (i - 1) + 1 = i
    BY <1>1, <1>4
  <2> QED
    BY <1>1, <2>1
<1> QED
  BY <1>1, <1>2, <1>3, <1>4

(* After the report that lets data through nothing else can go wrong.      *)
LEMMA ReportsRunning ==
  ASSUME Reports, OneReport, inq \in Seq(Reported), inq # <<>>, inq' = Tail(inq),
         UNCHANGED <<o2i, outlet, life>>, status' = "RunWithTcp",
         \/ status = "RunWithTcp" /\ answers' = answers
         \/ status = "Connecting" /\ answers' = answers + 1 /\ Head(inq) = "connected",
         answers \in Nat
  PROVE  Reports' /\ OneReport'
<1>1. UNCHANGED <<o2i, outlet, life>>
  OBVIOUS
<1>2. ASSUME NEW i \in DOMAIN inq' PROVE inq'[i] # "refused"
  <2>1. i + 1 \in DOMAIN inq /\ inq'[i] = inq[i + 1] /\ i + 1 # 1
    BY Shifted
  <2> QED
    BY <2>1 DEF Reports
<1>3. ASSUME NEW i \in DOMAIN o2i' PROVE o2i'[i] # "refused"
  BY <1>1 DEF Reports
<1>4. answers' <= 2 /\ (~ Slow => answers' <= 1)
  <2>1. CASE status = "RunWithTcp"
    BY <2>1 DEF Reports, OneReport
  <2>2. CASE status = "Connecting"
    <3>1. answers <= 1 /\ answers' = answers + 1 /\ Head(inq) = "connected"
      BY <2>2 DEF Reports
    <3>2. ~ Slow => answers = 0
      <4>1. inq \notin Seq({"refused"})
        BY <3>1, Taken
      <4> QED
        BY <2>2, <4>1 DEF OneReport
    <3> QED
      BY <3>1, <3>2
  <2> QED
    BY <2>1, <2>2
<1>5. status' = "RunWithTcp" /\ status' # "Connecting"
  OBVIOUS
<1>6. answers' <= IF status' = "Connecting" THEN 1 ELSE 2
  BY <1>4, <1>5
<1>7. Reports'
  BY <1>2, <1>3, <1>5, <1>6, Zenon DEF Reports
<1>8. OneReport'
  BY <1>4, <1>5, Zenon DEF OneReport
<1> QED
  BY <1>7, <1>8

(* The refusal.                                                            *)
LEMMA ReportsFailed ==
  ASSUME Reports, OneReport, inq \in Seq(Reported), inq # <<>>, inq' = Tail(inq),
         UNCHANGED <<o2i, outlet, life, status>>, status = "Connecting",
         answers' = answers + 1, Head(inq) = "refused"
  PROVE  Reports' /\ OneReport'
<1>1. UNCHANGED <<o2i, outlet, life, status>>
  OBVIOUS
<1>2. answers = 0 /\ answers' = 1 /\ ~ Has(o2i, "refused")
  BY Shifted DEF Reports
<1>3. Has(inq, "connected") => Has(inq', "connected")
  BY Shifted
<1>4. ASSUME NEW i \in DOMAIN inq' PROVE inq'[i] # "refused"
  <2>1. i + 1 \in DOMAIN inq /\ inq'[i] = inq[i + 1] /\ i + 1 # 1
    BY Shifted
  <2> QED
    BY <2>1 DEF Reports
<1>5. ASSUME NEW i \in DOMAIN inq', inq'[i] = "data"
      PROVE  \E j \in 1 .. i - 1 : inq'[j] = "connected"
  <2>1. i + 1 \in DOMAIN inq /\ inq[i + 1] = "data" /\ i \in Nat
    BY <1>5, Shifted
  <2>2. PICK j \in 1 .. (i + 1) - 1 : inq[j] = "connected"
    BY <2>1 DEF Reports
  <2>3. j # 1
    BY <2>2, Shifted
  <2>4. j \in DOMAIN inq
    <3>1. DOMAIN inq = 1 .. Len(inq) /\ Len(inq) \in Nat
      BY LenProperties
    <3> QED
      BY <2>1, <3>1
  <2>5. inq'[j - 1] = "connected"
    BY <2>2, <2>3, <2>4, Shifted
  <2>6. j - 1 \in 1 .. i - 1
    BY <2>1, <2>3
  <2> QED
    BY <2>5, <2>6
<1>6. ASSUME NEW i \in DOMAIN o2i' PROVE o2i'[i] # "refused"
  BY <1>1, <1>2 DEF Has
<1>7. answers' <= IF status' = "Connecting" THEN 1 ELSE 2
  BY <1>1, <1>2
<1>8. Has(o2i', "connected") = Has(o2i, "connected")
  BY <1>1
<1>9. Reports'
  BY <1>1, <1>3, <1>4, <1>5, <1>6, <1>7, <1>8, Zenon DEF Reports, Has
<1>10. OneReport'
  <2> SUFFICES ASSUME ~ Slow PROVE OneReport'
    BY DEF OneReport
  <2>1. Has(inq, "refused")
    BY Shifted
  <2>2. outlet = "gone" /\ inq \in Seq({"refused"}) /\ o2i \in Seq({"refused"})
    BY <2>1 DEF OneReport
  <2>3. inq' \in Seq({"refused"})
    BY <2>2, Taken
  <2>4. answers' <= 1
    BY <1>2
  <2> QED
    BY <1>1, <2>2, <2>3, <2>4, Zenon DEF OneReport
<1> QED
  BY <1>9, <1>10

(* What an O2iConnect comes to.                                            *)
LEMMA ConnectOutcome ==
  ASSUME OnRecvProxyMessage, Head(inq) \in {"connected", "refused"}
  PROVE  /\ lost' = lost
         /\ \/ status # "Connecting" /\ UNCHANGED <<status, writeq, answers>>
            \/ /\ status = "Connecting" /\ answers' = answers + 1
               /\ \/ /\ Head(inq) = "connected" /\ writeq' = Append(writeq, "granted")
                     /\ status' = Granted
                  \/ /\ Head(inq) = "refused" \/ plan.cmd = "udp"
                     /\ writeq' = Append(writeq, "failed") /\ status' = status
<1>1. PICK success \in BOOLEAN, bound \in BOOLEAN :
        /\ OnO2iConnect(success, bound)
        /\ success => Head(inq) = "connected"
        /\ ~ success => Head(inq) = "refused" /\ bound
  <2>1. CASE Head(inq) = "connected"
    <3>1. \E bound \in BOOLEAN : OnO2iConnect(TRUE, bound)
      BY <2>1 DEF OnRecvProxyMessage
    <3> QED
      BY <2>1, <3>1
  <2>2. CASE Head(inq) = "refused"
    <3>1. OnO2iConnect(FALSE, TRUE)
      BY <2>2 DEF OnRecvProxyMessage
    <3> QED
      BY <2>2, <3>1
  <2> QED
    BY <2>1, <2>2
<1>2. lost' = lost /\ ((success /\ plan.cmd = "udp") \/ bound)
  BY <1>1, Zenon DEF OnO2iConnect
<1>3. CASE status # "Connecting"
  BY <1>1, <1>2, <1>3, Zenon DEF OnO2iConnect, Awaits
<1>4. CASE status = "Connecting"
  <2>1. CASE success /\ bound
    <3>1. writeq' = Append(writeq, "granted") /\ status' = Granted /\ answers' = answers + 1
      BY <1>1, <1>4, <2>1 DEF OnO2iConnect, Awaits
    <3> QED
      BY <1>1, <1>2, <1>4, <2>1, <3>1
  <2>2. CASE ~ (success /\ bound)
    <3>1. writeq' = Append(writeq, "failed") /\ status' = status /\ answers' = answers + 1
      BY <1>1, <1>4, <2>2 DEF OnO2iConnect, Awaits
    <3> QED
      BY <1>1, <1>2, <1>4, <2>2, <3>1
  <2> QED
    BY <2>1, <2>2
<1> QED
  BY <1>3, <1>4

LEMMA OnRecvProxyMessageKeeps ==
  ASSUME ConstantsOK, Base, Phase, Told, OnRecvProxyMessage
  PROVE  Base' /\ Phase' /\ Told'
<1>1. /\ UNCHANGED <<plan, stage, left, sent, frame, lock, buffer, credit, life, up, o2i, outlet>>
      /\ inq # <<>> /\ inq' = Tail(inq)
  BY DEF OnRecvProxyMessage, client
<1>2. status \in Running /\ Asked /\ outlet # "asked" /\ outlet # "idle"
  <2>1. status \in Running /\ Asked
    BY <1>1, IsAsked
  <2> QED
    BY <1>1, <2>1 DEF Asked
<1>3. /\ inq \in Seq(Reported) /\ writeq \in Seq(WriterMessages) /\ writeq \in Seq(Service)
      /\ answers \in Nat /\ plan.cmd \in {"connect", "udp"}
      /\ status = "Connecting" => writeq \in Seq(Failure)
  BY <1>2, Lengths DEF Base, TypeOK, Asked
<1>4. inq' \in Seq(Reported) /\ Head(inq) \in Reported /\ Head(inq) = inq[1] /\ 1 \in DOMAIN inq
  BY <1>1, <1>3, Shifted
<1>5. /\ plan.cmd = "connect" => Reports /\ OneReport
      /\ plan.cmd = "udp" => TwoReports /\ inq' \in Seq(Result) /\ Head(inq) \in Result
                             /\ Len(inq') = Len(inq) - 1 /\ Len(inq) \in Nat
  <2>1. plan.cmd = "udp" => TwoReports /\ inq \in Seq(Result)
    BY <1>2 DEF Told, TwoReports
  <2> QED
    BY <1>1, <1>2, <2>1, Taken DEF Told
<1>6. status = "Connecting" => lock = "free" /\ credit = 0 /\ up = 0 /\ frame = 0 /\ stage # "run"
  BY <1>2 DEF Asked
(* In every case the status and the queue to the client stay within what   *)
(* the phase allows, and the reports are what they were less the first.    *)
<1>7. ASSUME ~ lost', status' \in Running, writeq' \in Seq(Service),
             status' = "Connecting" => status = "Connecting" /\ writeq' \in Seq(Failure),
             status' = "RunWithTcp" => plan.cmd = "connect",
             status' = "RunWithUdp" => plan.cmd = "udp",
             status = "RunWithTcp" => status' = "RunWithTcp",
             answers' \in 0 .. RequestLen,
             plan.cmd = "connect" => Reports' /\ OneReport',
             plan.cmd = "udp" => answers' + Len(inq') <= answers + Len(inq)
      PROVE  Base' /\ Phase' /\ Told'
  <2>1. writeq' \in Seq(WriterMessages)
    BY <1>7, Kinds, SeqWider
  <2>2. status' \in Statuses
    BY <1>7 DEF Running, Statuses
  <2>3. Base'
    BY <1>1, <1>4, <1>7, <2>1, <2>2 DEF Base, TypeOK
  <2>4. Asked'
    <3>1. status' = "RunWithUdp" => up' = 0
      BY <1>1, <1>2, <1>6, <1>7 DEF Asked, Running
    <3>2. status' = "Connecting" => lock' = "free" /\ credit' = 0 /\ up' = 0 /\ frame' = 0
                                    /\ stage' # "run"
      BY <1>1, <1>6, <1>7
    <3>3. lock' = "frame" => frame' = 1 /\ status' = "RunWithTcp"
      BY <1>1, <1>2, <1>7 DEF Asked
    <3> QED
      BY <1>1, <1>2, <1>7, <3>1, <3>2, <3>3, PlanKept DEF Asked
  <2>5. plan.cmd = "udp" => TwoReports'
    <3> SUFFICES ASSUME plan.cmd = "udp" PROVE TwoReports'
      OBVIOUS
    <3>1. Coming' = Coming /\ Coming \in Nat /\ Conn(o2i)' = Conn(o2i)
      BY <1>1 DEF Coming, Conn
    <3>2. Conn(o2i) \in Nat
      <4>1. CASE o2i = <<>>
        BY <4>1, ConnValue, EmptyIn
      <4>2. CASE o2i # <<>>
        BY <4>2, ConnTaken DEF Base
      <4> QED
        BY <4>1, <4>2
    <3>3. answers + Len(inq) + Conn(o2i) + Coming <= 2
      BY <1>5 DEF TwoReports
    <3>4. answers' \in Nat /\ Len(inq') \in Nat
      BY <1>5, <1>7, Lengths, LenProperties
    <3>5. answers' + Len(inq') + Conn(o2i) + Coming <= 2
      BY <1>3, <1>5, <1>7, <3>1, <3>2, <3>3, <3>4
    <3> QED
      BY <1>1, <1>5, <3>1, <3>5 DEF TwoReports
  <2>6. Told'
    BY <1>1, <1>7, <2>5 DEF Told
  <2> QED
    BY <1>7, <2>3, <2>4, <2>6 DEF Phase, Running
<1>8. CASE Head(inq) = "data"
  <2>1. plan.cmd = "connect" /\ status = "RunWithTcp"
    <3>1. plan.cmd = "connect"
      BY <1>3, <1>5, <1>8 DEF Result
    <3>2. ~ \E j \in 1 .. 1 - 1 : inq[j] = "connected"
      OBVIOUS
    <3> QED
      BY <1>4, <1>5, <1>8, <3>1, <3>2 DEF Reports
  <2>2. OnO2iRecvData
    BY <1>8 DEF OnRecvProxyMessage
  <2>3. writeq' = Append(writeq, "data") /\ ~ lost' /\ UNCHANGED <<status, answers>>
    BY <2>1, <2>2 DEF OnO2iRecvData, Base
  <2>4. writeq' \in Seq(Service)
    BY <1>3, <2>3, Appended DEF Service
  <2>5. Reports' /\ OneReport'
    BY <1>1, <1>3, <1>5, <2>1, <2>3, ReportsRunning
  <2>6. answers' \in 0 .. RequestLen
    BY <2>3 DEF Base, TypeOK
  <2> QED
    BY <1>2, <1>7, <2>1, <2>3, <2>4, <2>5, <2>6
<1>9. CASE Head(inq) \in {"connected", "refused"}
  <2>1. ~ lost'
    BY <1>9, ConnectOutcome DEF Base
  <2>2. CASE status # "Connecting"
    <3>1. UNCHANGED <<status, writeq, answers>>
      BY <1>9, <2>2, ConnectOutcome
    <3>2. plan.cmd = "connect" => status = "RunWithTcp"
      BY <1>2, <2>2 DEF Running, Asked
    <3>3. plan.cmd = "connect" => Reports' /\ OneReport'
      BY <1>1, <1>3, <1>5, <3>1, <3>2, ReportsRunning
    <3>4. answers' \in 0 .. RequestLen
      BY <3>1 DEF Base, TypeOK
    <3>5. plan.cmd = "udp" => answers' + Len(inq') <= answers + Len(inq)
      BY <1>3, <1>5, <3>1
    <3>6. /\ status' = "RunWithTcp" => plan.cmd = "connect"
          /\ status' = "RunWithUdp" => plan.cmd = "udp"
      BY <1>2, <3>1 DEF Asked
    <3> QED
      BY <1>2, <1>3, <1>7, <2>1, <2>2, <3>1, <3>3, <3>4, <3>5, <3>6
  <2>3. CASE status = "Connecting"
    <3>1. answers' = answers + 1
      BY <1>9, <2>3, ConnectOutcome
    <3>2. answers' \in 0 .. RequestLen
      <4>1. answers <= 1
        <5>1. CASE plan.cmd = "connect"
          BY <1>5, <2>3, <5>1 DEF Reports
        <5>2. CASE plan.cmd = "udp"
          <6>1. Coming \in Nat /\ Conn(o2i) \in Nat
            <7>1. CASE o2i = <<>>
              BY <7>1, ConnValue, EmptyIn DEF Coming
            <7>2. CASE o2i # <<>>
              BY <7>2, ConnTaken DEF Base, Coming
            <7> QED
              BY <7>1, <7>2
          <6>2. Len(inq) >= 1
            BY <1>1, <1>3, Taken
          <6> QED
            BY <1>3, <1>5, <5>2, <6>1, <6>2 DEF TwoReports
        <5> QED
          BY <1>3, <5>1, <5>2
      <4> QED
        BY <1>3, <3>1, <4>1, Lengths
    <3>3. plan.cmd = "udp" => answers' + Len(inq') <= answers + Len(inq)
      BY <1>3, <1>5, <3>1
    <3>4. CASE Head(inq) = "connected" /\ writeq' = Append(writeq, "granted") /\ status' = Granted
      <4>1. /\ plan.cmd = "connect" => status' = "RunWithTcp"
            /\ plan.cmd = "udp" => status' = "RunWithUdp"
        BY <3>4 DEF Granted
      <4>2. plan.cmd = "connect" => Reports' /\ OneReport'
        BY <1>1, <1>3, <1>5, <2>3, <3>1, <3>4, <4>1, ReportsRunning
      <4>3. writeq' \in Seq(Service)
        BY <1>3, <3>4, Appended DEF Service
      <4>4. status' \in Running
        BY <1>3, <4>1 DEF Running
      <4> QED
        BY <1>3, <1>7, <2>1, <2>3, <3>2, <3>3, <4>1, <4>2, <4>3, <4>4
    <3>5. CASE /\ Head(inq) = "refused" \/ plan.cmd = "udp"
               /\ writeq' = Append(writeq, "failed") /\ status' = status
      <4>1. plan.cmd = "connect" => Reports' /\ OneReport'
        BY <1>1, <1>3, <1>5, <2>3, <3>1, <3>5, ReportsFailed
      <4>2. writeq' \in Seq(Service) /\ writeq' \in Seq(Failure)
        BY <1>3, <2>3, <3>5, Appended, SMTT(30) DEF Service, Failure
      <4> QED
        BY <1>2, <1>7, <2>1, <2>3, <3>2, <3>3, <3>5, <4>1, <4>2
    <3> QED
      BY <1>9, <2>3, <3>4, <3>5, ConnectOutcome, Zenon
  <2> QED
    BY <2>2, <2>3
<1> QED
  BY <1>4, <1>8, <1>9 DEF Reported

LEMMA LessLeft ==
  ASSUME NEW b \in Nat, NEW f \in Nat, NEW l \in Nat, NEW n \in Nat, b + f + l <= n,
         NEW g \in Nat, NEW k \in Nat, g <= f, k <= l
  PROVE  b + g + k <= n
OBVIOUS

LEMMA PollWriteKeeps ==
  ASSUME ConstantsOK, Base, Phase, Told, PollWrite
  PROVE  Base' /\ Phase' /\ Told'
<1>1. /\ UNCHANGED <<plan, sent, status, buffer, credit, inq, up, o2i, outlet, answers, lost>>
      /\ writeq # <<>> /\ writeq' = Tail(writeq) /\ life = "open"
  BY DEF PollWrite, context
<1>2. \/ /\ Head(writeq) = "close" /\ life' = "closing" /\ frame' = 0 /\ lock' = "free"
         /\ stage' = stage /\ left' = left
      \/ /\ Head(writeq) # "close" /\ UNCHANGED <<life, frame, lock>>
         /\ stage' = Proceed(Head(writeq))
         /\ left' = IF stage' = stage THEN left ELSE Length(stage')
  BY DEF PollWrite
<1>3. /\ left \in Nat /\ frame \in Nat /\ buffer \in Nat /\ answers \in Nat /\ up \in Nat
      /\ left \in 0 .. Longest /\ frame \in 0 .. Longest /\ sent.up \in Nat
      /\ writeq \in Seq(WriterMessages)
  BY Lengths DEF Base, TypeOK, ConstantsOK
<1>4. writeq' \in Seq(WriterMessages)
  BY <1>1, <1>3, Taken
<1>5. \A S : writeq \in Seq(S) => writeq' \in Seq(S) /\ Head(writeq) \in S
  BY <1>1, Taken
<1>6. Told'
  BY <1>1, <1>2, ToldKept
<1>7. ASSUME stage' \in {"greet", "auth", "request", "run", "stop"}, left' \in 0 .. Longest
      PROVE  Base'
  <2>1. life' \in Lives /\ frame' \in 0 .. Longest /\ lock' \in {"free", "frame"}
    BY <1>1, <1>2, <1>3, Lengths DEF Base, TypeOK, Lives
  <2> QED
    BY <1>1, <1>4, <1>7, <2>1, SMTT(30) DEF Base, TypeOK
<1>8. frame' \in Nat /\ frame' <= frame /\ (lock' = "free" \/ (lock' = lock /\ frame' = frame))
  BY <1>2, <1>3
(* A refusal, or the end of the connection, leaves no more to send.        *)
<1>9. ASSUME Head(writeq) \in {"refused", "unsupported", "failed", "close"}
      PROVE  /\ stage' \in {stage, "stop"} /\ left' \in Nat /\ left' <= left
             /\ left' \in 0 .. Longest
  <2>1. Head(writeq) # "close" => Proceed(Head(writeq)) = "stop"
    BY <1>9 DEF Proceed
  <2>2. stage' \in {stage, "stop"} /\ (left' = left \/ left' = 0)
    BY <1>2, <2>1, Lengths
  <2> QED
    BY <1>3, <2>2, Lengths
<1>10. CASE status = "Init"
  <2>1. Greeting
    BY <1>10 DEF Phase
  <2>2. writeq' \in Seq(Denial) /\ Head(writeq) \in {"refused", "close"}
    BY <1>5, <2>1 DEF Greeting, Denial
  <2>3. stage' \in {stage, "stop"} /\ left' \in Nat /\ left' <= left /\ left' \in 0 .. Longest
    BY <1>9, <2>2
  <2>4. stage \in {"greet", "stop"} /\ buffer + frame + left <= Length("greet")
        /\ ~ Acceptable /\ Quiet /\ answers = 0
    BY <1>1, <2>1 DEF Greeting
  <2>5. stage' \in {"greet", "stop"}
    BY <2>3, <2>4
  <2>6. buffer + frame' + left' <= Length("greet")
    <3>1. Length("greet") \in Nat
      BY GreetingLength DEF Base, TypeOK
    <3> QED
      BY <1>3, <1>8, <2>3, <2>4, <3>1, LessLeft
  <2>7. Quiet'
    BY <1>1, <1>8, <2>4 DEF Quiet
  <2>8. Greeting'
    BY <1>1, <2>2, <2>4, <2>5, <2>6, <2>7, PlanKept DEF Greeting
  <2>9. Base'
    BY <1>7, <2>3, <2>5
  <2> QED
    BY <1>1, <1>6, <1>10, <2>8, <2>9 DEF Phase, Running
<1>11. CASE status = "Verification"
  <2>1. Verifying /\ Quiet /\ answers = 0
    BY <1>11 DEF Phase, Verifying
  <2>2. Quiet' /\ answers' = 0
    BY <1>1, <1>8, <2>1 DEF Quiet
  <2>3. CASE stage = "greet" /\ left = 0 /\ frame = 0 /\ buffer = 0 /\ writeq = <<"password">>
    <3>1. Head(writeq) = "password" /\ writeq' = <<>>
      BY <1>1, <2>3
    <3>2. Proceed("password") = "auth"
      BY DEF Proceed
    <3>3. stage' = "auth" /\ left' = AuthLen /\ frame' = 0 /\ buffer' = 0
      BY <1>1, <1>2, <2>3, <3>1, <3>2, Lengths
    <3>4. Verifying'
      BY <2>2, <3>1, <3>3, Lengths, EmptyIn DEF Verifying
    <3>5. Base'
      BY <1>7, <3>3, Lengths
    <3> QED
      BY <1>1, <1>6, <1>11, <3>4, <3>5 DEF Phase, Running
  <2>4. CASE /\ stage \in {"auth", "stop"}
             /\ buffer + frame + left <= AuthLen
             /\ writeq \in Seq(Denial) /\ ~ Credentials
    <3>1. writeq' \in Seq(Denial) /\ Head(writeq) \in {"refused", "close"}
      BY <1>5, <2>4 DEF Denial
    <3>2. stage' \in {stage, "stop"} /\ left' \in Nat /\ left' <= left /\ left' \in 0 .. Longest
      BY <1>9, <3>1
    <3>3. stage' \in {"auth", "stop"} /\ buffer' + frame' + left' <= AuthLen
      BY <1>1, <1>3, <1>8, <2>4, <3>2, Lengths
    <3>4. Verifying'
      BY <1>1, <2>2, <2>4, <3>1, <3>3, PlanKept DEF Verifying
    <3>5. Base'
      BY <1>7, <3>2, <3>3
    <3> QED
      BY <1>1, <1>6, <1>11, <3>4, <3>5 DEF Phase, Running
  <2> QED
    BY <1>1, <2>1, <2>3, <2>4 DEF Verifying
<1>12. CASE status = "Connect"
  <2>1. Requesting /\ Quiet /\ Authenticated
    BY <1>12 DEF Phase, Requesting
  <2>2. Quiet' /\ Authenticated' /\ answers' = answers
    BY <1>1, <1>8, <2>1, PlanKept DEF Quiet
  <2>3. CASE /\ stage \in {"greet", "auth"} /\ left = 0 /\ frame = 0 /\ buffer = 0
             /\ writeq \in {<<"none">>, <<"verified">>} /\ answers = 0
    <3>1. Head(writeq) \in {"none", "verified"} /\ writeq' = <<>>
      BY <1>1, <2>3
    <3>2. Proceed("none") = "request" /\ Proceed("verified") = "request"
      BY DEF Proceed
    <3>3. stage' = "request" /\ left' = RequestLen /\ frame' = 0 /\ buffer' = 0 /\ answers' = 0
      BY <1>1, <1>2, <2>3, <3>1, <3>2, Lengths
    <3>4. 4 * answers' + buffer' + frame' + left' <= RequestLen
      BY <3>3, Lengths
    <3>5. Requesting'
      BY <2>2, <3>1, <3>3, <3>4, EmptyIn DEF Requesting
    <3>6. Base'
      BY <1>7, <3>3, Lengths
    <3> QED
      BY <1>1, <1>6, <1>12, <3>5, <3>6 DEF Phase, Running
  <2>4. CASE /\ stage \in {"request", "stop"}
             /\ 4 * answers + buffer + frame + left <= RequestLen
             /\ answers # 0 => 4 * answers + 4 <= RequestLen
             /\ writeq \in Seq(NoSupport) /\ plan.cmd = "bind"
    <3>1. writeq' \in Seq(NoSupport) /\ Head(writeq) \in {"unsupported", "close"}
      BY <1>5, <2>4 DEF NoSupport
    <3>2. stage' \in {stage, "stop"} /\ left' \in Nat /\ left' <= left /\ left' \in 0 .. Longest
      BY <1>9, <3>1
    <3>3. 4 * answers' + buffer' + frame' + left' <= RequestLen
      BY <1>1, <1>3, <1>8, <2>4, <3>2, Lengths
    <3>4. stage' \in {"request", "stop"}
      BY <2>4, <3>2
    <3>5. answers' # 0 => 4 * answers' + 4 <= RequestLen
      BY <1>1, <2>4
    <3>6. Requesting'
      BY <1>1, <2>2, <2>4, <3>1, <3>3, <3>4, <3>5 DEF Requesting
    <3>7. Base'
      BY <1>7, <3>2, <3>4
    <3> QED
      BY <1>1, <1>6, <1>12, <3>6, <3>7 DEF Phase, Running
  <2> QED
    BY <1>1, <2>1, <2>3, <2>4 DEF Requesting
<1>13. CASE status \in Running
  <2>1. Asked
    BY <1>13 DEF Phase
  <2>2. writeq' \in Seq(Service) /\ Head(writeq) \in Service
    BY <1>5, <2>1 DEF Asked
  <2>3. status = "Connecting" => writeq' \in Seq(Failure) /\ Head(writeq) \in Failure
    BY <1>5, <2>1 DEF Asked
  <2>4. stage \in {"request", "run", "stop"} /\ left = 0
    BY <2>1 DEF Asked
  <2>5. /\ stage' \in {"request", "run", "stop"} /\ left' = 0
        /\ Head(writeq) \in Failure => stage' \in {stage, "stop"}
    <3>1. Proceed("granted") = "run" /\ Proceed("failed") = "stop" /\ Proceed("data") = stage
      BY DEF Proceed
    <3>2. CASE Head(writeq) = "granted"
      BY <1>2, <2>4, <3>1, <3>2, Lengths DEF Failure
    <3>3. CASE Head(writeq) = "failed"
      BY <1>2, <2>4, <3>1, <3>3, Lengths
    <3>4. CASE Head(writeq) = "data"
      BY <1>2, <2>4, <3>1, <3>4
    <3>5. CASE Head(writeq) = "close"
      BY <1>2, <2>4, <3>5
    <3> QED
      BY <2>2, <3>2, <3>3, <3>4, <3>5 DEF Service
  <2>6. Base'
    BY <1>7, <2>5, Lengths
  <2>7. outlet # "asked"
    BY <1>1, <2>1 DEF Asked
  <2>8. frame' \in {0, 1} /\ up' + frame' <= sent'.up
    BY <1>1, <1>3, <1>8, <2>1 DEF Asked
  <2>9. lock' = "frame" => frame' = 1 /\ status' = "RunWithTcp"
    BY <1>1, <1>8, <2>1 DEF Asked
  <2>10. status' = "Connecting" => /\ lock' = "free" /\ credit' = 0 /\ up' = 0 /\ frame' = 0
                                   /\ stage' # "run" /\ writeq' \in Seq(Failure)
    BY <1>1, <1>3, <1>8, <2>1, <2>3, <2>5, SMTT(30) DEF Asked
  <2>11. Asked'
    BY <1>1, <2>1, <2>2, <2>5, <2>7, <2>8, <2>9, <2>10, PlanKept DEF Asked
  <2> QED
    BY <1>1, <1>6, <1>13, <2>6, <2>11 DEF Phase, Running
<1> QED
  BY <1>10, <1>11, <1>12, <1>13 DEF Base, TypeOK, Statuses, Running

(* What the outlet says leaves the inlet as it is: only the reports and    *)
(* the outlet's own state have moved.                                      *)
LEMMA SaysKeeps ==
  ASSUME ConstantsOK, Base, Phase, status \in Running, NEW m \in OutMessages, Says(m),
         UNCHANGED <<plan, stage, left, frame, lock, context, writeq, inq, life, answers, lost>>,
         sent' \in [up : 0 .. MaxUp, down : 0 .. MaxDown], sent'.up = sent.up,
         up' \in 0 .. up, outlet' \in {"opening", "open", "late", "gone"},
         outlet' = "late" => Slow,
         plan.cmd = "connect" => Reports' /\ OneReport',
         plan.cmd = "udp" => TwoReports'
  PROVE  Base' /\ Phase' /\ Told'
<1>1. /\ UNCHANGED <<plan, stage, left, frame, lock, status, buffer, credit, writeq, inq, life,
                    answers, lost>>
      /\ o2i' = Append(o2i, m)
  BY DEF context, Says
<1>2. up \in Nat /\ up \in 0 .. MaxUp /\ MaxUp \in Nat /\ frame \in Nat /\ sent.up \in Nat
  BY Lengths DEF Base, TypeOK, ConstantsOK
<1>3. up' \in Nat /\ up' <= up /\ up' \in 0 .. MaxUp
  BY <1>2
<1>4. o2i' \in Seq(OutMessages)
  BY <1>1, Appended DEF Base
<1>5. Base'
  BY <1>1, <1>3, <1>4 DEF Base, TypeOK
<1>6. Asked
  BY DEF Phase
<1>7. /\ up' + frame <= sent'.up
      /\ status = "RunWithUdp" => up' = 0
      /\ status = "Connecting" => up' = 0
  BY <1>2, <1>3, <1>6 DEF Asked
<1>8. Asked'
  BY <1>1, <1>6, <1>7, PlanKept DEF Asked
<1>9. Told'
  BY <1>1 DEF Told
<1> QED
  BY <1>1, <1>5, <1>8, <1>9 DEF Phase, Running

(* What the outlet says of a UDP request.                                  *)
LEMMA TwoSaid ==
  ASSUME TwoReports, NEW m \in ResultOrEnd, Says(m), UNCHANGED <<inq, answers>>,
         outlet # "gone", answers \in Nat,
         \/ m \in Result /\ Coming' + 1 <= Coming
         \/ m = "closed" /\ outlet' = "gone"
  PROVE  TwoReports'
<1>1. o2i' = Append(o2i, m) /\ inq' = inq /\ answers' = answers
  BY DEF Says
<1>2. /\ o2i \in Seq(Result) /\ inq \in Seq(Result) /\ o2i \in Seq(ResultOrEnd)
      /\ answers + Len(inq) + Conn(o2i) + Coming <= 2
  BY DEF TwoReports
<1>3. Len(o2i) \in Nat /\ Conn(o2i) = Len(o2i) /\ Len(inq) \in Nat
      /\ (m = "closed" => Conn(o2i)' = Len(o2i))
      /\ (m \in Result => Conn(o2i)' = Len(o2i) + 1)
  <2>1. Conn(o2i)' = Conn(Append(o2i, m))
    BY <1>1 DEF Conn
  <2> QED
    BY <1>2, <2>1, ConnAppended, LenProperties
<1>4. Coming \in Nat /\ Coming' \in Nat /\ (outlet' = "gone" => Coming' = 0)
  BY DEF Coming
<1>5. Conn(o2i)' + Coming' <= Conn(o2i) + Coming /\ Conn(o2i)' \in Nat
  <2>1. CASE m \in Result /\ Coming' + 1 <= Coming
    <3> DEFINE n == Len(o2i)
               c == Coming
               d == Coming'
    <3>1. Conn(o2i)' = n + 1 /\ n \in Nat /\ c \in Nat /\ d \in Nat /\ d + 1 <= c /\ Conn(o2i) = n
      BY <1>3, <1>4, <2>1
    <3> HIDE DEF n, c, d
    <3>2. (n + 1) + d <= n + c /\ n + 1 \in Nat
      BY <3>1
    <3> QED
      BY <3>1, <3>2 DEF c, d
  <2>2. CASE m = "closed" /\ outlet' = "gone"
    <3>1. Conn(o2i)' = Len(o2i) /\ Coming' = 0
      BY <1>3, <1>4, <2>2
    <3> QED
      BY <1>3, <1>4, <3>1
  <2> QED
    BY <2>1, <2>2
<1>6. answers + Len(inq) + Conn(o2i)' + Coming' <= 2
  BY <1>2, <1>3, <1>4, <1>5
<1>7. o2i' \in Seq(ResultOrEnd) /\ (m \in Result => o2i' \in Seq(Result))
  BY <1>1, <1>2, Appended
<1> QED
  BY <1>1, <1>2, <1>6, <1>7 DEF TwoReports

LEMMA ComingValue ==
  /\ outlet = "asked" => Coming = 2
  /\ outlet \in {"opening", "late"} => Coming = 1
  /\ outlet \in {"open", "gone"} => Coming = 0
  /\ outlet' = "opening" => Coming' = 1
  /\ outlet' = "late" => Coming' = 1
  /\ outlet' \in {"open", "gone"} => Coming' = 0
BY DEF Coming

LEMMA Sent ==
  ASSUME Base, ConstantsOK
  PROVE  sent \in [up : 0 .. MaxUp, down : 0 .. MaxDown] /\ up \in 0 .. up /\ answers \in Nat
         /\ o2i \in Seq(OutMessages) /\ inq \in Seq(Reported)
BY Lengths DEF Base, TypeOK, ConstantsOK

(* The outlet has been asked and has said nothing yet.                     *)
LEMMA Unanswered ==
  ASSUME Base, Phase, Told, ConstantsOK, outlet = "asked"
  PROVE  /\ status = "Connecting" /\ answers = 0 /\ inq = <<>> /\ o2i = <<>>
         /\ status \in Running /\ plan.cmd \in {"connect", "udp"}
         /\ plan.cmd = "connect" => Reports /\ OneReport
         /\ plan.cmd = "udp" => TwoReports
         /\ \A x : ~ Has(inq, x) /\ ~ Has(o2i, x)
<1>1. status \in Running /\ Asked
  BY IsAsked
<1> QED
  BY <1>1, EmptyIn DEF Asked, Told, Has

LEMMA OpensKeeps ==
  ASSUME ConstantsOK, Base, Phase, Told, Opens
  PROVE  Base' /\ Phase' /\ Told'
<1>1. /\ UNCHANGED <<plan, stage, left, sent, frame, lock, context, status, writeq, inq, life, answers,
                    lost>>
      /\ outlet = "asked" /\ outlet' = "opening" /\ up' = up /\ Says("connected")
  BY DEF Opens, client, context
<1>2. plan.cmd = "connect" => Reports' /\ OneReport'
  BY <1>1, Unanswered, Sent, ReportsSaid DEF Says, OutMessages
<1>3. plan.cmd = "udp" => TwoReports'
  BY <1>1, Unanswered, Sent, TwoSaid, ComingValue, SMTT(30) DEF Result, ResultOrEnd
<1> QED
  BY <1>1, <1>2, <1>3, Unanswered, Sent, SaysKeeps DEF OutMessages

LEMMA ConfirmsKeeps ==
  ASSUME ConstantsOK, Base, Phase, Told, Confirms
  PROVE  Base' /\ Phase' /\ Told'
<1>1. /\ UNCHANGED <<plan, stage, left, sent, frame, lock, context, status, writeq, inq, life, answers,
                    lost>>
      /\ outlet = "opening" /\ outlet' = "open" /\ up' = up /\ Says("connected")
  BY DEF Confirms, client, context
<1>2. status \in Running /\ Asked
  BY <1>1, IsAsked
<1>3. plan.cmd = "connect" => Reports' /\ OneReport'
  BY <1>1, <1>2, Sent, ReportsSaid DEF Says, OutMessages, Told
<1>4. plan.cmd = "udp" => TwoReports'
  BY <1>1, <1>2, Sent, TwoSaid, ComingValue DEF Result, ResultOrEnd, Told
<1> QED
  BY <1>1, <1>2, <1>3, <1>4, Sent, SaysKeeps DEF OutMessages

LEMMA OpensLateKeeps ==
  ASSUME ConstantsOK, Base, Phase, Told, OpensLate
  PROVE  Base' /\ Phase' /\ Told'
<1>1. /\ UNCHANGED <<plan, stage, left, sent, frame, lock, context, status, writeq, inq, life, answers,
                    lost>>
      /\ outlet = "late" /\ outlet' = "open" /\ up' = up /\ Says("connected")
  BY DEF OpensLate, client, context
<1>2. status \in Running /\ Asked
  BY <1>1, IsAsked
<1>3. Slow
  BY <1>1, <1>2 DEF Asked
<1>4. plan.cmd = "connect" => Reports' /\ OneReport'
  BY <1>1, <1>2, <1>3, Sent, ReportsSaid DEF Says, OutMessages, Told
<1>5. plan.cmd = "udp" => TwoReports'
  BY <1>1, <1>2, Sent, TwoSaid, ComingValue DEF Result, ResultOrEnd, Told
<1> QED
  BY <1>1, <1>2, <1>4, <1>5, Sent, SaysKeeps DEF OutMessages

LEMMA EndpointDataKeeps ==
  ASSUME ConstantsOK, Base, Phase, Told, EndpointData
  PROVE  Base' /\ Phase' /\ Told'
<1>1. /\ UNCHANGED <<plan, stage, left, frame, lock, context, status, writeq, inq, life, up,
                    outlet, answers, lost>>
      /\ outlet \in {"opening", "open"} /\ plan.cmd = "connect" /\ sent.down < MaxDown
      /\ sent' = [sent EXCEPT !.down = @ + 1] /\ Says("data")
  BY DEF EndpointData, context
<1>2. sent' \in [up : 0 .. MaxUp, down : 0 .. MaxDown] /\ sent'.up = sent.up
  BY <1>1, Sent, SMTT(30) DEF ConstantsOK
<1>3. status \in Running /\ Asked
  BY <1>1, IsAsked
<1>4. Reports' /\ OneReport'
  BY <1>1, <1>3, Sent, ReportsSaid DEF Says, OutMessages, Told
<1> QED
  BY <1>1, <1>2, <1>3, <1>4, Sent, SaysKeeps DEF OutMessages

LEMMA WritesKeeps ==
  ASSUME ConstantsOK, Base, Phase, Told, Writes
  PROVE  Base' /\ Phase' /\ Told'
<1>1. /\ UNCHANGED <<plan, stage, left, sent, frame, lock, context, status, writeq, inq, life, answers,
                    lost>>
      /\ outlet \in {"opening", "open"} /\ outlet' = outlet /\ up > 0 /\ up' = up - 1
      /\ Says("ack")
  BY DEF Writes, client, context
<1>2. up' \in 0 .. up /\ up # 0 /\ up \in Nat
  BY <1>1, Sent DEF Base, TypeOK, ConstantsOK
<1>3. status \in Running /\ Asked
  BY <1>1, IsAsked
<1>4. plan.cmd = "connect"
  BY <1>2, <1>3 DEF Asked, Running
<1>5. Reports' /\ OneReport'
  BY <1>1, <1>3, <1>4, Sent, ReportsSaid DEF Says, OutMessages, Told
<1> QED
  BY <1>1, <1>2, <1>3, <1>4, <1>5, Sent, SaysKeeps DEF OutMessages

LEMMA ClosesKeeps ==
  ASSUME ConstantsOK, Base, Phase, Told, Closes
  PROVE  Base' /\ Phase' /\ Told'
<1>1. /\ UNCHANGED <<plan, stage, left, sent, frame, lock, context, status, writeq, inq, life, answers,
                    lost>>
      /\ outlet \in {"opening", "open"} /\ outlet' = "gone" /\ up' = 0 /\ Says("closed")
  BY DEF Closes, client, context
<1>2. status \in Running /\ Asked
  BY <1>1, IsAsked
<1>3. plan.cmd = "connect" => Reports' /\ OneReport'
  BY <1>1, <1>2, Sent, ReportsSaid DEF Says, OutMessages, Told
<1>4. plan.cmd = "udp" => TwoReports'
  BY <1>1, <1>2, Sent, TwoSaid DEF ResultOrEnd, Told
<1>5. up' \in 0 .. up
  BY <1>1, Sent
<1> QED
  BY <1>1, <1>2, <1>3, <1>4, <1>5, Sent, SaysKeeps DEF OutMessages

LEMMA RefusesKeeps ==
  ASSUME ConstantsOK, Base, Phase, Told, Refuses
  PROVE  Base' /\ Phase' /\ Told'
<1>1. /\ UNCHANGED <<plan, stage, left, sent, frame, lock, context, status, writeq, inq, life, answers,
                    lost>>
      /\ outlet = "asked" /\ outlet' \in {"gone", "late"} /\ up' = up /\ Says("refused")
      /\ outlet' = "late" => Slow
  BY DEF Refuses, client, context
<1>2. plan.cmd = "connect" => Reports' /\ OneReport'
  <2>1. /\ status' = "Connecting" /\ answers' = 0 /\ inq' = <<>> /\ o2i' = <<"refused">>
        /\ outlet' \notin {"opening", "open"} /\ (~ Slow => outlet' = "gone")
    BY <1>1, Unanswered DEF Says
  <2>2. /\ DOMAIN inq' = {} /\ DOMAIN o2i' = {1} /\ o2i'[1] = "refused"
        /\ inq' \in Seq({"refused"}) /\ o2i' \in Seq({"refused"})
    BY <2>1
  <2>3. Reports'
    BY <2>1, <2>2 DEF Reports, Has
  <2>4. OneReport'
    BY <2>1, <2>2 DEF OneReport
  <2> QED
    BY <2>3, <2>4
<1>3. plan.cmd = "udp" => TwoReports'
  BY <1>1, Unanswered, Sent, TwoSaid, ComingValue DEF Result, ResultOrEnd
<1> QED
  BY <1>1, <1>2, <1>3, Unanswered, Sent, SaysKeeps DEF OutMessages

-----------------------------------------------------------------------------
LEMMA StepKeeps ==
  ASSUME ConstantsOK, IInv, [Next]_vars
  PROVE  IInv'
<1> USE Parts, PartsNext
<1>1. CASE UNCHANGED vars
  <2>1. UNCHANGED <<plan, stage, left, sent, frame, lock, status, buffer, credit, writeq, inq,
                    life, up, o2i, outlet, answers, lost>>
    BY <1>1 DEF vars, client, context
  <2>2. Told'
    BY <2>1, ToldKept
  <2>3. Base'
    BY <2>1 DEF Base, TypeOK
  <2>4. Greeting' = Greeting /\ Verifying' = Verifying /\ Requesting' = Requesting
    BY <2>1, PlanKept DEF Greeting, Verifying, Requesting, Quiet
  <2>5. Asked' = Asked
    BY <2>1, PlanKept DEF Asked
  <2>6. Phase'
    BY <2>1, <2>4, <2>5 DEF Phase
  <2> QED
    BY <2>2, <2>3, <2>6
<1>2. CASE Outlet
  BY <1>2, OpensKeeps, ConfirmsKeeps, RefusesKeeps, OpensLateKeeps, EndpointDataKeeps,
     WritesKeeps, ClosesKeeps, Zenon DEF Outlet
<1>3. CASE ClientSends \/ ClientData \/ ClientLeaves
  BY <1>3, ClientSendsKeeps, ClientDataKeeps, ClientLeavesKeeps, Zenon
<1>4. CASE RecvHandshake \/ RecvIgnored \/ RecvData \/ SendData
  BY <1>4, RecvHandshakeKeeps, RecvIgnoredKeeps, RecvDataKeeps, SendDataKeeps, Zenon
<1>5. CASE InputInternal \/ UnknownSession \/ OnRecvProxyMessage \/ PollWrite \/ OnSessionClose
  BY <1>5, InputInternalKeeps, UnknownSessionKeeps, OnRecvProxyMessageKeeps, PollWriteKeeps,
     OnSessionCloseKeeps, Zenon
<1> QED
  BY <1>1, <1>2, <1>3, <1>4, <1>5, Zenon DEF Next

LEMMA InitHolds == ASSUME ConstantsOK, Init PROVE IInv
<1>1. Length("greet") \in {3, 4} /\ left = Length("greet")
  BY GreetingLength DEF Init
<1>2. 0 \in 0 .. Longest /\ left \in 0 .. Longest /\ 0 \in 0 .. RequestLen /\ 0 \in 0 .. MaxUp
      /\ 0 \in 0 .. MaxDown
  BY <1>1, Lengths DEF ConstantsOK
<1>3. TypeOK
  BY <1>2, EmptyIn DEF Init, TypeOK, Statuses, Lives
<1>4. Base
  BY <1>2, <1>3, EmptyIn DEF Init, Base
<1>5. Greeting
  <2>1. buffer + frame + left <= Length("greet")
    BY <1>1 DEF Init
  <2> QED
    BY <2>1, EmptyIn DEF Init, Greeting, Quiet
<1> QED
  BY <1>4, <1>5 DEF Init, IInv, Running

(* Every step of the session, of its tasks and of the outlet keeps the     *)
(* three parts together.                                                   *)
THEOREM Socks5Invariant == ASSUME ConstantsOK PROVE Spec => []IInv
<1>1. Init => IInv
  BY InitHolds
<1>2. IInv /\ [Next]_vars => IInv'
  BY StepKeeps
<1> QED
  BY <1>1, <1>2, PTL DEF Spec

(* Types of a session; what on_socks5_init, on_socks5_verification and     *)
(* on_socks5_connect leave in the buffer stays within a message.           *)
THEOREM Socks5Types == ASSUME ConstantsOK PROVE Spec => []TypeOK
<1>1. IInv => TypeOK
  BY DEF IInv, Base
<1> QED
  BY <1>1, Socks5Invariant, PTL

(* recv_frame asks the outlet to connect only for a client that has shown  *)
(* the tunnel's username and password, however its messages were cut.      *)
THEOREM Socks5Authenticated == ASSUME ConstantsOK PROVE Spec => []AuthenticatedFirst
<1>1. IInv => AuthenticatedFirst
  BY Parts, IsAsked DEF AuthenticatedFirst, Asked, Authenticated, Credentials
<1> QED
  BY <1>1, Socks5Invariant, PTL

(* on_socks5_connect asks the outlet only once all of the request is there *)
(* and nothing of it is left to be read.                                   *)
THEOREM Socks5WholeRequest == ASSUME ConstantsOK PROVE Spec => []WholeRequest
<1>1. IInv => WholeRequest
  BY Parts, IsAsked DEF WholeRequest, Asked
<1> QED
  BY <1>1, Socks5Invariant, PTL

(* No frame of the client is ignored by recv_frame once it was told the    *)
(* connection is there, and on_o2i_recv_data finds the status set for      *)
(* every frame of the endpoint; also where the outlet succeeds late.       *)
THEOREM Socks5NothingLost == ASSUME ConstantsOK PROVE Spec => []NothingLost
<1>1. IInv => NothingLost
  BY DEF IInv, Base, NothingLost
<1> QED
  BY <1>1, Socks5Invariant, PTL

(* on_o2i_connect answers a connect request at most once and a UDP request *)
(* at most twice; an unsupported one is refused at most as often as        *)
(* draining four bytes each time allows, where the outlet is in time.      *)
THEOREM Socks5AnsweredOnce == ASSUME ConstantsOK, ~ Slow PROVE Spec => []AnsweredOnce
<1>1. IInv => AnsweredOnce
  <2> SUFFICES ASSUME IInv PROVE AnsweredOnce
    OBVIOUS
  <2>1. Base /\ Phase /\ Told /\ answers \in Nat /\ RequestLen \in Nat /\ RequestLen >= 8
    BY Parts, Lengths DEF Base, TypeOK
  <2>2. CASE status \in Running
    <3>1. plan.cmd = "connect" => answers <= 1
      BY <2>1, <2>2 DEF Told, OneReport
    <3>2. plan.cmd = "udp" => answers <= 2
      <4>1. CASE o2i = <<>>
        BY <2>1, <2>2, <4>1, ConnValue, LenProperties, EmptyIn DEF Told, TwoReports, Coming
      <4>2. CASE o2i # <<>>
        BY <2>1, <2>2, <4>2, ConnTaken, LenProperties DEF Told, TwoReports, Coming, Base
      <4> QED
        BY <4>1, <4>2
    <3>3. plan.cmd # "bind"
      BY <2>1, <2>2 DEF Phase, Asked
    <3> QED
      BY <3>1, <3>2, <3>3 DEF AnsweredOnce
  <2>3. CASE status = "Connect"
    BY <2>1, <2>3 DEF Phase, Requesting, AnsweredOnce
  <2>4. CASE status \in {"Init", "Verification"}
    BY <2>1, <2>4 DEF Phase, Greeting, Verifying, AnsweredOnce
  <2> QED
    BY <2>1, <2>2, <2>3, <2>4 DEF Base, TypeOK, Statuses, Running
<1> QED
  BY <1>1, Socks5Invariant, PTL

=============================================================================
