------------------------------ MODULE Framing ------------------------------
(***************************************************************************)
(* The stream between a client and the server.  Tasks of the client (the   *)
(* output tasks of its tunnels, the ping loop) write frames through one    *)
(* mutex, write_all handing the socket as much as it takes at a time; the  *)
(* reader gets bytes in pieces of its own and splits them into frames      *)
(* (peer/mod.rs on the server; client.rs the other way is the same without *)
(* the forwarding).  A task whose inlet or outlet is stopped is dropped    *)
(* where it waits.                                                         *)
(*                                                                         *)
(* A frame is a flag, a four byte length and that many bytes; a byte of    *)
(* the stream is <<task, frame, position>>.  Something that is not one of  *)
(* our clients begins with another flag.                                   *)
(***************************************************************************)
EXTENDS Integers, FiniteSets, Sequences

CONSTANTS
  Tasks,     \* tasks that write, positive numbers
  Size,      \* length of the frames of a task
  Flagged,   \* tasks whose frames begin with the flag (33)
  LIMIT,     \* lengths from here on are refused (2 or 5 MiB)
  Forward,   \* illegal_traffic_forward is set, and its connect succeeds
  MayStop,   \* tunnels are stopped
  MaxFrames  \* bound: frames of a task

HEADER == 5     \* flag and length
MESSAGE == 8    \* serial and message id, the least a frame holds

ConstantsOK ==
  /\ Tasks \subseteq Nat \ {0}
  /\ Flagged \subseteq Tasks
  /\ \A t \in Tasks : Size[t] \in Nat
  /\ LIMIT \in Nat
  /\ MaxFrames \in Nat
  /\ {Forward, MayStop} \subseteq BOOLEAN

VARIABLES
  holder,     \* task that holds the writer's mutex, 0 for none
  written,    \* bytes of its frame that are out
  count,      \* frames each task has begun
  stopped,    \* tasks dropped
  stream,     \* bytes written
  arrived,    \* how many the reader has read
  consumed,   \* how many have left its buffer
  reader,     \* "read", "extract"; "closing", "ended" at the end
  forwarding, \* traffic_forward_writer is set
  delivered,  \* frames given to on_recv_frame
  forwarded,  \* bytes given to traffic_forward_writer
  refused     \* history: why the reader gave up

writer == <<holder, written, count, stopped, stream>>
vars == <<writer, arrived, consumed, reader, forwarding, delivered, forwarded, refused>>

Init ==
  /\ holder = 0
  /\ written = 0
  /\ count = [t \in Tasks |-> 0]
  /\ stopped = {}
  /\ stream = <<>>
  /\ arrived = 0
  /\ consumed = 0
  /\ reader = "read"
  /\ forwarding = FALSE
  /\ delivered = <<>>
  /\ forwarded = <<>>
  /\ refused = "no"

-----------------------------------------------------------------------------
(* package_and_send_message.                                               *)
MayWrite(t) == holder = 0

Lock(t) ==
  /\ t \notin stopped
  /\ MayWrite(t)
  /\ count[t] < MaxFrames
  /\ holder' = t
  /\ written' = 0
  /\ count' = [count EXCEPT ![t] = @ + 1]
  /\ UNCHANGED <<stopped, stream, arrived, consumed, reader, forwarding, delivered,
                 forwarded, refused>>

FrameLen(t) == HEADER + Size[t]
Bytes(t, from, to) == [i \in 1 .. (to - from) |-> <<t, count[t], from + i>>]

(* The socket takes some of what is left; write_all ends with the rest.    *)
Write(t, n) ==
  /\ holder = t
  /\ written + n <= FrameLen(t)
  /\ stream' = stream \o Bytes(t, written, written + n)
  /\ IF written + n = FrameLen(t)
       THEN holder' = 0 /\ written' = 0
       ELSE written' = written + n /\ UNCHANGED holder
  /\ UNCHANGED <<count, stopped, arrived, consumed, reader, forwarding, delivered,
                 forwarded, refused>>

(* select! drops async_receive_output, and the mutex guard with it.        *)
Stop(t) ==
  /\ MayStop
  /\ t \notin stopped
  /\ stopped' = stopped \cup {t}
  /\ IF holder = t THEN holder' = 0 /\ written' = 0 ELSE UNCHANGED <<holder, written>>
  /\ UNCHANGED <<count, stream, arrived, consumed, reader, forwarding, delivered,
                 forwarded, refused>>

-----------------------------------------------------------------------------
(* The reader.                                                             *)
Buffer == SubSeq(stream, consumed + 1, arrived)

Read ==
  /\ reader = "read"
  /\ arrived' \in arrived + 1 .. Len(stream)
  /\ reader' = "extract"
  /\ UNCHANGED <<writer, consumed, forwarding, delivered, forwarded, refused>>

IsFlag(byte) == byte[3] = 1 /\ byte[1] \in Flagged

(* The four bytes after the flag; where they are not the length of a frame *)
(* of ours they can be any number.                                         *)
LengthField(b) ==
  LET t == b[1][1]
  IN  IF /\ t \in Flagged
         /\ \A i \in 1 .. HEADER : b[i] = <<t, b[1][2], i>>
        THEN {Size[t]}
        ELSE 0 .. LIMIT

Enough(b, len) == Len(b) >= HEADER + len

(* try_extract_frame, for a buffer that begins with the flag: "none" when  *)
(* more is needed, "bad" for a length that is not allowed, or the length.  *)
ExtractLength(b, len) ==
  CASE Len(b) < HEADER -> "none"
    [] Len(b) >= HEADER /\ (len = 0 \/ len >= LIMIT) -> "bad"
    [] Len(b) >= HEADER /\ len \in 1 .. LIMIT - 1 /\ ~ Enough(b, len) -> "none"
    [] OTHER -> "frame"

(* The name of a frame cut out of the stream, 0 if it is not one frame.    *)
Frame(bytes) ==
  IF \E t \in Flagged : \E k \in 1 .. MaxFrames :
       bytes = [i \in 1 .. FrameLen(t) |-> <<t, k, i>>]
    THEN <<bytes[1][1], bytes[1][2]>>
    ELSE <<0, 0>>

Refuse(why) ==
  /\ refused' = why
  /\ reader' = "closing"
  /\ UNCHANGED <<consumed, delivered, forwarding, forwarded>>

(* All that is in the buffer goes, the byte that gave it away included.    *)
ForwardFrom == consumed

ForwardAll ==
  /\ forwarding' = TRUE
  /\ forwarded' = forwarded \o SubSeq(stream, ForwardFrom + 1, arrived)
  /\ consumed' = arrived
  /\ reader' = "read"
  /\ UNCHANGED <<delivered, refused>>

(* Mutant: the header is not counted.                                      *)
FrameEndBody(len) == len

(* Where split_to cuts the buffer.                                         *)
FrameEnd(len) == HEADER + len

AfterFrame(rest) == IF rest = 0 THEN "read" ELSE "extract"

(* on_recv_frame looks at the serial and the message id first.             *)
Deliver(len) ==
  /\ consumed' = consumed + FrameEnd(len)
  /\ IF len < MESSAGE
       THEN reader' = "closing" /\ refused' = "short" /\ UNCHANGED delivered
       ELSE /\ delivered' = Append(delivered, Frame(SubSeq(Buffer, 1, FrameEnd(len))))
            /\ reader' = AfterFrame(arrived - consumed')
            /\ UNCHANGED refused
  /\ UNCHANGED <<forwarding, forwarded>>

OnTryExtractFrame ==
  /\ reader = "extract"
  /\ CASE forwarding \/ (Forward /\ ~ IsFlag(Buffer[1])) -> ForwardAll
       [] ~ forwarding /\ ~ Forward /\ ~ IsFlag(Buffer[1]) -> Refuse("flag")
       [] OTHER ->
            \E len \in IF Len(Buffer) >= HEADER THEN LengthField(Buffer) ELSE {0} :
              CASE ExtractLength(Buffer, len) = "none" ->
                     /\ reader' = "read"
                     /\ UNCHANGED <<consumed, delivered, forwarding, forwarded, refused>>
                [] ExtractLength(Buffer, len) = "bad"   -> Refuse("length")
                [] ExtractLength(Buffer, len) = "frame" -> Deliver(len)
  /\ UNCHANGED <<writer, arrived>>

(* send_http_404_response queues a reply and Close; poll_write ends and    *)
(* the handler is dropped in its sleep.                                    *)
Close ==
  /\ reader = "closing"
  /\ reader' = "ended"
  /\ UNCHANGED <<writer, arrived, consumed, forwarding, delivered, forwarded, refused>>

-----------------------------------------------------------------------------
Longest == HEADER + LIMIT

Next ==
  \/ \E t \in Tasks : Lock(t) \/ Stop(t) \/ (\E n \in 1 .. Longest : Write(t, n))
  \/ Read
  \/ OnTryExtractFrame
  \/ Close

Spec == Init /\ [][Next]_vars

-----------------------------------------------------------------------------
(* Types; what has left the buffer has been read, and what has been read   *)
(* was written.                                                            *)
TypeOK ==
  /\ holder \in Tasks \cup {0}
  /\ count \in [Tasks -> 0 .. MaxFrames]
  /\ stopped \subseteq Tasks
  /\ consumed <= arrived /\ arrived <= Len(stream)
  /\ reader \in {"read", "extract", "closing", "ended"}
  /\ reader = "extract" => Buffer # <<>>
  /\ refused \in {"no", "flag", "length", "short"}

(* Frames whose last byte is out, in the order of the stream.              *)
Completed ==
  LET ends == SelectSeq(stream, LAMBDA byte : byte[3] = FrameLen(byte[1]))
  IN  [i \in 1 .. Len(ends) |-> <<ends[i][1], ends[i][2]>>]

(* "收到一个完整的消息包" (peer/mod.rs): on_recv_frame gets the frames the *)
(* tasks wrote, whole, in order and once, however writes and reads cut     *)
(* them.                                                                   *)
WholeFrames ==
  /\ Len(delivered) <= Len(Completed)
  /\ \A i \in 1 .. Len(delivered) : delivered[i] = Completed[i]

(* A connection is refused only for what its own tasks sent: a flag that   *)
(* is not ours, a length out of bounds, or a frame without a message.      *)
RefusedForCause ==
  /\ refused = "flag" => \E t \in Tasks \ Flagged : count[t] > 0
  /\ refused = "length" => \E t \in Tasks : count[t] > 0 /\ (Size[t] = 0 \/ Size[t] >= LIMIT)
  /\ refused = "short" => \E t \in Tasks : count[t] > 0 /\ Size[t] < MESSAGE

(* A stranger's bytes reach illegal_traffic_forward without a gap, from    *)
(* the first one that is not a frame of ours to the last one handled.      *)
ForwardedWhole ==
  forwarding =>
    /\ forwarded # <<>>
    /\ forwarded = SubSeq(stream, consumed - Len(forwarded) + 1, consumed)
    /\ ~ IsFlag(forwarded[1])

(* A frame that is out is delivered, forwarded or refused: no frame stays  *)
(* in the buffer because the read that completed it brought others.        *)
Handled ==
  \A n \in 1 .. MaxFrames * Cardinality(Tasks) :
    Len(Completed) >= n ~> (Len(delivered) >= n \/ forwarding \/ reader = "ended")
=============================================================================
