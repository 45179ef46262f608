------------------------------- MODULE Frames -------------------------------
(* How messages are put together from what the socket yields: the loop of   *)
(* handle_read_frame with the frame parser of hybi13. The peer's frames     *)
(* arrive as a stream of bytes that is cut into reads anywhere.             *)
(*                                                                          *)
(* A byte is known by its frame and its place there. What the header bytes  *)
(* say is looked up in the frame they belong to.                            *)
EXTENDS Naturals, Sequences, FiniteSets, SequencesExt

CONSTANTS
  PeerFrames,      \* the frames the peer may send
  MaxFrames,       \* bound: frames sent
  BasicSize,       \* payload_size_basic: the largest payload of a plain header
  ExtendedSize,    \* payload_size_extended: that of a header with 2 bytes more
  MaxMessageSize,  \* m_max_message_size
  WordSize,        \* how many values a size_t has: 2^32 or 2^64
  BufferSize       \* connection_read_buffer_size

(* A frame: opcode ("bad" is any header with a reserved bit or opcode, or   *)
(* masked), fin bit, length of the extended header, and payload, of whose   *)
(* bytes matters what they are in UTF-8: a character, or the first or the   *)
(* second half of one.                                                      *)
Opcodes == {"text", "continuation", "control", "bad"}
UTF8 == {"char", "lead", "trail"}
Frame == [op : Opcodes, fin : BOOLEAN, ext : {0, 2, 8}, payload : Seq(UTF8)]

ASSUME FramesAssumption ==
  /\ \A f \in PeerFrames :
       /\ f \in Frame
       /\ f.ext = 0 => Len(f.payload) <= BasicSize
       /\ f.ext = 2 => Len(f.payload) <= ExtendedSize
  /\ MaxFrames \in Nat /\ WordSize \in Nat
  /\ ExtendedSize \in 0..(WordSize - 1) /\ MaxMessageSize \in 0..(WordSize - 1)
  /\ BasicSize \in 0..ExtendedSize
  /\ BufferSize \in Nat \ {0}

VARIABLES
  sent,      \* the frames the peer has sent
  socket,    \* bytes to be read
  buffer,    \* what of m_buf is still to be consumed
  mState,    \* m_state: "basic", "extended", "application", "ready"
  needed,    \* m_bytes_needed
  basic,     \* m_basic_header, <<b0, b1>>
  extended,  \* the m_cursor bytes of m_extended_header
  data,      \* m_data_msg: the payload so far, or NoMessage
  control,   \* m_control_msg, likewise
  current,   \* which of the two m_current_msg points to
  failed,    \* consume reported an error: nothing is read any more
  out        \* messages handed on

header == <<basic, extended>>
messages == <<data, control, current>>
vars == <<sent, socket, buffer, mState, needed, header, messages, failed, out>>

-----------------------------------------------------------------------------
(* Bytes.                                                                   *)

HeaderLength == 2
Byte == [frame : Nat, at : Nat]
FrameLength(f) == HeaderLength + f.ext + Len(f.payload)

\* Frame number n as it is sent.
Bytes(n, f) == [i \in 1..FrameLength(f) |-> [frame |-> n, at |-> i]]

ZeroByte == [frame |-> 0, at |-> 0]
ZeroFrame == [op |-> "continuation", fin |-> FALSE, ext |-> 0, payload |-> <<>>]
FrameOf(b) == IF b.frame = 0 THEN ZeroFrame ELSE sent[b.frame]

\* What the headers say: b0 has fin bit and opcode, b1 the length or that of
\* the extended header.
Fin(b) == FrameOf(b[1]).fin
Opcode(b) == FrameOf(b[1]).op
ExtensionLength(b) == FrameOf(b[2]).ext
PayloadSize(b, e) == Len(FrameOf(IF ExtensionLength(b) = 0 THEN b[2] ELSE e[1]).payload)

\* What a payload byte is in UTF-8.
Code(b) == LET f == FrameOf(b) IN f.payload[b.at - HeaderLength - f.ext]

\* The bytes p can begin a valid text, and p ends with a character.
WellFormed(p) ==
  \A i \in 1..Len(p) : Code(p[i]) = "trail" <=> i > 1 /\ Code(p[i - 1]) = "lead"
Complete(p) == p = <<>> \/ Code(Last(p)) # "lead"

-----------------------------------------------------------------------------
(* Messages.                                                                *)

NoMessage == [op |-> "none", payload |-> <<>>]
Message(op) == [op |-> op, payload |-> <<>>]
Current == IF current = "data" THEN data ELSE control

\* The parser waits for the first byte of a frame.
reset_headers ==
  /\ mState' = "basic" /\ needed' = HeaderLength
  /\ basic' = <<ZeroByte, ZeroByte>> /\ extended' = <<>>

Init ==
  /\ sent = <<>> /\ socket = <<>> /\ buffer = <<>>
  /\ mState = "basic" /\ needed = HeaderLength
  /\ basic = <<ZeroByte, ZeroByte>> /\ extended = <<>>
  /\ data = NoMessage /\ control = NoMessage /\ current = "data"
  /\ failed = FALSE /\ out = <<>>

PeerSends(f) ==
  /\ Len(sent) < MaxFrames
  /\ sent' = Append(sent, f)
  /\ socket' = socket \o Bytes(Len(sent) + 1, f)
  /\ UNCHANGED <<buffer, mState, needed, header, messages, failed, out>>

-----------------------------------------------------------------------------
(* consume. Each pass of its loop is a step.                                *)

\* Fault: the loop ends with the bytes, even if none are needed.
WhileBytes == ~failed /\ mState # "ready" /\ buffer # <<>>

\* The condition of the loop.
Consuming == ~failed /\ mState # "ready" /\ (buffer # <<>> \/ needed = 0)

\* The handler has worked through its bytes and asks for more.
Reading == ~failed /\ mState # "ready" /\ ~Consuming

Take(k) == buffer' = SubSeq(buffer, k + 1, Len(buffer))
Taken(k) == SubSeq(buffer, 1, k)
Smaller(m, n) == IF m < n THEN m ELSE n

\* Fault: the read ends with all the bytes that are needed.
WaitForNeeded(n) ==
  /\ Reading /\ n \in needed..Smaller(BufferSize, Len(socket))
  /\ buffer' = SubSeq(socket, 1, n)
  /\ socket' = SubSeq(socket, n + 1, Len(socket))
  /\ UNCHANGED <<sent, mState, needed, header, messages, failed, out>>

\* A read ends with whatever has come, if it fits in m_buf.
handle_read_frame(n) ==
  /\ Reading /\ n \in 1..Smaller(BufferSize, Len(socket))
  /\ buffer' = SubSeq(socket, 1, n)
  /\ socket' = SubSeq(socket, n + 1, Len(socket))
  /\ UNCHANGED <<sent, mState, needed, header, messages, failed, out>>

\* validate_incoming_basic_header: only data can be long, or come in parts,
\* and parts of two messages do not mix.
ValidBasicHeader(b) ==
  /\ Opcode(b) # "bad"
  /\ Opcode(b) = "control" => ExtensionLength(b) = 0 /\ Fin(b)
  /\ Opcode(b) = "continuation" => data # NoMessage
  /\ Opcode(b) = "text" => data = NoMessage

\* validate_incoming_extended_header: no longer header than necessary, and no
\* more bytes than a size_t can count, which only one of 32 bits has to ask.
ValidExtendedHeader(b, e) ==
  /\ ExtensionLength(b) = 2 => PayloadSize(b, e) > BasicSize
  /\ ExtensionLength(b) = 8 => PayloadSize(b, e) > ExtendedSize /\ PayloadSize(b, e) < WordSize

\* copy_basic_header_bytes: where a byte belongs follows from what is needed.
CopyBasic(k) ==
  LET had == HeaderLength - needed
  IN [i \in 1..2 |-> IF i \in (had + 1)..(had + k) THEN buffer[i - had] ELSE basic[i]]

ReadBasicHeader(k) ==
  /\ Consuming /\ mState = "basic" /\ k = Smaller(needed, Len(buffer))
  /\ Take(k)
  /\ basic' = CopyBasic(k)
  /\ IF needed > k
       THEN needed' = needed - k /\ UNCHANGED <<mState, extended, failed>>
     ELSE IF ValidBasicHeader(CopyBasic(k))
       THEN /\ mState' = "extended" /\ extended' = <<>>
            /\ needed' = ExtensionLength(CopyBasic(k))
            /\ UNCHANGED failed
     ELSE failed' = TRUE /\ needed' = 0 /\ UNCHANGED <<mState, extended>>
  /\ UNCHANGED <<sent, socket, messages, out>>

\* The sum of two size_t wraps.
SizeSum(m, n) == (m + n) % WordSize

\* Fault: the limit is that of a frame, not of the message.
LimitPerFrame(size) ==
  IF Opcode(basic) = "control"
    THEN /\ control' = Message("control") /\ current' = "control"
         /\ UNCHANGED <<data, failed>>
  ELSE IF size > MaxMessageSize
    THEN failed' = TRUE /\ UNCHANGED messages
  ELSE /\ data' = IF data = NoMessage THEN Message("text") ELSE data
       /\ current' = "data"
       /\ UNCHANGED <<control, failed>>

\* The rest of consume's HEADER_EXTENDED: which message the payload is for. A
\* control frame may come between the frames of a data message. The sum
\* that is compared with the limit may have wrapped.
ChooseMessage(size) ==
  IF Opcode(basic) = "control"
    THEN /\ control' = Message("control") /\ current' = "control"
         /\ UNCHANGED <<data, failed>>
  ELSE IF SizeSum(Len(data.payload), size) > MaxMessageSize
    THEN failed' = TRUE /\ UNCHANGED messages
  ELSE /\ data' = IF data = NoMessage THEN Message("text") ELSE data
       /\ current' = "data"
       /\ UNCHANGED <<control, failed>>

ReadExtendedHeader(k) ==
  /\ Consuming /\ mState = "extended" /\ k = Smaller(needed, Len(buffer))
  /\ Take(k)
  /\ extended' = extended \o Taken(k)
  /\ IF needed > k
       THEN needed' = needed - k /\ UNCHANGED <<mState, messages, failed>>
     ELSE IF ValidExtendedHeader(basic, extended \o Taken(k))
       THEN /\ mState' = "application"
            /\ needed' = PayloadSize(basic, extended \o Taken(k))
            /\ ChooseMessage(PayloadSize(basic, extended \o Taken(k)))
     ELSE failed' = TRUE /\ needed' = 0 /\ UNCHANGED <<mState, messages>>
  /\ UNCHANGED <<sent, socket, basic, out>>

\* process_payload_bytes: text must be UTF-8 as far as it has come.
AppendPayload(k) ==
  IF current = "data"
    THEN data' = [data EXCEPT !.payload = @ \o Taken(k)] /\ UNCHANGED <<control, current>>
    ELSE control' = [control EXCEPT !.payload = @ \o Taken(k)] /\ UNCHANGED <<data, current>>

ValidPayload(k) == current = "data" => WellFormed(data.payload \o Taken(k))

\* finalize_message: whether text ends with a character is asked for a message
\* of one frame, whose opcode is text.
ValidEnd(k) == Opcode(basic) = "text" => Complete(data.payload \o Taken(k))

\* The end of a frame: the last of its message, or not.
EndFrame(k) ==
  IF ~Fin(basic)
    THEN reset_headers /\ UNCHANGED failed
  ELSE IF ValidEnd(k)
    THEN mState' = "ready" /\ needed' = 0 /\ UNCHANGED <<header, failed>>
  ELSE failed' = TRUE /\ needed' = 0 /\ UNCHANGED <<mState, header>>

ReadPayload(k) ==
  /\ Consuming /\ mState = "application" /\ k = Smaller(needed, Len(buffer))
  /\ Take(k) /\ AppendPayload(k)
  /\ IF ~ValidPayload(k)
       THEN failed' = TRUE /\ UNCHANGED <<mState, needed, header>>
     ELSE IF needed > k
       THEN needed' = needed - k /\ UNCHANGED <<mState, header, failed>>
     ELSE EndFrame(k)
  /\ UNCHANGED <<sent, socket, out>>

\* Fault: a control message ends the data message as well.
ForgetBoth ==
  /\ ~failed /\ mState = "ready"
  /\ out' = Append(out, Current)
  /\ data' = NoMessage /\ control' = NoMessage
  /\ reset_headers
  /\ UNCHANGED <<sent, socket, buffer, current, failed>>

\* get_message, and the handler of the message.
get_message ==
  /\ ~failed /\ mState = "ready"
  /\ out' = Append(out, Current)
  /\ IF current = "data" THEN data' = NoMessage /\ UNCHANGED control
                         ELSE control' = NoMessage /\ UNCHANGED data
  /\ reset_headers
  /\ UNCHANGED <<sent, socket, buffer, current, failed>>

-----------------------------------------------------------------------------
Consume ==
  \/ \E k \in 0..BufferSize : ReadBasicHeader(k) \/ ReadExtendedHeader(k) \/ ReadPayload(k)
  \/ get_message

Next ==
  \/ \E f \in PeerFrames : PeerSends(f)
  \/ \E n \in 1..BufferSize : handle_read_frame(n)
  \/ Consume

Spec == Init /\ [][Next]_vars

\* Main goes through its loop, and what has come is read.
FairSpec == Spec /\ WF_vars(Consume) /\ WF_vars(\E n \in 1..BufferSize : handle_read_frame(n))

-----------------------------------------------------------------------------
(* What the frames mean: the reference for the parser.                      *)

IsData(f) == f.op \in {"text", "continuation"}
Payload(n, f) == [i \in 1..Len(f.payload) |-> [frame |-> n, at |-> HeaderLength + f.ext + i]]

\* For the frames s: the payload of the data message that frame n belongs to,
\* or that it interrupts, up to frame n.
DataOf(s) ==
  LET parts[n \in 0..Len(s)] ==
        IF n = 0 THEN <<>>
        ELSE IF ~IsData(s[n]) THEN parts[n - 1]
        ELSE IF s[n].op = "text" THEN Payload(n, s[n])
        ELSE parts[n - 1] \o Payload(n, s[n])
  IN parts

\* The messages of the first n of the frames s.
MessageOf(s, n) ==
  IF s[n].op = "control" THEN [op |-> "control", payload |-> Payload(n, s[n])]
                         ELSE [op |-> "text", payload |-> DataOf(s)[n]]
MessagesOf(s) ==
  LET done[n \in 0..Len(s)] ==
        IF n = 0 THEN <<>>
        ELSE IF s[n].fin THEN Append(done[n - 1], MessageOf(s, n))
        ELSE done[n - 1]
  IN done

DataUpTo(n) == DataOf(sent)[n]
Messages(n) == MessagesOf(sent)[n]

\* A message is open before frame n: the data frame before it was not the last.
Open(n) == \E i \in 1..(n - 1) :
  /\ IsData(sent[i]) /\ ~sent[i].fin
  /\ \A j \in (i + 1)..(n - 1) : ~IsData(sent[j])

GoodSize(f) ==
  /\ Len(f.payload) < WordSize
  /\ f.ext = IF Len(f.payload) <= BasicSize THEN 0 ELSE IF Len(f.payload) <= ExtendedSize THEN 2 ELSE 8

\* The frame n can follow the n - 1 frames before it. Text in one frame ends
\* with a character; of text in several the parser does not demand that. The
\* size of a message is what a size_t makes of it.
Good(n) == LET f == sent[n] IN
  /\ f.op # "bad" /\ GoodSize(f)
  /\ f.op = "control" => f.fin /\ f.ext = 0
  /\ f.op = "continuation" => Open(n)
  /\ f.op = "text" => ~Open(n)
  /\ IsData(f) => Len(DataUpTo(n)) % WordSize <= MaxMessageSize /\ WellFormed(DataUpTo(n))
  /\ f.op = "text" /\ f.fin => Complete(DataUpTo(n))

\* A frame so long that its size and that of a message within the limit do not
\* fit in a size_t together.
Huge(f) == Len(f.payload) >= WordSize - MaxMessageSize
NoneIsHuge == \A n \in 1..Len(sent) : ~Huge(sent[n])

\* How many frames have been read to their last byte.
Received == IF socket = <<>> THEN Len(sent) ELSE socket[1].frame - 1

-----------------------------------------------------------------------------
(* Properties.                                                              *)

\* Type invariant.
FramesTypeOK ==
  /\ \A n \in 1..Len(sent) : sent[n] \in PeerFrames
  /\ mState \in {"basic", "extended", "application", "ready"}
  /\ needed \in Nat
  /\ Len(basic) = 2 /\ Len(extended) <= 8
  /\ current \in {"data", "control"} /\ failed \in BOOLEAN
  /\ data.op \in {"none", "text"} /\ control.op \in {"none", "control"}

\* When the handler asks for more, it has handed on exactly the messages whose
\* frames are complete, in order, whatever the reads were: nothing complete
\* waits for bytes that may never come, nothing is handed on early, and a
\* control message does not disturb the data message it interrupts.
DeliversWhatArrived ==
  Reading => /\ out = Messages(Received)
             /\ \A n \in 1..Received : Good(n)

\* The parser fails only at a frame that is wrong, having handed on everything
\* before it.
FailsAtBadFrame ==
  failed => \E n \in 1..Len(sent) :
    ~Good(n) /\ out = Messages(n - 1) /\ \A m \in 1..(n - 1) : Good(m)

\* No message, however many frames it has, grows beyond the limit, unless the
\* peer has sent a huge frame.
SmallFramesMeetLimit == NoneIsHuge => Len(data.payload) <= MaxMessageSize

\* The limit without that condition, as core_client states it (lines 229-231): it
\* "determines the point at which the library will fail a connection with the
\* message_too_big protocol error". It does not hold, since the sum of line 457
\* wraps.
SizeIsLimited == Len(data.payload) <= MaxMessageSize

\* Everything that was sent is handed on, or the parser has failed.
AllIsRead == <>[](failed \/ (Reading /\ socket = <<>>))
=============================================================================
