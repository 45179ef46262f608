-------------------------- MODULE Connection_proofs --------------------------
(* Proofs about the connection, for any number of senders, messages and     *)
(* frames.                                                                  *)
(*                                                                          *)
(* The inductive invariant ConnectionInv says which operations of the       *)
(* socket can be under way together (OpInv), what keeps the event loop from *)
(* running out of work in each state of the connection (AliveInv), what a   *)
(* batch of messages looks like (BatchInv), that the registration is the    *)
(* oldest message of all (RegisterInv), and who can still be inside send    *)
(* after a close frame was queued (CloseInv).                               *)
EXTENDS Connection, TLAPS

\* Nothing has been sent, and nothing but the open handler could do it.
Silent ==
  /\ wire = <<>> /\ currentMsgs = <<>> /\ sendQueue = <<>>
  /\ ~writeFlag /\ ~heard
  /\ main # "frames" /\ "read" \notin op
  /\ \A s \in Senders : pc[s] = "idle"

OpInv ==
  \/ op \subseteq {"read", "write"}
  \/ op \in {{"resolve"}, {"connect"}, {"request"}, {"response"}} /\ Silent

AliveInv ==
  /\ state = "connecting" => connectTimer # "off" \/ "request" \in op \/ "response" \in op
  /\ state = "open" => main \in {"opened", "frames"} \/ "read" \in op
  /\ state = "closing" => handshakeTimer = "armed" \/ timeouts > 0
  /\ "read" \in op \/ main \in {"opened", "frames"} => state # "connecting"
  /\ main \in {"opened", "frames"} => op \subseteq {"write"}
  /\ main = "returned" => state = "closed" /\ "write" \notin op
  /\ main = "refused" => state = "closed" /\ op = {}

BatchInv == \A i \in 1..(Len(currentMsgs) - 1) : ~Terminal(currentMsgs[i])

\* Nothing has been sent, and nothing will be.
Mute == wire = <<>> /\ currentMsgs = <<>> /\ writeFlag

Oldest(kind) ==
  \/ wire # <<>> /\ wire[1].kind = kind
  \/ wire = <<>> /\ currentMsgs # <<>> /\ currentMsgs[1].kind = kind
  \/ wire = <<>> /\ currentMsgs = <<>> /\ sendQueue # <<>> /\ sendQueue[1].kind = kind

RegisterInv == Silent \/ Mute \/ Oldest("register")

\* The messages o have a close frame, and one of s after a close frame.
Closes(o) == \E i \in 1..Len(o) : IsClose(o[i])
AfterClose(o, s) == \E i, j \in 1..Len(o) : i < j /\ IsClose(o[i]) /\ o[j].from = s

\* OnlySendsUnderWayFollowClose for the messages o.
FollowOK(o) ==
  \A i, j \in 1..Len(o) :
    i < j /\ IsClose(o[i]) /\ ~IsClose(o[j]) =>
      /\ o[j].from \in Senders
      /\ \A k \in (i + 1)..Len(o) : o[k].from = o[j].from => k = j

CloseInv ==
  /\ Closes(Outgoing) => state \in {"closing", "closed"}
  /\ \A s \in Senders : pc[s] = "push" => ~AfterClose(Outgoing, s)
  /\ FollowOK(Outgoing)
  /\ main \in {"refused", "opened"} => Silent

ConnectionInv ==
  /\ ConnectionTypeOK /\ OpInv /\ AliveInv
  /\ OneWriteAtATime /\ BatchInv /\ QueueIsServed /\ RegisterInv /\ CloseInv

-----------------------------------------------------------------------------
(* Sequences: queueing a message, splitting a queue into a batch and the    *)
(* rest, and joining what was sent, is being written and waits.             *)

LEMMA AppendFacts ==
  ASSUME NEW S, NEW q \in Seq(S), NEW m \in S
  PROVE  /\ Append(q, m) \in Seq(S) /\ Append(q, m) # <<>>
         /\ q # <<>> => Append(q, m)[1] = q[1]
         /\ q = <<>> => Append(q, m)[1] = m
  OBVIOUS

LEMMA SplitFacts ==
  ASSUME NEW S, NEW q \in Seq(S), NEW k \in 1..Len(q)
  PROVE  /\ SubSeq(q, 1, k) \in Seq(S) /\ SubSeq(q, k + 1, Len(q)) \in Seq(S)
         /\ SubSeq(q, 1, k) # <<>> /\ Len(SubSeq(q, 1, k)) = k
         /\ \A i \in 1..k : SubSeq(q, 1, k)[i] = q[i]
  OBVIOUS

LEMMA ConcatFacts ==
  ASSUME NEW S, NEW w \in Seq(S), NEW c \in Seq(S)
  PROVE  /\ w \o c \in Seq(S)
         /\ w # <<>> => w \o c # <<>> /\ (w \o c)[1] = w[1]
         /\ w = <<>> => w \o c = c
         /\ c # <<>> => w \o c # <<>>
  OBVIOUS

LEMMA PendingFacts ==
  ASSUME NEW S, NEW c \in Seq(S), NEW q \in Seq(S)
  PROVE  /\ \A m \in S : c \o Append(q, m) = Append(c \o q, m)
         /\ \A k \in 1..Len(q) : SubSeq(q, 1, k) \o SubSeq(q, k + 1, Len(q)) = q
         /\ <<>> \o q = q
  OBVIOUS

LEMMA BatchFacts ==
  ASSUME NEW S, NEW c \in Seq(S), NEW q \in Seq(S), c # <<>>
  PROVE  /\ Len(c) \in 1..Len(c \o q)
         /\ SubSeq(c \o q, 1, Len(c)) = c
         /\ SubSeq(c \o q, Len(c) + 1, Len(c \o q)) = q
         /\ \A i \in 1..Len(c) : (c \o q)[i] = c[i]
  OBVIOUS

LEMMA OutgoingFacts ==
  ASSUME NEW S, NEW w \in Seq(S), NEW c \in Seq(S), NEW q \in Seq(S)
  PROVE  /\ w \o c \o q \in Seq(S)
         /\ \A m \in S : w \o c \o Append(q, m) = Append(w \o c \o q, m)
         /\ (w \o c) \o <<>> \o q = w \o c \o q
         /\ w \o <<>> \o q = w \o q
  <1>1. w \o c \o q \in Seq(S) /\ w \o c \in Seq(S) /\ <<>> \in Seq(S)
    OBVIOUS
  <1>2. \A m \in S : w \o c \o Append(q, m) = Append(w \o c \o q, m)
    BY <1>1, PendingFacts
  <1>3. \A v \in Seq(S) : v \o <<>> = v
    OBVIOUS
  <1> QED BY <1>1, <1>2, <1>3

LEMMA TakenFacts ==
  ASSUME NEW S, NEW w \in Seq(S), NEW q \in Seq(S), NEW k \in 1..Len(q)
  PROVE  w \o SubSeq(q, 1, k) \o SubSeq(q, k + 1, Len(q)) = w \o <<>> \o q
  <1> DEFINE a == SubSeq(q, 1, k)
             b == SubSeq(q, k + 1, Len(q))
  <1>1. a \o b = q
    BY PendingFacts
  <1>2. a \in Seq(S)
    BY SplitFacts
  <1>3. b \in Seq(S)
    BY SplitFacts
  <1> HIDE DEF a, b
  <1>4. (w \o a) \o b = w \o (a \o b)
    BY <1>2, <1>3
  <1>5. w \o <<>> = w
    OBVIOUS
  <1> QED BY <1>1, <1>4, <1>5 DEF a, b

LEMMA MessageFacts ==
  /\ \A kind \in Kinds : OfMain(kind) \in Message
  /\ \A s \in Senders, n \in 0..MaxSends : Title(s, n) \in Message
  BY BoundsAssumption DEF Message, OfMain, Title, Kinds

-----------------------------------------------------------------------------
(* What a step can do to the messages: nothing, queue one, take a batch of  *)
(* them for writing, or end the write of a batch.                           *)

SameWrite == UNCHANGED writing /\ ("write" \in op' <=> "write" \in op)

Rests == UNCHANGED sendQueue /\ SameWrite

Queues(m) == sendQueue' = Append(sendQueue, m) /\ SameWrite

Takes(k) ==
  /\ ~writeFlag /\ writeFlag' = TRUE /\ "write" \in op'
  /\ currentMsgs' = SubSeq(sendQueue, 1, k)
  /\ sendQueue' = SubSeq(sendQueue, k + 1, Len(sendQueue))
  /\ UNCHANGED wire

\* Who queues m: Main a close frame, Main the registration or an answer in an
\* open connection, or a sender that is inside send.
Origin(m) ==
  \/ m.from = Main /\ IsClose(m) /\ state' = "closing" /\ UNCHANGED pc
  \/ m.from = Main /\ ~IsClose(m) /\ OnOpen
  \/ m.from = Main /\ ~IsClose(m) /\ state = "open" /\ UNCHANGED <<pc, state>>
  \/ \E s \in Senders : m = Title(s, sent[s]) /\ SendPush(s)

Queueing == \E m \in Message : Queues(m) /\ Origin(m)
Taking == \E k \in Batch(sendQueue) : Takes(k)
Ending == \E ok \in BOOLEAN : handle_write_frame(ok)

LEMMA QueueSteps ==
  ASSUME ConnectionTypeOK, OpInv, [Next]_vars
  PROVE  Rests \/ Queueing \/ Taking \/ Ending
  <1> USE DEF vars, connect, closing, queue, writing, senders, peer, Rests, SameWrite
  <1>1. ASSUME NEW m \in Message, Push(m), SameWrite, Origin(m)
        PROVE  Queueing
    BY <1>1 DEF Push, Queueing, Queues
  <1>2. \A kind \in Kinds :
          /\ OfMain(kind) \in Message /\ OfMain(kind).from = Main
          /\ IsClose(OfMain(kind)) <=> kind \in {"close", "fatal"}
    BY MessageFacts DEF OfMain, IsClose
  <1>3. CASE Connecting
    BY <1>3 DEF OpInv, Connecting, handle_connect_timeout, handle_resolve, handle_connect,
      handle_send_http_request, handle_read_http_response
  <1>12. CASE OpenAnyway
    BY <1>12 DEF OpenAnyway
  <1>4. CASE OnOpen
    <2>1. Push(OfMain("register")) /\ SameWrite
      BY <1>4 DEF OnOpen
    <2>2. OfMain("register") \in Message /\ Origin(OfMain("register"))
      BY <1>2, <1>4 DEF Origin, Kinds
    <2> QED BY <1>1, <2>1, <2>2
  <1>5. CASE Receive
    <2>1. ASSUME NEW kind \in {"title", "pong"}, Push(OfMain(kind)), SameWrite, state = "open",
                 UNCHANGED <<pc, state>>
          PROVE  Queueing
      <3>1. OfMain(kind) \in Message /\ Origin(OfMain(kind))
        BY <1>2, <2>1 DEF Origin, Kinds
      <3> QED BY <1>1, <2>1, <3>1
    <2>2. ASSUME NEW kind \in {"close", "fatal"}, send_close_frame(kind), SameWrite, UNCHANGED pc
          PROVE  Queueing
      <3>1. OfMain(kind) \in Message /\ Origin(OfMain(kind))
        BY <1>2, <2>2 DEF Origin, Kinds, send_close_frame
      <3> QED BY <1>1, <2>2, <3>1 DEF send_close_frame
    <2>3. ASSUME NEW answer \in BOOLEAN, DataFrame(answer) PROVE Rests \/ Queueing
      BY <2>1, <2>3 DEF DataFrame, NextFrame
    <2>4. CASE PingFrame
      BY <2>1, <2>4 DEF PingFrame, NextFrame
    <2>5. ASSUME NEW valid \in BOOLEAN, CloseFrame(valid) PROVE Rests \/ Queueing
      BY <2>2, <2>5 DEF CloseFrame, NextFrame
    <2>6. CASE BadFrame
      BY <2>2, <2>6 DEF BadFrame, NextFrame
    <2> QED BY <1>5, <2>3, <2>4, <2>5, <2>6 DEF Receive
  <1>6. CASE read_frame
    BY <1>6 DEF read_frame
  <1>7. CASE write_frame
    BY <1>7 DEF write_frame, Taking, Takes
  <1>8. ASSUME \/ \E response \in Responses : handle_read_http_response(response)
               \/ \E ok \in BOOLEAN : handle_read_frame(ok)
        PROVE  Rests
    BY <1>8 DEF OpInv, handle_read_http_response, handle_read_frame
  <1>9. CASE handle_handshake_timeout \/ Timers \/ PeerCloses \/ RunReturns
    BY <1>9 DEF handle_handshake_timeout, Timers, ConnectTimerExpires, HandshakeTimerExpires,
      PeerCloses, RunReturns
  <1>10. ASSUME NEW s \in Senders, Send(s) PROVE Rests \/ Queueing
    <2>1. Title(s, sent[s]) \in Message
      BY MessageFacts DEF ConnectionTypeOK
    <2>2. CASE SendPush(s)
      <3>1. Origin(Title(s, sent[s]))
        BY <2>2 DEF Origin
      <3> QED BY <2>1, <2>2, <3>1 DEF SendPush, Queueing, Queues
    <2> QED BY <1>10, <2>2 DEF Send, SendCheck, SendDispatch
  <1>11. CASE UNCHANGED vars
    BY <1>11
  <1> QED BY <1>3, <1>4, <1>5, <1>6, <1>7, <1>8, <1>9, <1>10, <1>11, <1>12 DEF Next, Ending

LEMMA ServedSend ==
  ASSUME ConnectionTypeOK, QueueIsServed, NEW s \in Senders, Send(s)
  PROVE  QueueIsServed'
  <1> USE DEF ConnectionTypeOK, QueueIsServed, writing
  <1>1. CASE SendCheck(s)
    BY <1>1 DEF SendCheck, queue
  <1>2. CASE SendPush(s)
    BY <1>2 DEF SendPush
  <1>3. CASE SendDispatch(s)
    BY <1>3 DEF SendDispatch
  <1> QED BY <1>1, <1>2, <1>3 DEF Send

LEMMA SendType ==
  ASSUME ConnectionTypeOK, NEW s \in Senders, Send(s)
  PROVE  /\ pc' \in [Senders -> {"idle", "push", "dispatch"}]
         /\ sent' \in [Senders -> 0..MaxSends]
  <1>1. sent[s] < MaxSends => sent[s] + 1 \in 0..MaxSends
    BY BoundsAssumption DEF ConnectionTypeOK
  <1> QED BY <1>1 DEF Send, SendCheck, SendPush, SendDispatch, ConnectionTypeOK

-----------------------------------------------------------------------------
(* Type correctness, and the states of a connection. Most leaves hold for   *)
(* all actions alike: these are expanded from here to the HIDE.             *)

USE DEF
  Next, Connecting, handle_connect_timeout, handle_resolve, handle_connect,
  handle_send_http_request, handle_read_http_response, OpenAnyway, OnOpen, Receive, NextFrame, DataFrame,
  PingFrame, CloseFrame, BadFrame, read_frame, write_frame, handle_read_frame,
  handle_write_frame, handle_handshake_timeout, Timers, ConnectTimerExpires,
  HandshakeTimerExpires, PeerCloses, RunReturns, Send, SendCheck, SendPush, SendDispatch,
  vars, connect, closing, queue, writing, senders, peer

LEMMA StateStep ==
  ASSUME ConnectionTypeOK, AliveInv, [Next]_vars
  PROVE  /\ state = "closed" => state' = "closed" \/ main = "refused"
         /\ main' = "refused" => main = "refused" \/ state = "connecting"
         /\ state = "closing" => state' \in {"closing", "closed"}
         /\ state' = "closing" => state \in {"open", "closing"}
         /\ state' = "open" => state = "open" \/ main' = "opened"
  <1>1. state = "closed" => state' = "closed" \/ main = "refused"
    BY DEF terminate, send_close_frame
  <1>5. main' = "refused" => main = "refused" \/ state = "connecting"
    OBVIOUS
  <1>2. state = "closing" => state' \in {"closing", "closed"}
    BY DEF terminate, send_close_frame, AliveInv
  <1>3. state' = "closing" => state \in {"open", "closing"}
    BY DEF terminate, send_close_frame, AliveInv, ConnectionTypeOK
  <1>4. state' = "open" => state = "open" \/ main' = "opened"
    BY DEF terminate, send_close_frame
  <1> QED BY <1>1, <1>2, <1>3, <1>4, <1>5

LEMMA TypeStep ==
  ASSUME ConnectionTypeOK, OpInv, [Next]_vars
  PROVE  ConnectionTypeOK'
  <1>1. sendQueue' \in Seq(Message) /\ currentMsgs' \in Seq(Message)
    <2>1. CASE Rests
      BY <2>1 DEF Rests, SameWrite, writing, ConnectionTypeOK
    <2>2. CASE Queueing
      <3>1. PICK m \in Message : Queues(m)
        BY <2>2 DEF Queueing
      <3> QED BY <3>1, AppendFacts DEF Queues, SameWrite, writing, ConnectionTypeOK
    <2>3. CASE Taking
      BY <2>3, SplitFacts DEF Taking, Takes, Batch, ConnectionTypeOK
    <2>4. CASE Ending
      BY <2>4 DEF Ending, handle_write_frame, ConnectionTypeOK
    <2> QED BY <2>1, <2>2, <2>3, <2>4, QueueSteps
  <1>2. wire' \in Seq(Message) /\ writeFlag' \in BOOLEAN
    <2>1. wire \o currentMsgs \in Seq(Message)
      BY ConcatFacts DEF ConnectionTypeOK
    <2> QED BY <2>1, QueueSteps DEF Rests, Queueing, Queues, SameWrite, writing, Taking, Takes,
          Ending, handle_write_frame, ConnectionTypeOK
  <1> USE DEF ConnectionTypeOK
  <1>3. /\ state' \in {"connecting", "open", "closing", "closed"}
        /\ handshakeTimer' \in {"off", "armed"}
    BY DEF terminate, send_close_frame
  <1>4. /\ internalState' \in {"USER_INIT", "WRITE_HTTP_REQUEST", "READ_HTTP_RESPONSE",
                               "PROCESS_CONNECTION"}
        /\ connectTimer' \in {"off", "armed", "expired"}
    OBVIOUS
  <1>5. timeouts' \in Nat
    BY DEF terminate, send_close_frame
  <1>6. posted' \in Nat
    BY DEF send_close_frame, Push
  <1>7. /\ op' \in SUBSET {"resolve", "connect", "request", "response", "read", "write"}
        /\ main' \in {"loop", "refused", "opened", "frames", "returned"}
    OBVIOUS
  <1>8. heard' \in BOOLEAN /\ peerUp' \in BOOLEAN /\ shut' \in BOOLEAN
    BY DEF terminate, send_close_frame
  <1>9. frames' \in Nat
    OBVIOUS
  <1>10. /\ pc' \in [Senders -> {"idle", "push", "dispatch"}]
         /\ sent' \in [Senders -> 0..MaxSends]
    <2>1. CASE UNCHANGED senders
      BY <2>1
    <2>2. ASSUME NEW s \in Senders, Send(s)
          PROVE  /\ pc' \in [Senders -> {"idle", "push", "dispatch"}]
                 /\ sent' \in [Senders -> 0..MaxSends]
      BY <2>2, SendType
    <2> QED BY <2>1, <2>2
  <1> QED BY <1>1, <1>2, <1>3, <1>4, <1>5, <1>6, <1>7, <1>8, <1>9, <1>10

-----------------------------------------------------------------------------
(* The event loop has something to wait for until the connection is closed. *)

LEMMA OpStep ==
  ASSUME ConnectionTypeOK, OpInv, AliveInv, [Next]_vars
  PROVE  OpInv'
  <1>1. CASE op \subseteq {"read", "write"}
    BY <1>1 DEF OpInv, AliveInv
  <1>2. CASE op \in {{"resolve"}, {"connect"}, {"request"}, {"response"}} /\ Silent
    BY <1>2 DEF OpInv, AliveInv, Silent
  <1> QED BY <1>1, <1>2 DEF OpInv

LEMMA AliveStep ==
  ASSUME ConnectionTypeOK, OpInv, AliveInv, OneWriteAtATime, [Next]_vars
  PROVE  AliveInv'
  <1> USE DEF AliveInv, terminate
  <1>1. (state = "connecting" => connectTimer # "off" \/ "request" \in op \/ "response" \in op)'
    BY DEF OpInv, send_close_frame
  <1>2. (state = "open" => main \in {"opened", "frames"} \/ "read" \in op)'
    <2>1. ASSUME state = "open", state' = "open", main \in {"opened", "frames"}
          PROVE  main' \in {"opened", "frames"} \/ "read" \in op'
      BY <2>1 DEF OpInv, InLoop, send_close_frame
    <2>2. ASSUME state = "open", state' = "open", "read" \in op
          PROVE  main' \in {"opened", "frames"} \/ "read" \in op'
      BY <2>2 DEF OpInv, send_close_frame
    <2> QED BY <2>1, <2>2, StateStep
  <1>3. (state = "closing" => handshakeTimer = "armed" \/ timeouts > 0)'
    BY DEF ConnectionTypeOK, send_close_frame
  <1>4. ("read" \in op \/ main \in {"opened", "frames"} => state # "connecting")'
    BY DEF OpInv, send_close_frame
  <1>5. (main \in {"opened", "frames"} => op \subseteq {"write"})'
    BY DEF OpInv
  <1>6. (main = "returned" => state = "closed" /\ "write" \notin op)'
    BY DEF OpInv, InLoop, Idle, ConnectionTypeOK
  <1>7. (main = "refused" => state = "closed" /\ op = {})'
    <2>1. ASSUME main = "refused", main' = "refused"
          PROVE  state' = "closed" /\ op' = {}
      <3>1. state = "closed" /\ op = {}
        BY <2>1
      <3>2. state' = "closed"
        BY <2>1, <3>1 DEF InLoop, send_close_frame
      <3>3. op' = {}
        BY <2>1, <3>1 DEF InLoop
      <3> QED BY <3>2, <3>3
    <2>2. ASSUME main # "refused", main' = "refused"
          PROVE  state' = "closed" /\ op' = {}
      <3>1. handle_read_http_response("badExtensions") /\ terminate
        BY <2>2 DEF Responses
      <3> QED BY <3>1
    <2> QED BY <2>1, <2>2
  <1> QED BY <1>1, <1>2, <1>3, <1>4, <1>5, <1>6, <1>7

-----------------------------------------------------------------------------
(* The queue while no write is under way, and before anything was sent.     *)

LEMMA ServedStep ==
  ASSUME ConnectionTypeOK, QueueIsServed, [Next]_vars
  PROVE  QueueIsServed'
  <1>1. ASSUME UNCHANGED pc PROVE QueueIsServed'
    BY <1>1 DEF QueueIsServed, ConnectionTypeOK, send_close_frame, Push
  <1>2. ASSUME NEW s \in Senders, Send(s) PROVE QueueIsServed'
    BY <1>2, ServedSend
  <1> QED BY <1>1, <1>2

LEMMA SilentStays ==
  ASSUME ConnectionTypeOK, OpInv, OneWriteAtATime, Silent, [Next]_vars, ~OnOpen
  PROVE  Silent'
  BY DEF Silent, OneWriteAtATime, ConnectionTypeOK

LEMMA SilentStep ==
  ASSUME ConnectionTypeOK, OpInv, OneWriteAtATime, Silent, [Next]_vars
  PROVE  Silent' \/ Oldest("register")'
  <1>1. CASE OnOpen
    <2>1. sendQueue' = <<OfMain("register")>>
      BY <1>1 DEF Silent, Push
    <2> QED BY <1>1, <2>1 DEF Silent, Oldest, OfMain
  <1>2. CASE ~OnOpen
    BY <1>2, SilentStays
  <1> QED BY <1>1, <1>2

-----------------------------------------------------------------------------
(* The open handler runs before anything was sent; only in an open          *)
(* connection does a sender get past the check of the state.                *)

LEMMA OpenedStep ==
  ASSUME ConnectionTypeOK, OpInv, OneWriteAtATime, CloseInv, [Next]_vars
  PROVE  main' \in {"refused", "opened"} => Silent'
  <1>1. main' \in {"refused", "opened"} => ~OnOpen
    OBVIOUS
  <1>2. main' \in {"refused", "opened"} => main \in {"refused", "opened"} \/ "response" \in op
    OBVIOUS
  <1> QED BY <1>1, <1>2, SilentStays DEF CloseInv, OpInv

LEMMA PcStep ==
  ASSUME ConnectionTypeOK, [Next]_vars, NEW s \in Senders, pc'[s] = "push"
  PROVE  pc[s] = "push" \/ state = "open"
  <1>1. ASSUME NEW t \in Senders, Send(t) PROVE pc[s] = "push" \/ state = "open"
    BY <1>1 DEF ConnectionTypeOK
  <1>2. CASE UNCHANGED pc
    BY <1>2
  <1> QED BY <1>1, <1>2

HIDE DEF
  Next, Connecting, handle_connect_timeout, handle_resolve, handle_connect,
  handle_send_http_request, handle_read_http_response, OpenAnyway, OnOpen, Receive, NextFrame, DataFrame,
  PingFrame, CloseFrame, BadFrame, read_frame, write_frame, handle_read_frame,
  handle_write_frame, handle_handshake_timeout, Timers, ConnectTimerExpires,
  HandshakeTimerExpires, PeerCloses, RunReturns, Send, SendCheck, SendPush, SendDispatch,
  vars, connect, closing, queue, writing, senders, peer

-----------------------------------------------------------------------------
(* The queue and the write under way.                                       *)

LEMMA BatchStep ==
  ASSUME ConnectionTypeOK, OpInv, BatchInv, [Next]_vars
  PROVE  BatchInv'
  <1>1. CASE Rests \/ Queueing
    BY <1>1 DEF Rests, Queueing, Queues, SameWrite, writing, BatchInv
  <1>2. CASE Taking
    <2>1. PICK k \in Batch(sendQueue) : Takes(k)
      BY <1>2 DEF Taking
    <2> QED BY <2>1, SplitFacts DEF Takes, Batch, BatchInv, ConnectionTypeOK
  <1>3. CASE Ending
    BY <1>3 DEF Ending, handle_write_frame, BatchInv
  <1> QED BY <1>1, <1>2, <1>3, QueueSteps

LEMMA WriteStep ==
  ASSUME ConnectionTypeOK, OpInv, AliveInv, OneWriteAtATime, CloseInv, [Next]_vars
  PROVE  OneWriteAtATime'
  <1>1. state = "closed" => state' = "closed" \/ Silent
    BY StateStep DEF CloseInv
  <1>2. CASE Rests \/ Queueing
    BY <1>1, <1>2 DEF Rests, Queueing, Queues, SameWrite, writing, OneWriteAtATime, Silent
  <1>3. CASE Taking
    <2>1. PICK k \in 1..Len(sendQueue) : Takes(k)
      BY <1>3 DEF Taking, Batch
    <2>2. sendQueue \in Seq(Message)
      BY DEF ConnectionTypeOK
    <2>3. currentMsgs' # <<>>
      BY <2>1, <2>2, SplitFacts DEF Takes
    <2> QED BY <2>1, <2>3 DEF Takes, OneWriteAtATime
  <1>4. CASE Ending
    BY <1>4 DEF Ending, handle_write_frame, terminate, OneWriteAtATime, closing
  <1> QED BY <1>2, <1>3, <1>4, QueueSteps

LEMMA RegisterStep ==
  ASSUME ConnectionTypeOK, OpInv, OneWriteAtATime, RegisterInv, [Next]_vars
  PROVE  RegisterInv'
  <1>1. CASE Silent
    BY <1>1, SilentStep DEF RegisterInv
  <1>2. CASE Mute
    <2>1. CASE Rests \/ Queueing
      BY <1>2, <2>1 DEF Rests, Queueing, Queues, SameWrite, writing, Mute, RegisterInv
    <2>2. CASE Taking
      BY <1>2, <2>2 DEF Taking, Takes, Mute
    <2>3. CASE Ending
      BY <1>2, <2>3 DEF Ending, handle_write_frame, Mute, OneWriteAtATime
    <2> QED BY <2>1, <2>2, <2>3, QueueSteps
  <1>3. CASE Oldest("register")
    <2>1. CASE Rests
      BY <1>3, <2>1 DEF Rests, SameWrite, writing, Oldest, RegisterInv
    <2>2. CASE Queueing
      <3>1. PICK m \in Message : Queues(m)
        BY <2>2 DEF Queueing
      <3> QED BY <1>3, <3>1, AppendFacts
            DEF Queues, SameWrite, writing, Oldest, RegisterInv, ConnectionTypeOK
    <2>3. CASE Taking
      <3>1. PICK k \in 1..Len(sendQueue) : Takes(k)
        BY <2>3 DEF Taking, Batch
      <3>2. currentMsgs' # <<>> /\ currentMsgs'[1] = sendQueue[1]
        <4>1. sendQueue \in Seq(Message) /\ 1 \in 1..k
          BY <3>1 DEF ConnectionTypeOK
        <4> QED BY <3>1, <4>1, SplitFacts DEF Takes
      <3>3. currentMsgs = <<>>
        BY <3>1 DEF Takes, OneWriteAtATime
      <3> QED BY <1>3, <3>1, <3>2, <3>3 DEF Takes, Oldest, RegisterInv
    <2>4. CASE Ending
      <3>1. PICK ok \in BOOLEAN : handle_write_frame(ok)
        BY <2>4 DEF Ending
      <3>2. currentMsgs # <<>> /\ currentMsgs' = <<>> /\ writeFlag
        BY <3>1 DEF handle_write_frame, OneWriteAtATime
      <3>3. CASE wire' = wire \o currentMsgs
        BY <1>3, <3>2, <3>3, ConcatFacts DEF Oldest, RegisterInv, ConnectionTypeOK
      <3>4. CASE ~ok
        BY <1>3, <3>1, <3>2, <3>4 DEF handle_write_frame, Oldest, Mute, RegisterInv
      <3> QED BY <3>1, <3>3, <3>4 DEF handle_write_frame
    <2> QED BY <2>1, <2>2, <2>3, <2>4, QueueSteps
  <1> QED BY <1>1, <1>2, <1>3 DEF RegisterInv

-----------------------------------------------------------------------------
(* What follows a close frame.                                              *)

LEMMA AppendFollows ==
  ASSUME NEW o \in Seq(Message), NEW m \in Message,
         FollowOK(o),
         m.from = Main \/ (m.from \in Senders /\ ~AfterClose(o, m.from)),
         m.from = Main => IsClose(m) \/ ~Closes(o)
  PROVE  /\ FollowOK(Append(o, m))
         /\ Closes(Append(o, m)) => Closes(o) \/ IsClose(m)
         /\ \A s \in Senders :
              AfterClose(Append(o, m), s) => AfterClose(o, s) \/ (Closes(o) /\ m.from = s)
  <1> DEFINE p == Append(o, m)
             n == Len(o) + 1
  <1>1. Len(p) = n /\ p[n] = m /\ \A i \in 1..Len(o) : p[i] = o[i]
    OBVIOUS
  <1>2. \A i \in 1..n : i \in 1..Len(o) \/ i = n
    OBVIOUS
  <1> HIDE DEF p, n
  <1>3. Closes(p) => Closes(o) \/ IsClose(m)
    BY <1>1, <1>2 DEF Closes
  <1>4. \A s \in Senders : AfterClose(p, s) => AfterClose(o, s) \/ (Closes(o) /\ m.from = s)
    BY <1>1, <1>2 DEF Closes, AfterClose, n
  <1>5. FollowOK(p)
    <2> SUFFICES ASSUME NEW i \in 1..n, NEW j \in 1..n,
                        i < j, IsClose(p[i]), ~IsClose(p[j])
                 PROVE  /\ p[j].from \in Senders
                        /\ \A k \in (i + 1)..n : p[k].from = p[j].from => k = j
      BY <1>1 DEF FollowOK
    <2>1. i \in 1..Len(o) /\ IsClose(o[i])
      BY <1>1, <1>2 DEF n
    <2>2. CASE j \in 1..Len(o)
      <3>1. o[j].from \in Senders /\ \A k \in (i + 1)..Len(o) : o[k].from = o[j].from => k = j
        BY <1>1, <2>1, <2>2 DEF FollowOK
      <3>2. m.from # o[j].from
        BY <2>1, <2>2, <3>1, ThreadsAssumption DEF AfterClose
      <3> QED BY <1>1, <1>2, <2>1, <2>2, <3>1, <3>2 DEF n
    <2>3. CASE j = n
      <3>1. Closes(o) /\ m.from \in Senders /\ ~AfterClose(o, m.from)
        BY <1>1, <2>1, <2>3 DEF Closes
      <3>2. \A k \in (i + 1)..Len(o) : o[k].from # m.from
        BY <2>1, <3>1 DEF AfterClose
      <3> QED BY <1>1, <1>2, <2>1, <2>3, <3>1, <3>2 DEF n
    <2> QED BY <1>2, <2>2, <2>3
  <1> QED BY <1>3, <1>4, <1>5 DEF p

LEMMA DropFollows ==
  ASSUME NEW w \in Seq(Message), NEW c \in Seq(Message), NEW q \in Seq(Message),
         FollowOK(w \o c \o q)
  PROVE  /\ FollowOK(w \o q)
         /\ Closes(w \o q) => Closes(w \o c \o q)
         /\ \A s \in Senders : AfterClose(w \o q, s) => AfterClose(w \o c \o q, s)
  <1> DEFINE o == w \o c \o q
             p == w \o q
             f(i) == IF i <= Len(w) THEN i ELSE i + Len(c)
  <1>1. \A i \in 1..Len(p) : f(i) \in 1..Len(o) /\ p[i] = o[f(i)]
    OBVIOUS
  <1>2. \A i, j \in 1..Len(p) : (i < j => f(i) < f(j)) /\ (f(i) = f(j) => i = j)
    OBVIOUS
  <1>3. Len(p) \in Nat /\ Len(o) \in Nat
    OBVIOUS
  <1> HIDE DEF o, p, f
  <1>4. Closes(p) => Closes(o)
    BY <1>1 DEF Closes
  <1>5. \A s \in Senders : AfterClose(p, s) => AfterClose(o, s)
    BY <1>1, <1>2 DEF AfterClose
  <1>6. FollowOK(p)
    <2> SUFFICES ASSUME NEW i \in 1..Len(p), NEW j \in 1..Len(p),
                        i < j, IsClose(p[i]), ~IsClose(p[j])
                 PROVE  /\ p[j].from \in Senders
                        /\ \A k \in (i + 1)..Len(p) : p[k].from = p[j].from => k = j
      BY DEF FollowOK
    <2>1. /\ o[f(j)].from \in Senders
          /\ \A k \in (f(i) + 1)..Len(o) : o[k].from = o[f(j)].from => k = f(j)
      BY <1>1, <1>2 DEF FollowOK, o
    <2>2. ASSUME NEW k \in (i + 1)..Len(p) PROVE f(k) \in (f(i) + 1)..Len(o) /\ k \in 1..Len(p)
      BY <1>1, <1>2, <1>3
    <2> QED BY <1>1, <1>2, <2>1, <2>2
  <1> QED BY <1>4, <1>5, <1>6 DEF o, p

LEMMA CloseStep ==
  ASSUME ConnectionTypeOK, OpInv, AliveInv, OneWriteAtATime, CloseInv, [Next]_vars
  PROVE  CloseInv'
  <1>1. /\ wire \in Seq(Message) /\ currentMsgs \in Seq(Message) /\ sendQueue \in Seq(Message)
        /\ Outgoing \in Seq(Message)
    BY OutgoingFacts DEF ConnectionTypeOK, Outgoing
  <1>2. (main \in {"refused", "opened"} => Silent)'
    BY OpenedStep
  <1>3. Closes(Outgoing) => state' \in {"closing", "closed"}
    <2>1. main = "refused" => Outgoing = <<>>
      BY DEF CloseInv, Silent, Outgoing
    <2>2. main = "refused" => ~Closes(Outgoing)
      BY <2>1 DEF Closes
    <2> QED BY <2>2, StateStep DEF CloseInv
  <1>4. CASE ~Queueing
    <2>1. /\ FollowOK(Outgoing')
          /\ Closes(Outgoing') => Closes(Outgoing)
          /\ \A s \in Senders : AfterClose(Outgoing', s) => AfterClose(Outgoing, s)
      <3>1. CASE Outgoing' = Outgoing
        BY <3>1 DEF CloseInv
      <3>2. CASE Rests
        BY <3>1, <3>2 DEF Rests, SameWrite, writing, Outgoing
      <3>3. CASE Taking
        <4>1. PICK k \in 1..Len(sendQueue) : Takes(k)
          BY <3>3 DEF Taking, Batch
        <4>2. currentMsgs = <<>>
          BY <4>1 DEF Takes, OneWriteAtATime
        <4>3. wire \o SubSeq(sendQueue, 1, k) \o SubSeq(sendQueue, k + 1, Len(sendQueue))
                = wire \o <<>> \o sendQueue
          BY <1>1, TakenFacts
        <4>4. Outgoing' = Outgoing
          BY <4>1, <4>2, <4>3 DEF Takes, Outgoing
        <4> QED BY <3>1, <4>4
      <3>4. CASE Ending
        <4>1. /\ currentMsgs' = <<>> /\ sendQueue' = sendQueue
              /\ wire' = wire \/ wire' = wire \o currentMsgs
          BY <3>4 DEF Ending, handle_write_frame
        <4>2. CASE wire' = wire \o currentMsgs
          <5>1. Outgoing' = (wire \o currentMsgs) \o <<>> \o sendQueue
            BY <4>1, <4>2 DEF Outgoing
          <5>2. Outgoing' = Outgoing
            BY <1>1, <5>1, OutgoingFacts DEF Outgoing
          <5> QED BY <3>1, <5>2
        <4>3. CASE wire' = wire
          <5>1. Outgoing' = wire \o <<>> \o sendQueue
            BY <4>1, <4>3 DEF Outgoing
          <5>2. Outgoing' = wire \o sendQueue
            BY <1>1, <5>1, OutgoingFacts
          <5> QED BY <1>1, <5>2, DropFollows DEF CloseInv, Outgoing
        <4> QED BY <4>1, <4>2, <4>3
      <3> QED BY <1>4, <3>2, <3>3, <3>4, QueueSteps
    <2>2. \A s \in Senders : pc'[s] = "push" => ~AfterClose(Outgoing', s)
      <3> SUFFICES ASSUME NEW s \in Senders, pc'[s] = "push" PROVE ~AfterClose(Outgoing, s)
        BY <2>1
      <3>1. pc[s] = "push" \/ state = "open"
        BY PcStep DEF ConnectionTypeOK
      <3>2. AfterClose(Outgoing, s) => Closes(Outgoing)
        BY DEF AfterClose, Closes
      <3> QED BY <3>1, <3>2 DEF CloseInv
    <2> QED BY <1>2, <1>3, <2>1, <2>2 DEF CloseInv
  <1>5. CASE Queueing
    <2>1. PICK m \in Message : Queues(m) /\ Origin(m)
      BY <1>5 DEF Queueing
    <2>2. Outgoing' = Append(Outgoing, m)
      BY <1>1, <2>1, OutgoingFacts DEF Queues, SameWrite, writing, Outgoing
    <2>3. CASE m.from = Main
      <3>1. ~IsClose(m) => ~Closes(Outgoing)
        <4>1. CASE OnOpen
          BY <4>1 DEF CloseInv, OnOpen, Silent, Outgoing, Closes
        <4>2. CASE state = "open"
          BY <4>2 DEF CloseInv
        <4>3. CASE \E s \in Senders : m = Title(s, sent[s])
          BY <2>3, <4>3, ThreadsAssumption DEF Title
        <4> QED BY <2>1, <4>1, <4>2, <4>3 DEF Origin
      <3>2. FollowOK(Outgoing')
        BY <1>1, <2>2, <2>3, <3>1, AppendFollows DEF CloseInv
      <3>3. Closes(Outgoing') => Closes(Outgoing) \/ state' = "closing"
        <4>1. IsClose(m) => state' = "closing"
          BY <2>1, <2>3, ThreadsAssumption DEF Origin, Title
        <4> QED BY <1>1, <2>2, <2>3, <3>1, <4>1, AppendFollows DEF CloseInv
      <3>4. \A s \in Senders : AfterClose(Outgoing', s) => AfterClose(Outgoing, s)
        BY <1>1, <2>2, <2>3, <3>1, AppendFollows, ThreadsAssumption DEF CloseInv
      <3>5. UNCHANGED pc
        BY <2>1, <2>3, ThreadsAssumption DEF Origin, Title, OnOpen, senders
      <3> QED BY <1>2, <1>3, <3>2, <3>3, <3>4, <3>5 DEF CloseInv
    <2>4. CASE m.from # Main
      <3>1. PICK s \in Senders : m = Title(s, sent[s]) /\ SendPush(s)
        BY <2>1, <2>4 DEF Origin
      <3>2. m.from = s /\ ~IsClose(m) /\ pc[s] = "push" /\ state' = state
        BY <3>1 DEF Title, IsClose, SendPush, closing
      <3>3. ~AfterClose(Outgoing, s)
        BY <3>2 DEF CloseInv
      <3>4. FollowOK(Outgoing') /\ (Closes(Outgoing') => Closes(Outgoing))
        BY <1>1, <2>2, <2>4, <3>2, <3>3, AppendFollows DEF CloseInv
      <3>5. \A t \in Senders : AfterClose(Outgoing', t) => AfterClose(Outgoing, t) \/ t = s
        BY <1>1, <2>2, <2>4, <3>2, <3>3, AppendFollows DEF CloseInv
      <3>6. \A t \in Senders : pc'[t] = "push" => pc[t] = "push" /\ t # s
        BY <3>1 DEF SendPush, ConnectionTypeOK
      <3> QED BY <1>2, <3>2, <3>4, <3>5, <3>6 DEF CloseInv
    <2> QED BY <2>3, <2>4
  <1> QED BY <1>4, <1>5

-----------------------------------------------------------------------------
(* The theorems.                                                            *)

LEMMA ConnectionInvHolds == Spec => []ConnectionInv
  <1>1. Init => ConnectionInv
    <2> SUFFICES ASSUME Init PROVE ConnectionInv
      OBVIOUS
    <2>1. ConnectionTypeOK
      <3>1. \A s \in Senders : sent[s] = 0 /\ 0 \in 0..MaxSends
        BY BoundsAssumption DEF Init
      <3>2. sent \in [Senders -> 0..MaxSends] /\ pc \in [Senders -> {"idle", "push", "dispatch"}]
        BY <3>1 DEF Init
      <3>3. <<>> \in Seq(Message)
        OBVIOUS
      <3> QED BY <3>2, <3>3 DEF Init, ConnectionTypeOK
    <2>2. Silent /\ OpInv /\ AliveInv
      BY DEF Init, Silent, OpInv, AliveInv
    <2>3. OneWriteAtATime /\ BatchInv /\ QueueIsServed /\ RegisterInv
      BY <2>2 DEF Init, OneWriteAtATime, BatchInv, QueueIsServed, RegisterInv
    <2>4. CloseInv
      BY DEF Init, CloseInv, Outgoing, Closes, AfterClose, FollowOK
    <2> QED BY <2>1, <2>2, <2>3, <2>4 DEF ConnectionInv
  <1>2. ConnectionInv /\ [Next]_vars => ConnectionInv'
    BY TypeStep, OpStep, AliveStep, WriteStep, BatchStep, ServedStep, RegisterStep,
      CloseStep
      DEF ConnectionInv
  <1> QED BY <1>1, <1>2, PTL DEF Spec

\* Every variable of the connection keeps its type.
THEOREM TypeCorrect == Spec => []ConnectionTypeOK
  BY ConnectionInvHolds, PTL DEF ConnectionInv

\* There is one write at a time, with messages to write, until the end.
THEOREM OneWrite == Spec => []OneWriteAtATime
  BY ConnectionInvHolds, PTL DEF ConnectionInv

\* However sends and writes interleave, a waiting message has a call of
\* write_frame coming, or the handler of the write under way.
THEOREM Served == Spec => []QueueIsServed
  BY ConnectionInvHolds, PTL DEF ConnectionInv

\* Stream Deck hears the registration of the plugin before anything else.
THEOREM RegisterIsFirst == Spec => []RegistersFirst
  <1>1. ConnectionInv => RegistersFirst
    BY DEF ConnectionInv, RegisterInv, RegistersFirst, Silent, Mute, Oldest
  <1> QED BY <1>1, ConnectionInvHolds, PTL

\* A close frame is followed by nothing but messages whose senders were past
\* the check of the state when it was queued, one of each.
THEOREM OnlyUnderWayFollows == Spec => []OnlySendsUnderWayFollowClose
  <1>1. ConnectionInv => OnlySendsUnderWayFollowClose
    BY DEF ConnectionInv, CloseInv, FollowOK, OnlySendsUnderWayFollowClose
  <1> QED BY <1>1, ConnectionInvHolds, PTL

\* Run does not return under a connection that is not closed.
THEOREM RunOutlives == Spec => []RunOutlivesConnection
  <1>1. ConnectionInv => RunOutlivesConnection
    BY DEF ConnectionInv, AliveInv, RunOutlivesConnection
  <1> QED BY <1>1, ConnectionInvHolds, PTL

\* No connection comes back from closed or from closing, but for the one way
\* out of closed that OpenAnyway is, which is taken only by the handler that has
\* ended an attempt itself.
THEOREM StateAdvances == Spec => StateOnlyAdvances
  <1>1. ConnectionInv /\ [Next]_vars =>
          [ /\ state = "closed" => state' = "closed" \/ main = "refused"
            /\ main' = "refused" => main = "refused" \/ state = "connecting"
            /\ state = "closing" => state' \in {"closing", "closed"}
            /\ state' = "closing" => state \in {"open", "closing"} ]_vars
    BY StateStep DEF ConnectionInv
  <1> QED BY <1>1, ConnectionInvHolds, PTL DEF Spec, StateOnlyAdvances

-----------------------------------------------------------------------------
(* The connection implements SendChannel: queueing accepts a message, the   *)
(* end of a write transmits the batch or breaks the channel, and starting a *)
(* write moves messages within what is pending.                             *)

LEMMA ChannelStep ==
  ASSUME ConnectionInv, [Next]_vars
  PROVE  [Channel!Next]_(Channel!channelVars)
  <1> USE DEF Channel!Next, Channel!channelVars
  <1>1. /\ sendQueue \in Seq(Message) /\ currentMsgs \in Seq(Message) /\ wire \in Seq(Message)
        /\ OneWriteAtATime /\ BatchInv
    BY DEF ConnectionInv, ConnectionTypeOK
  <1>2. CASE Rests
    BY <1>2 DEF Rests, SameWrite, writing
  <1>3. CASE Queueing
    <2>1. PICK m \in Message : Queues(m)
      BY <1>3 DEF Queueing
    <2>2. currentMsgs' \o sendQueue' = Append(currentMsgs \o sendQueue, m)
      BY <1>1, <2>1, PendingFacts DEF Queues, SameWrite, writing
    <2>3. Channel!Accept(m)
      BY <2>1, <2>2 DEF Channel!Accept, Queues, SameWrite, writing
    <2> QED BY <2>3
  <1>4. CASE Taking
    <2>1. PICK k \in 1..Len(sendQueue) : Takes(k)
      BY <1>4 DEF Taking, Batch
    <2>2. currentMsgs = <<>>
      BY <1>1, <2>1 DEF Takes, OneWriteAtATime
    <2>3. currentMsgs' \o sendQueue' = currentMsgs \o sendQueue
      BY <1>1, <2>1, <2>2, PendingFacts DEF Takes
    <2> QED BY <2>1, <2>3 DEF Takes
  <1>5. CASE Ending
    <2>1. PICK ok \in BOOLEAN : handle_write_frame(ok)
      BY <1>5 DEF Ending
    <2> DEFINE k == Len(currentMsgs)
               pending == currentMsgs \o sendQueue
    <2>2. currentMsgs # <<>> /\ writeFlag /\ "write" \in op
      BY <1>1, <2>1 DEF handle_write_frame, OneWriteAtATime
    <2>3. currentMsgs' \o sendQueue' = SubSeq(pending, k + 1, Len(pending))
      BY <1>1, <2>1, <2>2, BatchFacts, PendingFacts DEF handle_write_frame
    <2>4. k \in 1..Len(pending)
      BY <1>1, <2>2, BatchFacts
    <2>5. CASE ok
      <3>1. \A i \in 1..(k - 1) : ~Terminal(pending[i])
        BY <1>1, <2>2, BatchFacts DEF BatchInv
      <3>2. pending[k] = currentMsgs[k] /\ wire' = wire \o SubSeq(pending, 1, k)
        BY <1>1, <2>1, <2>2, <2>5, BatchFacts DEF handle_write_frame
      <3>3. pending \in Seq(Message) /\ \A i \in 1..k : pending[i] \in Message
        BY <1>1, <2>4, ConcatFacts
      <3>4. (writeFlag' /\ "write" \notin op') <=> Terminal(pending[k])
        BY <2>1, <2>2, <2>5, <3>2 DEF handle_write_frame
      <3>5. Channel!Transmit(k)
        BY <2>2, <2>3, <2>4, <3>1, <3>2, <3>3, <3>4 DEF Channel!Transmit
      <3> QED BY <2>4, <3>5
    <2>6. CASE ~ok
      <3>1. Channel!Break(k)
        BY <2>1, <2>2, <2>3, <2>6 DEF Channel!Break, handle_write_frame
      <3> QED BY <2>4, <3>1
    <2> QED BY <2>5, <2>6
  <1> QED BY <1>2, <1>3, <1>4, <1>5, QueueSteps DEF ConnectionInv

\* Messages reach Stream Deck in the order of their acceptance, none twice
\* and none left out, until the connection breaks or a final message went out.
THEOREM Implements == Spec => KeepsOrder
  <1>1. Init => Channel!Init
    BY PendingFacts DEF Init, Channel!Init
  <1>2. ConnectionInv /\ [Next]_vars => [Channel!Next]_(Channel!channelVars)
    BY ChannelStep
  <1> QED BY <1>1, <1>2, ConnectionInvHolds, PTL DEF Spec, KeepsOrder, Channel!Spec

=============================================================================
