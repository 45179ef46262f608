----------------------------- MODULE Connection -----------------------------
(* The websocket connection to Stream Deck: the client connection of        *)
(* websocketpp on asio, as ESDConnectionManager uses it. Main runs the      *)
(* event loop; the workers of the buttons send on their own threads.        *)
(*                                                                          *)
(* Each handler of the event loop is one step of Main, except that a read   *)
(* is one step per frame in it. What a sender does in one critical section  *)
(* is one step. Timers and the peer take steps of their own.                *)
EXTENDS Naturals, Sequences, FiniteSets

CONSTANTS
  Senders,    \* the threads that send beside Main
  Main,
  MaxSends,   \* bound: messages per sender
  MaxFrames   \* bound: frames received

ASSUME ThreadsAssumption == Main \notin Senders
ASSUME BoundsAssumption == MaxSends \in Nat /\ MaxFrames \in Nat

VARIABLES
  state,           \* m_state
  internalState,   \* m_internal_state
  connectTimer,    \* the timer of the name resolution, then of the TCP connect
  handshakeTimer,  \* m_handshake_timer runs
  timeouts,        \* handshake timers that nothing can cancel any more
  shut,            \* the socket has been shut down
  sendQueue,       \* m_send_queue
  currentMsgs,     \* m_current_msgs
  writeFlag,       \* m_write_flag
  posted,          \* calls of write_frame in the queue of the event loop
  op,              \* asynchronous operations of the socket under way
  main,            \* where Main is: in the loop, in a handler, or out of Run
  pc,              \* pc[s]: where the sender s is in send
  sent,            \* sent[s]: calls of send that s has made
  heard,           \* a message was received: from now on there may be workers
  wire,            \* what the peer has received
  peerUp,          \* the peer has not closed its end
  frames           \* frames received

connect == <<internalState, connectTimer>>
closing == <<state, handshakeTimer, timeouts, shut>>
queue == <<sendQueue, posted>>
writing == <<currentMsgs, writeFlag, wire>>
senders == <<pc, sent>>
peer == <<peerUp, frames>>
vars == <<connect, closing, queue, writing, op, main, senders, heard, peer>>

-----------------------------------------------------------------------------
(* Messages.                                                                *)

Kinds == {"register", "title", "pong", "close", "fatal"}
Message == [from : Senders \cup {Main}, kind : Kinds, n : 0..MaxSends]

Title(s, n) == [from |-> s, kind |-> "title", n |-> n]
OfMain(kind) == [from |-> Main, kind |-> kind, n |-> 0]

\* get_terminal: the close frame that answers a protocol error.
Terminal(m) == m.kind = "fatal"
IsClose(m) == m.kind \in {"close", "fatal"}

-----------------------------------------------------------------------------
(* Run, up to the loop: everything else happens in handlers.                *)

Init ==
  /\ state = "connecting" /\ internalState = "USER_INIT"
  /\ connectTimer = "armed" /\ handshakeTimer = "off" /\ timeouts = 0
  /\ shut = FALSE
  /\ sendQueue = <<>> /\ currentMsgs = <<>> /\ writeFlag = FALSE /\ posted = 0
  /\ op = {"resolve"} /\ main = "loop"
  /\ pc = [s \in Senders |-> "idle"] /\ sent = [s \in Senders |-> 0]
  /\ heard = FALSE /\ wire = <<>> /\ peerUp = TRUE /\ frames = 0

(* What several handlers do.                                                *)

\* write_push and, unless a write is under way, a call of write_frame.
Push(m) ==
  /\ sendQueue' = Append(sendQueue, m)
  /\ posted' = IF writeFlag THEN posted ELSE posted + 1

\* The shutdown of a plain socket is synchronous, and the handlers for failed
\* and closed connections only print. A handshake timer that has expired is
\* not cancelled by cancelling it.
terminate ==
  /\ state' = "closed"
  /\ handshakeTimer' = "off"
  /\ shut' = TRUE
  /\ UNCHANGED timeouts

\* Fault: no timer waits for the end of the close handshake.
CloseWithoutTimer(kind) ==
  /\ state' = "closing"
  /\ UNCHANGED <<handshakeTimer, timeouts, shut>>
  /\ Push(OfMain(kind))

\* A second close frame starts a second timer; the first runs on, but
\* m_handshake_timer does not lead to it any more.
send_close_frame(kind) ==
  /\ state' = "closing"
  /\ handshakeTimer' = "armed"
  /\ timeouts' = IF handshakeTimer = "armed" THEN timeouts + 1 ELSE timeouts
  /\ UNCHANGED shut
  /\ Push(OfMain(kind))

-----------------------------------------------------------------------------
(* Connecting.                                                              *)

InLoop == main = "loop"

\* The timer comes first when its time has passed, whatever the operation did.
handle_resolve(ok) ==
  /\ InLoop /\ "resolve" \in op
  /\ IF connectTimer # "armed"
       THEN op' = {} /\ UNCHANGED <<closing, connectTimer>>
     ELSE IF ok
       THEN op' = {"connect"} /\ UNCHANGED <<closing, connectTimer>>
     ELSE op' = {} /\ connectTimer' = "off" /\ terminate
  /\ UNCHANGED <<internalState, queue, writing, main, senders, heard, peer>>

\* client::handle_connect calls start, which goes on to send_http_request.
handle_connect(ok) ==
  /\ InLoop /\ "connect" \in op
  /\ IF connectTimer # "armed"
       THEN op' = {} /\ UNCHANGED <<closing, connect>>
     ELSE /\ connectTimer' = "off"
          /\ IF ok /\ internalState = "USER_INIT"
               THEN /\ op' = {"request"} /\ internalState' = "WRITE_HTTP_REQUEST"
                    /\ handshakeTimer' = "armed"
                    /\ UNCHANGED <<state, timeouts, shut>>
               ELSE op' = {} /\ terminate /\ UNCHANGED internalState
  /\ UNCHANGED <<queue, writing, main, senders, heard, peer>>

\* handle_resolve_timeout and handle_connect_timeout. The operation is
\* cancelled and its handler still to come.
handle_connect_timeout ==
  /\ InLoop /\ connectTimer = "expired"
  /\ connectTimer' = "off"
  /\ terminate
  /\ UNCHANGED <<internalState, queue, writing, op, main, senders, heard, peer>>

handle_send_http_request(ok) ==
  /\ InLoop /\ "request" \in op
  /\ IF ok /\ state = "connecting" /\ internalState = "WRITE_HTTP_REQUEST"
       THEN op' = {"response"} /\ internalState' = "READ_HTTP_RESPONSE" /\ UNCHANGED closing
     ELSE /\ op' = {} /\ UNCHANGED internalState
          /\ IF state = "closed" THEN UNCHANGED closing ELSE terminate
  /\ UNCHANGED <<connectTimer, queue, writing, main, senders, heard, peer>>

Responses == {"valid", "badExtensions", "invalid"}

\* Fault: an answer is taken though the attempt was given up meanwhile.
AcceptLateResponse(response) ==
  /\ InLoop /\ "response" \in op
  /\ response # "invalid" => peerUp
  /\ op' = {}
  /\ IF response = "valid"
       THEN /\ state' = "open" /\ internalState' = "PROCESS_CONNECTION"
            /\ handshakeTimer' = "off" /\ main' = "opened"
            /\ UNCHANGED <<timeouts, shut>>
     ELSE terminate /\ UNCHANGED <<internalState, main>>
  /\ UNCHANGED <<connectTimer, queue, writing, senders, heard, peer>>

\* A response without a valid handshake, or an error ("invalid"), ends the
\* attempt. So does a Sec-WebSocket-Extensions header that cannot be parsed, but
\* then the handler goes on: OpenAnyway. A response that is not complete yet is
\* read on.
handle_read_http_response(response) ==
  /\ InLoop /\ "response" \in op
  /\ response # "invalid" => peerUp
  /\ op' = {}
  /\ LET expected == state = "connecting" /\ internalState = "READ_HTTP_RESPONSE" IN
     \/ /\ expected /\ response = "valid"
        /\ state' = "open" /\ internalState' = "PROCESS_CONNECTION"
        /\ handshakeTimer' = "off" /\ main' = "opened"
        /\ UNCHANGED <<timeouts, shut>>
     \/ /\ expected /\ response = "badExtensions"
        /\ terminate /\ main' = "refused"
        /\ UNCHANGED internalState
     \/ /\ ~expected \/ response = "invalid"
        /\ IF state = "closed" THEN UNCHANGED closing ELSE terminate
        /\ UNCHANGED <<internalState, main>>
  /\ UNCHANGED <<connectTimer, queue, writing, senders, heard, peer>>

\* There is no return after that call of terminate: the connection is open again,
\* on a socket that has been shut down.
OpenAnyway ==
  /\ main = "refused" /\ main' = "opened"
  /\ state' = "open" /\ internalState' = "PROCESS_CONNECTION"
  /\ UNCHANGED <<connectTimer, handshakeTimer, timeouts, shut, queue, writing, op, senders,
                 heard, peer>>

\* Fault: frames that came with the response are looked at before the open
\* handler has run.
OpenAfterFrames ==
  /\ \/ main = "opened" /\ main' = "frames" /\ UNCHANGED queue
     \/ main = "frames" /\ sendQueue # <<>> /\ UNCHANGED main /\ Push(OfMain("register"))
  /\ UNCHANGED <<connect, closing, writing, op, senders, heard, peer>>

\* The rest of handle_read_http_response: the open handler, then the frames
\* that came with the response.
OnOpen ==
  /\ main = "opened" /\ main' = "frames"
  /\ Push(OfMain("register"))
  /\ UNCHANGED <<connect, closing, writing, op, senders, heard, peer>>

-----------------------------------------------------------------------------
(* The socket: a read ends with data while the peer is there, and with eof  *)
(* or an error once either end is shut down. What was started before may    *)
(* still succeed then; that what is started later may succeed as well       *)
(* allows more than TCP does.                                               *)

Broken == ~peerUp \/ shut

(* Receiving. Main is at "frames" while it works through what was read.     *)

\* Fault: the end of the stream is ignored in an open connection as well.
IgnoreEndOfStream(ok) ==
  /\ InLoop /\ "read" \in op /\ IF ok THEN peerUp ELSE Broken
  /\ op' = op \ {"read"}
  /\ IF ok
       THEN main' = "frames" /\ UNCHANGED closing
     ELSE /\ UNCHANGED main
          /\ IF state # "closing" THEN UNCHANGED closing ELSE terminate
  /\ UNCHANGED <<connect, queue, writing, senders, heard, peer>>

handle_read_frame(ok) ==
  /\ InLoop /\ "read" \in op /\ IF ok THEN peerUp ELSE Broken
  /\ op' = op \ {"read"}
  /\ IF ok
       THEN main' = "frames" /\ UNCHANGED closing
     ELSE /\ UNCHANGED main
          /\ IF state = "closed" THEN UNCHANGED closing ELSE terminate
  /\ UNCHANGED <<connect, queue, writing, senders, heard, peer>>

NextFrame ==
  /\ main = "frames" /\ frames < MaxFrames
  /\ frames' = frames + 1
  /\ UNCHANGED <<connect, writing, op, senders, peerUp>>

\* A text message goes to OnMessage, which may send a title itself.
DataFrame(answer) ==
  /\ NextFrame
  /\ IF state = "open"
       THEN heard' = TRUE /\ IF answer THEN Push(OfMain("title")) ELSE UNCHANGED queue
     ELSE UNCHANGED <<heard, queue>>
  /\ UNCHANGED <<main, closing>>

PingFrame ==
  /\ NextFrame
  /\ IF state = "open" THEN Push(OfMain("pong")) ELSE UNCHANGED queue
  /\ UNCHANGED <<main, closing, heard>>

\* process_control_frame for a close frame; only the code of a valid one is
\* looked at together with the state.
CloseFrame(valid) ==
  /\ NextFrame
  /\ IF state = "open" \/ (~valid /\ state # "closed")
       THEN send_close_frame("close")
     ELSE UNCHANGED <<queue, closing>>
  /\ UNCHANGED <<main, heard>>

\* consume reports an error: a close frame that is the last thing to be sent,
\* or the end. Either way nothing is read any more.
BadFrame ==
  /\ NextFrame
  /\ IF state = "open" THEN send_close_frame("fatal")
                       ELSE terminate /\ UNCHANGED queue
  /\ main' = "loop"
  /\ UNCHANGED heard

read_frame ==
  /\ main = "frames" /\ main' = "loop"
  /\ op' = op \cup {"read"}
  /\ UNCHANGED <<connect, closing, queue, writing, senders, heard, peer>>

-----------------------------------------------------------------------------
(* Sending.                                                                 *)

\* Fault: send does not look at the state.
SendWithoutCheck(s) ==
  /\ heard /\ pc[s] = "idle" /\ sent[s] < MaxSends
  /\ sent' = [sent EXCEPT ![s] = @ + 1]
  /\ pc' = [pc EXCEPT ![s] = "push"]
  /\ UNCHANGED <<connect, closing, queue, writing, op, main, heard, peer>>

\* send first looks at the state under m_connection_state_lock ...
SendCheck(s) ==
  /\ heard /\ pc[s] = "idle" /\ sent[s] < MaxSends
  /\ sent' = [sent EXCEPT ![s] = @ + 1]
  /\ pc' = [pc EXCEPT ![s] = IF state = "open" THEN "push" ELSE "idle"]
  /\ UNCHANGED <<connect, closing, queue, writing, op, main, heard, peer>>

\* Fault: whether to write is decided before the message is in the queue.
DecideThenPush(s) ==
  /\ pc[s] = "push"
  /\ sendQueue' = Append(sendQueue, Title(s, sent[s]))
  /\ pc' = [pc EXCEPT ![s] = IF writeFlag \/ sendQueue = <<>> THEN "idle" ELSE "dispatch"]
  /\ UNCHANGED <<connect, closing, posted, writing, op, main, sent, heard, peer>>

\* ... then queues the message under m_write_lock ...
SendPush(s) ==
  /\ pc[s] = "push"
  /\ sendQueue' = Append(sendQueue, Title(s, sent[s]))
  /\ pc' = [pc EXCEPT ![s] = IF writeFlag THEN "idle" ELSE "dispatch"]
  /\ UNCHANGED <<connect, closing, posted, writing, op, main, sent, heard, peer>>

\* ... and under no lock posts write_frame.
SendDispatch(s) ==
  /\ pc[s] = "dispatch"
  /\ posted' = posted + 1
  /\ pc' = [pc EXCEPT ![s] = "idle"]
  /\ UNCHANGED <<connect, closing, sendQueue, writing, op, main, sent, heard, peer>>

\* Fault: everything is taken, past a terminal message too.
WholeQueue(q) == {Len(q)}

\* How many messages write_frame takes: all, or up to the first terminal one.
Batch(q) == {k \in 1..Len(q) :
  /\ \A i \in 1..(k - 1) : ~Terminal(q[i])
  /\ k = Len(q) \/ Terminal(q[k])}

\* Fault: a write is started though another call has taken the messages.
WriteNothing ==
  /\ InLoop /\ posted > 0
  /\ posted' = posted - 1
  /\ IF writeFlag
       THEN UNCHANGED <<sendQueue, currentMsgs, writeFlag, op>>
     ELSE /\ currentMsgs' = sendQueue
          /\ sendQueue' = <<>>
          /\ writeFlag' = TRUE
          /\ op' = op \cup {"write"}
  /\ UNCHANGED <<connect, closing, wire, main, senders, heard, peer>>

write_frame ==
  /\ InLoop /\ posted > 0
  /\ posted' = posted - 1
  /\ IF writeFlag \/ sendQueue = <<>>
       THEN UNCHANGED <<sendQueue, currentMsgs, writeFlag, op>>
     ELSE \E k \in Batch(sendQueue) :
       /\ currentMsgs' = SubSeq(sendQueue, 1, k)
       /\ sendQueue' = SubSeq(sendQueue, k + 1, Len(sendQueue))
       /\ writeFlag' = TRUE
       /\ op' = op \cup {"write"}
  /\ UNCHANGED <<connect, closing, wire, main, senders, heard, peer>>

\* Fault: the handler of a write leaves what was queued meanwhile.
WriteOnce(ok) ==
  /\ InLoop /\ "write" \in op /\ (ok \/ Broken)
  /\ op' = op \ {"write"}
  /\ wire' = IF ok THEN wire \o currentMsgs ELSE wire
  /\ currentMsgs' = <<>>
  /\ IF ok /\ ~Terminal(currentMsgs[Len(currentMsgs)])
       THEN writeFlag' = FALSE /\ UNCHANGED <<posted, closing>>
     ELSE /\ IF state = "closed" THEN UNCHANGED closing ELSE terminate
          /\ UNCHANGED <<writeFlag, posted>>
  /\ UNCHANGED <<connect, sendQueue, main, senders, heard, peer>>

\* After an error and after a terminal message the flag stays set.
handle_write_frame(ok) ==
  /\ InLoop /\ "write" \in op /\ (ok \/ Broken)
  /\ op' = op \ {"write"}
  /\ wire' = IF ok THEN wire \o currentMsgs ELSE wire
  /\ currentMsgs' = <<>>
  /\ IF ok /\ ~Terminal(currentMsgs[Len(currentMsgs)])
       THEN /\ writeFlag' = FALSE
            /\ posted' = IF sendQueue # <<>> THEN posted + 1 ELSE posted
            /\ UNCHANGED closing
     ELSE /\ IF state = "closed" THEN UNCHANGED closing ELSE terminate
          /\ UNCHANGED <<writeFlag, posted>>
  /\ UNCHANGED <<connect, sendQueue, main, senders, heard, peer>>

-----------------------------------------------------------------------------
(* Time and the peer.                                                       *)

ConnectTimerExpires ==
  /\ connectTimer = "armed" /\ connectTimer' = "expired"
  /\ UNCHANGED <<internalState, closing, queue, writing, op, main, senders, heard, peer>>

HandshakeTimerExpires ==
  /\ handshakeTimer = "armed" /\ handshakeTimer' = "off"
  /\ timeouts' = timeouts + 1
  /\ UNCHANGED <<connect, state, shut, queue, writing, op, main, senders, heard, peer>>

\* handle_open_handshake_timeout and handle_close_handshake_timeout.
handle_handshake_timeout ==
  /\ InLoop /\ timeouts > 0
  /\ timeouts' = timeouts - 1
  /\ state' = "closed" /\ handshakeTimer' = "off" /\ shut' = TRUE
  /\ UNCHANGED <<connect, queue, writing, op, main, senders, heard, peer>>

PeerCloses ==
  /\ peerUp /\ peerUp' = FALSE
  /\ UNCHANGED <<connect, closing, queue, writing, op, main, senders, heard, frames>>

\* io_service::run returns when there is nothing left to wait for.
Idle ==
  /\ op = {} /\ posted = 0 /\ timeouts = 0
  /\ handshakeTimer = "off" /\ connectTimer = "off"

RunReturns ==
  /\ InLoop /\ Idle /\ main' = "returned"
  /\ UNCHANGED <<connect, closing, queue, writing, op, senders, heard, peer>>

-----------------------------------------------------------------------------
Receive ==
  \/ \E answer \in BOOLEAN : DataFrame(answer)
  \/ PingFrame
  \/ \E valid \in BOOLEAN : CloseFrame(valid)
  \/ BadFrame

Connecting ==
  \/ handle_connect_timeout
  \/ \E ok \in BOOLEAN : \/ handle_resolve(ok) \/ handle_connect(ok)
                        \/ handle_send_http_request(ok)
  \/ handle_read_http_response("invalid") /\ Broken

Send(s) == SendCheck(s) \/ SendPush(s) \/ SendDispatch(s)

Timers == ConnectTimerExpires \/ HandshakeTimerExpires

Next ==
  \/ Connecting \/ OpenAnyway \/ OnOpen \/ Receive \/ read_frame \/ write_frame
  \/ \E response \in Responses : handle_read_http_response(response)
  \/ \E ok \in BOOLEAN : handle_read_frame(ok) \/ handle_write_frame(ok)
  \/ handle_handshake_timeout \/ Timers \/ PeerCloses \/ RunReturns
  \/ \E s \in Senders : Send(s)

Spec == Init /\ [][Next]_vars

\* Main never blocks in a handler, and the loop takes its events in the order
\* in which they happen, so that none waits for ever behind others. Timers
\* expire; a thread that is inside send goes on. Nobody has to send, and the
\* peer has neither to send nor to close, but it takes what is written.
Fairness ==
  /\ WF_vars(Connecting) /\ WF_vars(OpenAnyway \/ OnOpen) /\ WF_vars(read_frame) /\ WF_vars(RunReturns)
  /\ SF_vars(handle_handshake_timeout)
  /\ SF_vars(write_frame) /\ SF_vars(\E ok \in BOOLEAN : handle_write_frame(ok))
  /\ SF_vars(handle_read_frame(FALSE))
  /\ WF_vars(ConnectTimerExpires) /\ WF_vars(HandshakeTimerExpires)
  /\ \A s \in Senders : WF_vars(SendPush(s) \/ SendDispatch(s))

FairSpec == Spec /\ Fairness

-----------------------------------------------------------------------------
(* Properties.                                                              *)

\* Type invariant.
ConnectionTypeOK ==
  /\ state \in {"connecting", "open", "closing", "closed"}
  /\ internalState \in {"USER_INIT", "WRITE_HTTP_REQUEST", "READ_HTTP_RESPONSE",
                        "PROCESS_CONNECTION"}
  /\ connectTimer \in {"off", "armed", "expired"}
  /\ handshakeTimer \in {"off", "armed"}
  /\ writeFlag \in BOOLEAN /\ shut \in BOOLEAN
  /\ heard \in BOOLEAN /\ peerUp \in BOOLEAN
  /\ timeouts \in Nat /\ posted \in Nat /\ frames \in Nat
  /\ sendQueue \in Seq(Message) /\ currentMsgs \in Seq(Message) /\ wire \in Seq(Message)
  /\ op \in SUBSET {"resolve", "connect", "request", "response", "read", "write"}
  /\ main \in {"loop", "refused", "opened", "frames", "returned"}
  /\ pc \in [Senders -> {"idle", "push", "dispatch"}]
  /\ sent \in [Senders -> 0..MaxSends]

\* There is one write at a time, and it has the messages it needs: the
\* handler of a write finds m_current_msgs filled (its back() is asked for
\* without a test), and the flag says that there is a write under way unless
\* the connection is closed.
OneWriteAtATime ==
  /\ "write" \in op <=> currentMsgs # <<>>
  /\ "write" \in op => writeFlag
  /\ writeFlag /\ "write" \notin op => state = "closed"

\* No wakeup is lost: while a message waits and no write is under way whose
\* handler would see it, a call of write_frame is posted or about to be.
QueueIsServed ==
  sendQueue # <<>> /\ ~writeFlag =>
    posted > 0 \/ \E s \in Senders : pc[s] = "dispatch"

\* The check of the state and the queueing of the message are two critical
\* sections, so a title may follow the close frame; but only a title whose
\* sender was inside send when the close frame was queued, hence one of each
\* sender, and nothing of Main but a further close frame.
Outgoing == wire \o currentMsgs \o sendQueue
OnlySendsUnderWayFollowClose ==
  \A i, j \in 1..Len(Outgoing) :
    i < j /\ IsClose(Outgoing[i]) /\ ~IsClose(Outgoing[j]) =>
      /\ Outgoing[j].from \in Senders
      /\ \A k \in (i + 1)..Len(Outgoing) :
           Outgoing[k].from = Outgoing[j].from => k = j

\* The registration of the plugin is the first thing Stream Deck hears.
RegistersFirst ==
  wire # <<>> => wire[1].kind = "register"

\* Run returns only with the connection closed (the comment on the call of
\* run), so that the plugin is not deleted under a live connection, and
\* whatever was going on.
RunOutlivesConnection ==
  main = "returned" => state = "closed" /\ "write" \notin op

\* What comes late, an answer after the timeout or a frame after the end,
\* does not bring a closed connection back, and a connection that is closing
\* does not open again. Only the handler that has itself just ended the attempt
\* for its extensions opens it again, and only an attempt nothing else has ended.
StateOnlyAdvances ==
  [][ /\ state = "closed" => state' = "closed" \/ main = "refused"
      /\ main' = "refused" => main = "refused" \/ state = "connecting"
      /\ state = "closing" => state' \in {"closing", "closed"}
      /\ state' = "closing" => state \in {"open", "closing"} ]_vars

\* The comment at lines 1620-1621 says that connections that fail extension
\* negotiation are killed. It does not hold: the plugin may get messages of a
\* connection that has been terminated.
KilledHandsOnNothing == [][shut /\ heard' => heard]_vars

\* The connection keeps the promise of SendChannel: what waits is what is
\* being written, then what is queued.
Channel == INSTANCE SendChannel WITH
  Final <- {m \in Message : Terminal(m)},
  pending <- currentMsgs \o sendQueue,
  up <- ~(writeFlag /\ "write" \notin op)
KeepsOrder == Channel!Spec

\* An attempt to connect comes to an end, whatever the peer does; a connection
\* that is closing, one whose peer has gone, and one that was terminated, even
\* if it has opened again, ends; and then Run returns.
RunReturnsInTheEnd ==
  /\ state = "connecting" ~> state # "connecting"
  /\ state = "closing" \/ ~peerUp \/ shut ~> main = "returned"

\* A title that was accepted reaches Stream Deck, or the connection ends.
AcceptedIsTransmitted ==
  \A s \in Senders : \A n \in 1..MaxSends :
    (\E i \in 1..Len(sendQueue) : sendQueue[i] = Title(s, n))
      ~> ((\E i \in 1..Len(wire) : wire[i] = Title(s, n)) \/ state = "closed")
=============================================================================
