---------------------------- MODULE SendChannel ----------------------------
(* What a connection promises to those who send on it: messages that it has *)
(* accepted reach the peer in the order in which they were accepted, none   *)
(* twice and none left out, up to a moment after which nothing is           *)
(* transmitted any more. That moment comes with a final message or when the *)
(* transport fails; what was accepted and not transmitted by then is lost,  *)
(* and so is what is accepted later, without a word to the sender.          *)
EXTENDS Naturals, Sequences

CONSTANTS Message,  \* what can be sent
          Final     \* the messages after which nothing is transmitted

VARIABLES
  pending,  \* accepted and not transmitted
  wire,     \* transmitted
  up        \* the channel still transmits

channelVars == <<pending, wire, up>>

Init ==
  /\ pending = <<>>
  /\ wire = <<>>
  /\ up = TRUE

Accept(m) ==
  /\ pending' = Append(pending, m)
  /\ UNCHANGED <<wire, up>>

\* The k oldest messages go out together; a final one goes out last.
Transmit(k) ==
  /\ up
  /\ \A i \in 1..(k - 1) : pending[i] \notin Final
  /\ wire' = wire \o SubSeq(pending, 1, k)
  /\ pending' = SubSeq(pending, k + 1, Len(pending))
  /\ up' = (pending[k] \notin Final)

\* The transport fails with the k oldest messages on their way.
Break(k) ==
  /\ up
  /\ up' = FALSE
  /\ pending' = SubSeq(pending, k + 1, Len(pending))
  /\ UNCHANGED wire

Next ==
  \/ \E m \in Message : Accept(m)
  \/ \E k \in 1..Len(pending) : Transmit(k) \/ Break(k)

Spec == Init /\ [][Next]_channelVars
=============================================================================
