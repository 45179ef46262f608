----------------------------- MODULE MC_Frames -----------------------------
(* Frames of up to three bytes of payload, good and bad, and some that are  *)
(* too long for a size_t, alone or together with a message's other frames.  *)
EXTENDS Frames

MCFrame(op, fin, ext, payload) == [op |-> op, fin |-> fin, ext |-> ext, payload |-> payload]

\* Empty, half a character, the other half; a character and a half, a whole
\* one, in a longer header.
MCShort == {<<>>, <<"lead">>, <<"trail">>}
MCLong == {<<"char", "lead">>, <<"lead", "trail">>}

MCChars(n) == [i \in 1..n |-> "char"]

\* With WordSize = 8: a size_t does not hold the first, and the other only as
\* long as nothing is added to it.
MCHuge == {MCFrame("text", TRUE, 8, MCChars(8)),
           MCFrame("continuation", TRUE, 8, <<"trail">> \o MCChars(6))}

MCPeerFrames ==
  {MCFrame(op, fin, 0, p) : op \in {"text", "continuation"}, fin \in BOOLEAN, p \in MCShort}
  \cup {MCFrame(op, fin, 2, p) : op \in {"text", "continuation"}, fin \in BOOLEAN, p \in MCLong}
  \cup {MCFrame("control", TRUE, 0, p) : p \in {<<>>, <<"char">>}}
  \cup {MCFrame("control", FALSE, 0, <<>>), MCFrame("bad", TRUE, 0, <<>>),
        MCFrame("control", TRUE, 2, <<"char", "char">>),
        MCFrame("text", TRUE, 2, <<"char">>), MCFrame("text", TRUE, 8, <<"char", "char">>),
        MCFrame("text", TRUE, 8, <<"char", "char", "char">>)}
  \cup MCHuge
=============================================================================
