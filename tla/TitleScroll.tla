---------------------------- MODULE TitleScroll ----------------------------
(***************************************************************************)
(* The arithmetic of the scrolling title in MediaStreamDeckPlugin.cpp.     *)
(*                                                                         *)
(* HandleButton pads a title of n characters with w spaces on both sides   *)
(* and cuts a window of w characters out of it, one further each time, so  *)
(* that the title enters on the right and leaves on the left.  A title is  *)
(* represented by its length; what can be seen of it, by the positions of  *)
(* its characters.                                                         *)
(***************************************************************************)
EXTENDS Integers

\* The characters that fit on the 72 pixels of a button.
TextWidth(fontSize) == 72 \div (fontSize \div 2)

PaddedLength(n, w) == w + n + w

\* Faults: the scroll starts again one character too late, or too early.
StartedLate(tick, n, w) ==
  IF tick < 0 \/ tick > PaddedLength(n, w) - w + 1 THEN 0 ELSE tick

StartedEarly(tick, n, w) ==
  IF tick < 0 \/ tick >= PaddedLength(n, w) - w THEN 0 ELSE tick

\* The tick, after the window has left the title, starts again.  The tick is
\* an int and the length a size_t, so that a negative tick compares as larger
\* than any length.
Started(tick, n, w) ==
  IF tick < 0 \/ tick > PaddedLength(n, w) - w THEN 0 ELSE tick

\* How many characters substr(tick, w) finds.
WindowLength(tick, n, w) ==
  IF tick + w <= PaddedLength(n, w) THEN w ELSE PaddedLength(n, w) - tick

\* The characters of the title, 1..n, that the window shows.
Visible(tick, n, w) == {i \in 1..n : tick < w + i /\ w + i <= tick + w}

=============================================================================
