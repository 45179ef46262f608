------------------------------ MODULE MC_Deck ------------------------------
(* What parseInt makes of an input: an interval, zero, not a number (null   *)
(* in JSON), and a number that an int does not hold, 600 for an int of      *)
(* -512..511.                                                               *)
EXTENDS Deck

MCTyped == {Integer(40), Integer(0), Null, Integer(600)}
=============================================================================
