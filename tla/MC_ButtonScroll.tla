-------------------------- MODULE MC_ButtonScroll --------------------------
(* Titles shorter than, as long as and longer than the narrower width; an   *)
(* int just wide enough for them, so that an idle button overflows it.      *)
EXTENDS ButtonScroll

MCTextWidths == {0, 2, 3}

=============================================================================
