----------------------------- MODULE MC_Plugin -----------------------------
(* Text widths for the font sizes of the runs: 12 pixels give 12 characters, *)
(* 160 pixels none at all.                                                   *)
EXTENDS MediaStreamDeckPlugin

MCWidths == {0, 12}

=============================================================================
