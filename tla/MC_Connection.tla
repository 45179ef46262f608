--------------------------- MODULE MC_Connection ---------------------------
(* The connection on a small instance.                                      *)
EXTENDS Connection, TLC

=============================================================================
