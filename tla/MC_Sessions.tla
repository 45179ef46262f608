---------------------------- MODULE MC_Sessions ----------------------------
(* The media sessions on small instances: the players s1 and s3 are of one  *)
(* application, of which s3 may be the second or the next session.          *)
EXTENDS MediaSessions, TLC

CONSTANTS s1, s2, s3, a1, a2

MCAppOf == s1 :> a1 @@ s2 :> a2 @@ s3 :> a1

\* s1 and s3 have the same application, and tracks differ in nothing but being
\* untitled: exchanging either changes nothing.
MCSymmetry == Permutations({s1, s3}) \cup Permutations(Tracks \ {Untitled})
=============================================================================
