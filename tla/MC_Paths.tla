------------------------------ MODULE MC_Paths ------------------------------
(* A drive, two shares, and names with and without dots.                    *)
EXTENDS Paths

MCRoots == { <<"a", ":", "\\">>, <<"\\", "\\", "a", "\\", "a">>,
             <<"\\", "\\", "a", "\\", ".", "sdPlugin">> }
MCNames == { <<"a">>, <<"a", ".", "sdPlugin">>, <<"a", ".", "a", ".", "sdPlugin">>,
             <<"a", ".", "sdPlugin", ".", "a">> }
=============================================================================
