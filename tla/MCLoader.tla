------------------------------ MODULE MCLoader ------------------------------
(***************************************************************************)
(* Two readers.  The first has more documents than may be outstanding, the *)
(* second has one, and two files that are not text.                        *)
(***************************************************************************)
EXTENDS Loader

CONSTANTS a, b

MCWord     == {a, b}
MCReadable == {0, 1, 2, 4, 6}
MCTextOf   == [d \in Doc |-> CASE d % 3 = 0 -> <<a, b, a>>
                               [] d % 3 = 1 -> <<b>>
                               [] OTHER     -> << >>]
=============================================================================
