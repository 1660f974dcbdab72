------------------------------ MODULE MCServer ------------------------------
(***************************************************************************)
(* Two uploads of one name with up to two words.                           *)
(***************************************************************************)
EXTENDS Server

CONSTANTS a, b, name1, u1, u2

MCWord     == {a, b}
MCName     == {name1}
MCUpload   == {u1, u2}
MCContents == {<< >>, <<a>>, <<a, b>>}
MCTexts    == {<<Mark, a, b, Mark>>, <<Mark, b, a, Mark>>, <<Mark, a, Mark, b>>}
=============================================================================
