------------------------------- MODULE MCFind -------------------------------
(***************************************************************************)
(* Every query of up to six symbols over two words and the mark, and some  *)
(* that name the base index, against every document of up to three of      *)
(* these words and another one.                                            *)
(***************************************************************************)
EXTENDS Find, SequencesExt

CONSTANTS a, b, c, base, doc1

MCWord     == {a, b, c, base}
MCDocument == {doc1}
MCTexts    == BoundedSeq({a, b, Mark}, 6) \cup
              {<<base>>, <<a, base>>, <<Mark, base, a, Mark>>}
MCContents == BoundedSeq({a, b, c}, 3)
=============================================================================
