----------------------------- MODULE MCRecovery -----------------------------
(***************************************************************************)
(* Three documents and up to four connections: fewer connections than      *)
(* documents, as many, one more, and more than that.                       *)
(***************************************************************************)
EXTENDS Recovery, TLC

CONSTANTS d1, d2, d3

MCDocument == {d1, d2, d3}
=============================================================================
