----------------------------- MODULE MCPipeline -----------------------------
(***************************************************************************)
(* Two documents through a pipeline, with workers for two requests.        *)
(***************************************************************************)
EXTENDS Pipeline, TLC

CONSTANTS doc1, doc2, h1, h2

MCDocument == {doc1, doc2}
MCHandler  == {h1, h2}
MCSymmetry == Permutations(MCDocument) \cup Permutations(MCHandler)
=============================================================================
