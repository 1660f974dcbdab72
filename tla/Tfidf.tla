------------------------------- MODULE Tfidf -------------------------------
(***************************************************************************)
(* Word counts (include/wookie/tfidf.hpp): in how many documents a word    *)
(* comes.  A count is a function over all words; the map of the code has   *)
(* no entry for a word that it has not seen, and count() answers 0.        *)
(***************************************************************************)
EXTENDS Naturals, Sequences, FiniteSets, SequencesExt

CONSTANT Word

NoWords == [w \in Word |-> 0]

(* update_tfidf: the words of one document are collected in a set, and each *)
(* of the set is counted once.                                              *)
UpdateTfidf(df, text) ==
    [w \in Word |-> IF w \in Range(text) THEN df[w] + 1 ELSE df[w]]

(* A definition marked "mutated" is no part of the specification: it is a   *)
(* later definition with a slip of the kind this code invites, and TLC      *)
(* finds the slip by a property.                                            *)

\* mutated: a word is fed without its count
MergeOnce(df, other) ==
    [w \in Word |-> IF other[w] > 0 THEN df[w] + 1 ELSE df[w]]
Merge(df, other) == [w \in Word |-> df[w] + other[w]]
=============================================================================
