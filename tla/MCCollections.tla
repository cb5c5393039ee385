---------------------------- MODULE MCCollections ----------------------------
(* Instances of Collections for TLC. *)
EXTENDS Collections

\* Before the first element, from the end, from the start, beyond the last.
MCIndexes == {-5, -4, -1, 0, 2, 4}

WithNaN == {0, 1, NaN}
=============================================================================
