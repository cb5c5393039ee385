------------------------------ MODULE MCHashMap ------------------------------
(* Instances of HashMap for TLC: Init ranges over every hash function. *)
EXTENDS HashMap, TLC

Interchangeable == Permutations(Key) \cup Permutations(Val)
=============================================================================
