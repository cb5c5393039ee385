------------------------------- MODULE MCShard -------------------------------
(* Instances of Shard for TLC. *)
EXTENDS Shard

\* Already over, over on the next tick, and in the future.
MCSeconds == {-1, 0, 1, 2}
=============================================================================
