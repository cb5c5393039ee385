------------------------------ MODULE MCServer ------------------------------
(* Instances of Server for TLC: two cores and two keys. *)
EXTENDS Server, TLC

CONSTANTS c1, c2, k1, k2

\* One core owns both keys; the other has to forward.
Skewed == k1 :> c1 @@ k2 :> c1

Upper(op, k) == [op |-> op, key |-> k, name |-> "upper"]
Lower(op, k) == [op |-> op, key |-> k, name |-> "lower"]

\* With Skewed and room for one key, the second SET makes the core fail,
\* whether it comes from another core or from a client of its own.
FullLoad == {Upper("SET", k1), Lower("SET", k2), Upper("GET", k1), Lower("DEL", k1)}
=============================================================================
