-------------------------------- MODULE KeyMap --------------------------------
(***************************************************************************)
(* What storage::HashMap promises to the Shard that owns it: a map from    *)
(* keys to values with put, get and del, of bounded room.  The room is not *)
(* the number of keys: every insertion takes a slot for good, and a put of *)
(* a new key throws "HashMap is full" once all slots have been taken.      *)
(***************************************************************************)
EXTENDS Naturals

CONSTANTS
    Key, Val,
    Absent,     \* nullptr, or no value under a key
    Capacity    \* number of slots

VARIABLES
    dict,       \* the value under each key
    used,       \* slots taken so far
    ret         \* what the last call returned or threw

vars == <<dict, used, ret>>

Init ==
    /\ dict = [k \in Key |-> Absent]
    /\ used = 0
    /\ ret = Absent

Update(k, v) ==
    /\ dict[k] # Absent
    /\ dict' = [dict EXCEPT ![k] = v]
    /\ ret' = "updated"
    /\ UNCHANGED used

Insert(k, v) ==
    /\ dict[k] = Absent /\ used < Capacity
    /\ dict' = [dict EXCEPT ![k] = v]
    /\ used' = used + 1
    /\ ret' = "inserted"

PutFull(k) ==
    /\ dict[k] = Absent /\ used = Capacity
    /\ ret' = "full"
    /\ UNCHANGED <<dict, used>>

Get(k) ==
    /\ ret' = dict[k]
    /\ UNCHANGED <<dict, used>>

Del(k) ==
    /\ dict' = [dict EXCEPT ![k] = Absent]
    /\ ret' = IF dict[k] # Absent THEN "deleted" ELSE "missing"
    /\ UNCHANGED used

Next ==
    \E k \in Key :
        \/ \E v \in Val : Update(k, v) \/ Insert(k, v)
        \/ PutFull(k)
        \/ Get(k)
        \/ Del(k)

Spec == Init /\ [][Next]_vars
=============================================================================
