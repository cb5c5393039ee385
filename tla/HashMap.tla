------------------------------- MODULE HashMap -------------------------------
(***************************************************************************)
(* storage::HashMap: open addressing with linear probing and tombstones.   *)
(* A slot is free until its first insertion and never becomes free again:  *)
(* del leaves a tombstone (occupied and deleted) that put steps over.      *)
(*                                                                         *)
(* A probe loop visits Slot(k, 0), Slot(k, 1), ... and stops at the first  *)
(* slot that is free or holds the key, or after one full turn.             *)
(***************************************************************************)
EXTENDS Integers, FiniteSets

CONSTANTS
    Key, Val,
    NoKey,      \* the key of a slot never used (the empty string)
    Monostate,  \* the value of a slot never used, or deleted
    Absent,     \* nullptr
    Capacity    \* capacity_

ASSUME CapacityAssumption == Capacity \in Nat \ {0}
ASSUME ValueAssumption == Absent \notin Val

VARIABLES
    hash,       \* std::hash of each key modulo capacity_: fixed, unknown
    entries,    \* entries_
    size,       \* size_
    ret         \* what the last call returned or threw

vars == <<hash, entries, size, ret>>

Index == 0 .. Capacity - 1

Entry == [key : Key \cup {NoKey}, value : Val \cup {Monostate},
          occupied : BOOLEAN, deleted : BOOLEAN]

Init ==
    /\ hash \in [Key -> Index]
    /\ entries = [i \in Index |-> [key |-> NoKey, value |-> Monostate,
                                   occupied |-> FALSE, deleted |-> FALSE]]
    /\ size = 0
    /\ ret = Absent

-----------------------------------------------------------------------------

\* The slot visited after d increments of idx.
Slot(k, d) == (hash[k] + d) % Capacity

\* for_each visits these slots.
Live(i) == entries[i].occupied /\ ~entries[i].deleted

Holds(i, k) == Live(i) /\ entries[i].key = k

\* Mutant: a tombstone ends the search.
stops_at_tombstone(k) == {d \in Index : ~Live(Slot(k, d)) \/ Holds(Slot(k, d), k)}

\* The distances at which the probe loop for k would leave the loop.
Stops(k) == {d \in Index : ~entries[Slot(k, d)].occupied \/ Holds(Slot(k, d), k)}

\* The loop came back to start_idx.
Wrapped(k) == Stops(k) = {}

\* Where the loop stops otherwise.
Probe(k) == Slot(k, CHOOSE d \in Stops(k) : \A x \in Stops(k) : d <= x)

Found(k) == ~Wrapped(k) /\ Holds(Probe(k), k)

\* Mutant: put takes the first tombstone and does not look for the key behind it.
put_reuses(k, v) ==
    LET room == {d \in Index : ~Live(Slot(k, d)) \/ Holds(Slot(k, d), k)}
        first == Slot(k, CHOOSE d \in room : \A x \in room : d <= x)
    IN  /\ room # {}
        /\ size' = IF Live(first) THEN size ELSE size + 1
        /\ entries' = [entries EXCEPT ![first] =
                        [key |-> k, value |-> v, occupied |-> TRUE, deleted |-> FALSE]]
        /\ ret' = "inserted"
        /\ UNCHANGED hash

put(k, v) ==
    \/ /\ Wrapped(k)
       /\ ret' = "full"
       /\ UNCHANGED <<hash, entries, size>>
    \/ /\ Found(k)
       /\ entries' = [entries EXCEPT ![Probe(k)].value = v]
       /\ ret' = "updated"
       /\ UNCHANGED <<hash, size>>
    \/ /\ ~Wrapped(k) /\ ~Found(k)
       /\ entries' = [entries EXCEPT ![Probe(k)] =
                        [key |-> k, value |-> v, occupied |-> TRUE, deleted |-> FALSE]]
       /\ size' = size + 1
       /\ ret' = "inserted"
       /\ UNCHANGED hash

get(k) ==
    /\ ret' = IF Found(k) THEN entries[Probe(k)].value ELSE Absent
    /\ UNCHANGED <<hash, entries, size>>

\* Mutants: del frees the slot; forgets size_; leaves no value at all.
del_frees(k) ==
    /\ entries' = IF Found(k)
                  THEN [entries EXCEPT ![Probe(k)] =
                          [@ EXCEPT !.occupied = FALSE, !.value = Monostate]]
                  ELSE entries
    /\ size' = IF Found(k) THEN size - 1 ELSE size
    /\ ret' = IF Found(k) THEN "deleted" ELSE "missing"
    /\ UNCHANGED hash
del_uncounted(k) ==
    /\ entries' = IF Found(k)
                  THEN [entries EXCEPT ![Probe(k)] =
                          [@ EXCEPT !.deleted = TRUE, !.value = Monostate]]
                  ELSE entries
    /\ ret' = IF Found(k) THEN "deleted" ELSE "missing"
    /\ UNCHANGED <<hash, size>>
del_null(k) ==
    /\ entries' = IF Found(k)
                  THEN [entries EXCEPT ![Probe(k)] =
                          [@ EXCEPT !.deleted = TRUE, !.value = Absent]]
                  ELSE entries
    /\ size' = IF Found(k) THEN size - 1 ELSE size
    /\ ret' = IF Found(k) THEN "deleted" ELSE "missing"
    /\ UNCHANGED hash

del(k) ==
    /\ entries' = IF Found(k)
                  THEN [entries EXCEPT ![Probe(k)] =
                          [@ EXCEPT !.deleted = TRUE, !.value = Monostate]]
                  ELSE entries
    /\ size' = IF Found(k) THEN size - 1 ELSE size
    /\ ret' = IF Found(k) THEN "deleted" ELSE "missing"
    /\ UNCHANGED hash

Next ==
    \E k \in Key :
        \/ \E v \in Val : put(k, v)
        \/ get(k)
        \/ del(k)

Spec == Init /\ [][Next]_vars

-----------------------------------------------------------------------------
(* Properties *)

\* The slots of entries_: del leaves Monostate, never a null value.
TypeOK ==
    /\ hash \in [Key -> Index]
    /\ entries \in [Index -> Entry]
    /\ size \in Int

\* No key is lost behind a hole: every slot that a probe for a stored key
\* visits before it reaches the key has been used.
ChainUnbroken ==
    \A i, d \in Index :
        Live(i) /\ Slot(entries[i].key, d) = i
        => \A x \in 0 .. d - 1 : entries[Slot(entries[i].key, x)].occupied

\* No key is stored twice, so for_each (RDB save) meets each key once.
KeysUnique ==
    \A i, j \in Index : Live(i) /\ Live(j) /\ entries[i].key = entries[j].key => i = j

\* size_ counts the stored keys; in particular size_-- never wraps around zero.
SizeExact == size = Cardinality({i \in Index : Live(i)})

\* The map a client of the class sees, wherever the entries lie.
DictView ==
    [k \in Key |-> IF \E i \in Index : Holds(i, k)
                   THEN entries[CHOOSE i \in Index : Holds(i, k)].value
                   ELSE Absent]

Occupied == {i \in Index : entries[i].occupied}

KM == INSTANCE KeyMap WITH dict <- DictView, used <- Cardinality(Occupied)

\* Probing with tombstones implements the abstract map: each call returns what
\* the map says, and a put is refused only when every slot has been taken.
ImplementsKeyMap == KM!Spec
=============================================================================
