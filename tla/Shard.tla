-------------------------------- MODULE Shard --------------------------------
(***************************************************************************)
(* storage::Shard with the commands that go through it: SET, GET, DEL,     *)
(* EXPIRE, TTL, and the collection commands as far as the shard sees them  *)
(* (module Collections has what they do to a value).  A key expires        *)
(* lazily: its entry stays until get() meets it.  The code asks            *)
(* system_clock, which an administrator may set back; the model assumes    *)
(* that nobody does: `now' never decreases.                                *)
(*                                                                         *)
(* The HashMap below is the one KeyMap describes: a key that is put takes  *)
(* a slot for good, and put throws when a new key finds none.              *)
(***************************************************************************)
EXTENDS Integers, Functions

CONSTANTS
    Key, Val,
    Nil,        \* the value of a reply that carries none
    Capacity,   \* 10000 slots
    Second,     \* clock ticks of a second (1000 in the code)
    Seconds,    \* what clients pass to EXPIRE
    Lag,        \* ticks that may pass between two clock reads of a command
    MaxTime     \* bound: the clock stops here

ASSUME SecondAssumption == Second \in Nat \ {0}
ASSUME TimeAssumption == Capacity \in Nat /\ MaxTime \in Nat /\ Lag \in Nat /\ Seconds \subseteq Int

VARIABLES
    now,        \* system_clock, in ticks
    data,       \* data_store_: key -> value, for the live slots
    used,       \* slots of data_store_ taken so far
    expires,    \* expires_: key -> timestamp
    reply       \* the last reply

vars == <<now, data, used, expires, reply>>

Int_(n) == [kind |-> ":", n |-> n, val |-> Nil]
Bulk(v) == [kind |-> "$", n |-> 0, val |-> v]
Status(s) == [kind |-> s, n |-> 0, val |-> Nil]

With(f, k, v) == [x \in DOMAIN f \cup {k} |-> IF x = k THEN v ELSE f[x]]
Without(f, k) == Restrict(f, DOMAIN f \ {k})

Init ==
    /\ now = 0
    /\ data = [k \in {} |-> Nil]
    /\ used = 0
    /\ expires = [k \in {} |-> 0]
    /\ reply = Status("+OK")

-----------------------------------------------------------------------------

\* A clock read later in the same command.
Later == {t \in now .. MaxTime : t <= now + Lag}

Expired(k) == k \in DOMAIN expires /\ now > expires[k]

\* get() returns non-null.
Found(k) == k \in DOMAIN data /\ ~Expired(k)

\* The two maps after get() has dropped the key if it has expired.
GotData(k) == IF Expired(k) THEN Without(data, k) ELSE data
GotExpires(k) == IF Expired(k) THEN Without(expires, k) ELSE expires

\* Shard::get changes nothing but an expired key.
get(k) ==
    /\ data' = GotData(k)
    /\ expires' = GotExpires(k)
    /\ UNCHANGED used

\* Mutant: an update keeps the timestamp of the value it replaces.
set_keeps(k, v, d, e) ==
    \/ /\ k \in DOMAIN d \/ used < Capacity
       /\ data' = With(d, k, v)
       /\ used' = IF k \in DOMAIN d THEN used ELSE used + 1
       /\ expires' = e
    \/ /\ k \notin DOMAIN d /\ used = Capacity
       /\ data' = d /\ expires' = e
       /\ UNCHANGED used

\* Shard::set on the maps d and e; put throws before the timestamp is erased.
set(k, v, d, e) ==
    \/ /\ k \in DOMAIN d \/ used < Capacity
       /\ data' = With(d, k, v)
       /\ used' = IF k \in DOMAIN d THEN used ELSE used + 1
       /\ expires' = Without(e, k)
    \/ /\ k \notin DOMAIN d /\ used = Capacity
       /\ data' = d /\ expires' = e
       /\ UNCHANGED used

SET(k, v) ==
    /\ set(k, v, data, expires)
    /\ reply' = IF k \in DOMAIN data' THEN Status("+OK") ELSE Status("throw")
    /\ UNCHANGED now

GET(k) ==
    /\ get(k)
    /\ reply' = IF Found(k) THEN Bulk(data[k]) ELSE Status("$-1")
    /\ UNCHANGED now

\* Mutants: the timestamp outlives the key; the slot is taken as free again.
DEL_data_only(k) ==
    /\ data' = Without(data, k)
    /\ reply' = Int_(IF k \in DOMAIN data THEN 1 ELSE 0)
    /\ UNCHANGED <<now, used, expires>>
DEL_twice(k) ==
    /\ data' = Without(data, k)
    /\ expires' = Without(expires, k)
    /\ used' = used - 1
    /\ reply' = Int_(IF k \in DOMAIN data THEN 1 ELSE 0)
    /\ UNCHANGED now

DEL(k) ==
    /\ data' = Without(data, k)
    /\ expires' = Without(expires, k)
    /\ reply' = Int_(IF k \in DOMAIN data THEN 1 ELSE 0)
    /\ UNCHANGED <<now, used>>

\* LPUSH, RPUSH, SADD, HSET and ZADD: get(), create the key if it is not
\* there, change the value where it lies.
Upsert(k, v) ==
    /\ IF Found(k)
       THEN /\ data' = [data EXCEPT ![k] = v]
            /\ UNCHANGED <<used, expires>>
       ELSE set(k, v, GotData(k), GotExpires(k))
    /\ reply' = IF k \in DOMAIN data' THEN Bulk(v) ELSE Status("throw")
    /\ UNCHANGED now

\* LPOP, RPOP, SREM, HDEL and ZREM: change the value of a key that is there.
\* (When it is not, and when the type is wrong, they do to the shard what GET
\* does.)
Modify(k, v) ==
    /\ Found(k)
    /\ data' = [data EXCEPT ![k] = v]
    /\ reply' = Bulk(v)
    /\ UNCHANGED <<now, used, expires>>

EXPIRE(k, seconds) ==
    \/ /\ ~Found(k)
       /\ get(k)
       /\ reply' = Int_(0)
       /\ UNCHANGED now
    \/ /\ Found(k)
       /\ now' \in Later
       /\ expires' = With(expires, k, now' + seconds * Second)
       /\ reply' = Int_(1)
       /\ UNCHANGED <<data, used>>

TTL(k) ==
    /\ get(k)
    /\ \/ ~Found(k) /\ reply' = Int_(-2) /\ UNCHANGED now
       \/ Found(k) /\ k \notin DOMAIN expires /\ reply' = Int_(-1) /\ UNCHANGED now
       \/ /\ Found(k) /\ k \in DOMAIN expires
          /\ now' \in Later
          /\ reply' = Int_(IF expires[k] < now' THEN -2
                           ELSE (expires[k] - now') \div Second)

Tick ==
    /\ now < MaxTime
    /\ now' = now + 1
    /\ UNCHANGED <<data, used, expires, reply>>

Next ==
    \/ Tick
    \/ \E k \in Key :
        \/ \E v \in Val : SET(k, v) \/ Upsert(k, v) \/ Modify(k, v)
        \/ GET(k)
        \/ DEL(k)
        \/ \E s \in Seconds : EXPIRE(k, s)
        \/ TTL(k)

Spec == Init /\ [][Next]_vars

-----------------------------------------------------------------------------
(* Properties *)

\* The two maps of the shard, and the slots that its HashMap has taken.
TypeOK ==
    /\ now \in 0 .. MaxTime
    /\ DOMAIN data \subseteq Key
    /\ \A k \in DOMAIN data : data[k] \in Val
    /\ used \in 0 .. Capacity
    /\ DOMAIN expires \subseteq Key
    /\ \A k \in DOMAIN expires : expires[k] \in Int

\* No timestamp outlives its key in expires_: whatever removes a key from
\* data_store_ (DEL, get() of an expired key) or fails to put one there takes
\* the timestamp along, so a key created later cannot inherit it.
NoOrphanExpiry == DOMAIN expires \subseteq DOMAIN data

Visible == {k \in DOMAIN data : ~Expired(k)}

Dict == Restrict(data, Visible)
Deadline == Restrict(expires, Visible \cap DOMAIN expires)

TM == INSTANCE TtlMap WITH dict <- Dict, deadline <- Deadline

\* Lazy expiration, with commands that read the clock twice, cannot be told
\* from expiration on the tick, except by the reply of DEL.
ImplementsTtlMap == TM!Spec
=============================================================================
