-------------------------------- MODULE TtlMap --------------------------------
(***************************************************************************)
(* What a Shard promises: a map whose keys may have a deadline, and whose  *)
(* keys are gone the moment the deadline has passed.  Nothing here is      *)
(* lazy: time and expiration are one step.                                 *)
(***************************************************************************)
EXTENDS Integers, Functions

CONSTANTS
    Key, Val, Nil,
    Second,     \* clock ticks of a second
    Seconds     \* arguments of EXPIRE

VARIABLES
    now,        \* the clock
    dict,       \* key -> value, for the keys that exist
    deadline,   \* key -> last tick at which the key exists
    reply       \* the last reply

vars == <<now, dict, deadline, reply>>

Int_(n) == [kind |-> ":", n |-> n, val |-> Nil]
Bulk(v) == [kind |-> "$", n |-> 0, val |-> v]
Status(s) == [kind |-> s, n |-> 0, val |-> Nil]

With(f, k, v) == [x \in DOMAIN f \cup {k} |-> IF x = k THEN v ELSE f[x]]
Without(f, k) == Restrict(f, DOMAIN f \ {k})

Init ==
    /\ now \in Nat
    /\ dict = [k \in {} |-> Nil]
    /\ deadline = [k \in {} |-> 0]
    /\ reply = Status("+OK")

\* The clock moves to t; d and e are the values and deadlines before that.
At(t, d, e) ==
    LET dead == {k \in DOMAIN e : t > e[k]}
    IN  /\ now' = t /\ t >= now
        /\ dict' = Restrict(d, DOMAIN d \ dead)
        /\ deadline' = Restrict(e, DOMAIN e \ dead)

Tick == now' \in Nat /\ At(now', dict, deadline) /\ UNCHANGED reply

Set(k, v) ==
    /\ At(now, With(dict, k, v), Without(deadline, k))
    /\ reply' = Status("+OK")

\* A collection command changes the value and leaves the deadline alone.
Modify(k, v) ==
    /\ At(now, With(dict, k, v), deadline)
    /\ reply' = Bulk(v)

\* There may be no room for a new key.
Full(k) ==
    /\ k \notin DOMAIN dict
    /\ reply' = Status("throw")
    /\ UNCHANGED <<now, dict, deadline>>

Get(k) ==
    /\ reply' = IF k \in DOMAIN dict THEN Bulk(dict[k]) ELSE Status("$-1")
    /\ UNCHANGED <<now, dict, deadline>>

\* Of a key that does not exist the reply says either: it may be one that has
\* expired and that nobody has looked at since.
Del(k) ==
    /\ At(now, Without(dict, k), Without(deadline, k))
    /\ reply' \in IF k \in DOMAIN dict THEN {Int_(1)} ELSE {Int_(0), Int_(1)}

\* The key exists when the command starts; the deadline is counted from a
\* second look at the clock.
Expire(k, s, t) ==
    IF k \in DOMAIN dict
    THEN /\ At(t, dict, With(deadline, k, t + s * Second))
         /\ reply' = Int_(1)
    ELSE /\ reply' = Int_(0)
         /\ UNCHANGED <<now, dict, deadline>>

\* The reply is right at the second look at the clock.
Ttl(k, t) ==
    /\ At(t, dict, deadline)
    /\ reply' = Int_(IF k \notin DOMAIN dict' THEN -2
                     ELSE IF k \notin DOMAIN deadline' THEN -1
                     ELSE (deadline'[k] - now') \div Second)

Next ==
    \/ Tick
    \/ \E k \in Key :
        \/ \E v \in Val : Set(k, v) \/ Modify(k, v)
        \/ Full(k)
        \/ Get(k)
        \/ Del(k)
        \/ \E s \in Seconds : Expire(k, s, now')
        \/ Ttl(k, now')

Spec == Init /\ [][Next]_vars
=============================================================================
