----------------------------- MODULE Collections -----------------------------
(***************************************************************************)
(* The list, set, hash and sorted-set commands on one key, from the core   *)
(* that has read the command to the reply (module Server has what happens  *)
(* on the way between two cores, module Shard the expiration and the full  *)
(* map).  Every command checks the number of its arguments, where it was   *)
(* read; then it is executed if the core owns the key, and forwarded if    *)
(* not; the owner executes it from the start, arguments included.  A       *)
(* collection that is emptied stays under its key.                         *)
(*                                                                         *)
(* Members, fields and elements are numbers: std::set and std::map order   *)
(* them.  A score is an integer or NaN, which std::stod accepts.           *)
(***************************************************************************)
EXTENDS Integers, Sequences, FiniteSets, FiniteSetsExt, Functions

CONSTANTS
    Member,     \* elements, members, fields and hash values
    Score,      \* what std::stod can return, NaN included or not
    NaN,
    Bad,        \* a number that std::stod or std::stoi rejects
    MaxArgs,    \* bound: elements, members or pairs in one command
    MaxLen,     \* bound: length of a list
    Indexes     \* arguments of LRANGE and ZRANGE

ASSUME MemberAssumption == Member \subseteq Int
ASSUME BoundAssumption == MaxArgs \in Nat /\ MaxLen \in Nat /\ MaxArgs <= MaxLen
ASSUME IndexAssumption == Indexes \subseteq Int
ASSUME ScoreAssumption == Score \subseteq Int \cup {NaN} /\ Bad \notin Score /\ NaN \notin Int

VARIABLES
    val,        \* the value under the key
    req,        \* the command being executed and the core it is at
    reply       \* what execute() has returned to the client

vars == <<val, req, reply>>

Nothing == [type |-> "none"]
String == [type |-> "string"]
Empty(type) ==
    CASE type = "list" -> [type |-> "list", list |-> <<>>]
      [] type = "set" -> [type |-> "set", set |-> {}]
      [] type = "hash" -> [type |-> "hash", hash |-> [f \in {} |-> 0]]
      [] type = "zset" -> [type |-> "zset", tree |-> {}, dict |-> [m \in {} |-> 0],
                             nan |-> FALSE]

NoRequest == [op |-> "none", args |-> <<>>, at |-> "nowhere"]
NoReply == [kind |-> "none", n |-> 0, items |-> <<>>]

Init == val = Nothing /\ req = NoRequest /\ reply = NoReply

-----------------------------------------------------------------------------
(* Commands as clients send them.  args are the arguments after the key; a *)
(* command without a key is refused like one with an argument too few.     *)

Words(S, sizes) == UNION {[1 .. n -> S] : n \in sizes}

\* Alternately from S and T.
Alternating(S, T, sizes) ==
    UNION {{w \in [1 .. n -> S \cup T] : \A i \in 1 .. n : w[i] \in IF i % 2 = 1 THEN S ELSE T}
           : n \in sizes}

Command ==
    [op : {"LPUSH", "RPUSH", "SADD", "SREM", "HDEL", "ZREM"}, args : Words(Member, 0 .. MaxArgs)]
    \cup [op : {"LPOP", "RPOP", "LLEN", "SMEMBERS", "SCARD", "HGETALL", "HLEN", "ZCARD",
                "GET", "DEL"}, args : Words(Member, 0 .. 1)]
    \cup [op : {"HGET", "ZSCORE", "SET"}, args : Words(Member, 0 .. 2)]
    \cup [op : {"HSET"}, args : Words(Member, 0 .. 2 * MaxArgs)]
    \cup [op : {"ZADD"}, args : Alternating(Score \cup {Bad}, Member, 0 .. 2 * MaxArgs)]
    \cup [op : {"LRANGE", "ZRANGE"},
          args : Words(Indexes \cup {Bad}, {0, 1, 2})
                 \cup {<<i, j, o>> : i, j \in Indexes, o \in {"WITHSCORES", "?"}}]

\* A client sends a command to the owner of the key or to another core, as long
\* as lists stay short.
receive(c, at) ==
    /\ req = NoRequest /\ reply = NoReply
    /\ c.op \in {"LPUSH", "RPUSH"} /\ val.type = "list" => Len(val.list) + Len(c.args) <= MaxLen
    /\ req' = [op |-> c.op, args |-> c.args, at |-> at]
    /\ UNCHANGED <<val, reply>>

\* It gets the reply, and sends the next command.
deliver ==
    /\ reply # NoReply
    /\ reply' = NoReply
    /\ UNCHANGED <<val, req>>

\* args.size()
Size == Len(req.args) + 2

Answer(kind, n, items) ==
    reply' = [kind |-> kind, n |-> n, items |-> items] /\ req' = NoRequest

\* The REQUEST is pushed to the owner; execute() returns nothing.
forward_request == req' = [req EXCEPT !.at = "owner"] /\ UNCHANGED <<val, reply>>

\* What every execute() begins with.
execute(op, arity, local) ==
    /\ req.op = op
    /\ \/ ~arity /\ Answer("-ERR wrong number", 0, <<>>) /\ UNCHANGED val
       \/ arity /\ req.at = "other" /\ forward_request
       \/ arity /\ req.at = "owner" /\ local

-----------------------------------------------------------------------------
(* Replies and the type checks shared by the commands *)

Count(n) == Answer(":", n, <<>>)
Null == Answer("$-1", 0, <<>>)
Bulk(x) == Answer("$", 0, <<x>>)
Array(s) == Answer("*", Len(s), s)

\* get() returned nullptr and the command creates nothing.
Missing == val = Nothing /\ UNCHANGED val

\* std::get_if found another alternative.
WrongType(type) ==
    /\ val.type \notin {"none", type}
    /\ Answer("-ERR WRONGTYPE", 0, <<>>)
    /\ UNCHANGED val

\* std::stoi threw.
NotAnInteger == Answer("-ERR not an integer", 0, <<>>) /\ UNCHANGED val

\* The collection that an adding command works on: the one under the key, or
\* a new one.
Mine(type) == val.type \in {"none", type}
Fresh(type) == IF val = Nothing THEN Empty(type) ELSE val

\* Mutant: a range of one element counts as empty.
Range_strict(s, start0, stop0) ==
    LET size == Len(s)
        From(i) == IF i < 0 THEN Max({size + i, 0}) ELSE i
        start == From(start0)
        stop == Min({From(stop0), size - 1})
    IN  IF start >= size \/ start >= stop THEN <<>> ELSE SubSeq(s, start + 1, stop + 1)

\* The part of s that LRANGE and ZRANGE return.
Range_(s, start0, stop0) ==
    LET size == Len(s)
        From(i) == IF i < 0 THEN Max({size + i, 0}) ELSE i
        start == From(start0)
        stop == Min({From(stop0), size - 1})
    IN  IF start >= size \/ start > stop THEN <<>> ELSE SubSeq(s, start + 1, stop + 1)

\* begin() to end() of a std::set or std::map of S: before holds the pairs that
\* its comparison puts in order.
InOrder(S, before) ==
    CHOOSE s \in [1 .. Cardinality(S) -> S] :
        \A i, j \in DOMAIN s : i < j => <<s[i], s[j]>> \in before

Ascending(S) == InOrder(S, {p \in S \X S : p[1] < p[2]})

-----------------------------------------------------------------------------
(* Lists *)

push_front ==
    LET n == Len(req.args)
    IN  [i \in 1 .. n |-> req.args[n + 1 - i]] \o Fresh("list").list
push_back == Fresh("list").list \o req.args

Pushes(list) ==
    \/ WrongType("list")
    \/ /\ Mine("list")
       /\ val' = [type |-> "list", list |-> list]
       /\ Count(Len(val'.list))

LPUSH == execute("LPUSH", Size >= 3, Pushes(push_front))
RPUSH == execute("RPUSH", Size >= 3, Pushes(push_back))

Pops(x, rest) ==
    \/ Missing /\ Null
    \/ WrongType("list")
    \/ val.type = "list" /\ val.list = <<>> /\ Null /\ UNCHANGED val
    \/ /\ val.type = "list" /\ val.list # <<>>
       /\ Bulk(x)
       /\ val' = [val EXCEPT !.list = rest]

LPOP == execute("LPOP", Size = 2, Pops(Head(val.list), Tail(val.list)))
RPOP == execute("RPOP", Size = 2, Pops(val.list[Len(val.list)], SubSeq(val.list, 1, Len(val.list) - 1)))

LRANGE ==
    execute("LRANGE", Size = 4,
        \/ Missing /\ Array(<<>>)
        \/ WrongType("list")
        \/ /\ val.type = "list"
           /\ IF Bad \in {req.args[1], req.args[2]} THEN NotAnInteger
              ELSE Array(Range_(val.list, req.args[1], req.args[2])) /\ UNCHANGED val)

LLEN ==
    execute("LLEN", Size = 2,
        \/ Missing /\ Count(0)
        \/ WrongType("list")
        \/ val.type = "list" /\ Count(Len(val.list)) /\ UNCHANGED val)

-----------------------------------------------------------------------------
(* Sets *)

\* Mutant: every argument counts.
sadd_all(acc, m) == [set |-> acc.set \cup {m}, n |-> acc.n + 1]

sadd(acc, m) ==
    [set |-> acc.set \cup {m}, n |-> IF m \in acc.set THEN acc.n ELSE acc.n + 1]

srem(acc, m) ==
    [set |-> acc.set \ {m}, n |-> IF m \in acc.set THEN acc.n + 1 ELSE acc.n]

\* Set and count after i turns of the loop over the arguments.
sadd_loop[i \in 0 .. Len(req.args)] ==
    IF i = 0 THEN [set |-> Fresh("set").set, n |-> 0] ELSE sadd(sadd_loop[i - 1], req.args[i])

srem_loop[i \in 0 .. Len(req.args)] ==
    IF i = 0 THEN [set |-> val.set, n |-> 0] ELSE srem(srem_loop[i - 1], req.args[i])

SADD ==
    execute("SADD", Size >= 3,
        \/ WrongType("set")
        \/ LET r == sadd_loop[Len(req.args)]
           IN  Mine("set") /\ val' = [type |-> "set", set |-> r.set] /\ Count(r.n))

SREM ==
    execute("SREM", Size >= 3,
        \/ Missing /\ Count(0)
        \/ WrongType("set")
        \/ LET r == srem_loop[Len(req.args)]
           IN  val.type = "set" /\ val' = [type |-> "set", set |-> r.set] /\ Count(r.n))

SMEMBERS ==
    execute("SMEMBERS", Size = 2,
        \/ Missing /\ Array(<<>>)
        \/ WrongType("set")
        \/ val.type = "set" /\ Array(Ascending(val.set)) /\ UNCHANGED val)

SCARD ==
    execute("SCARD", Size = 2,
        \/ Missing /\ Count(0)
        \/ WrongType("set")
        \/ val.type = "set" /\ Count(Cardinality(val.set)) /\ UNCHANGED val)

-----------------------------------------------------------------------------
(* Hashes *)

With(f, k, v) == [x \in DOMAIN f \cup {k} |-> IF x = k THEN v ELSE f[x]]
Without(f, k) == Restrict(f, DOMAIN f \ {k})

\* The arguments two by two: i += 2.
Pairs == [i \in 1 .. Len(req.args) \div 2 |-> <<req.args[2 * i - 1], req.args[2 * i]>>]

hset(acc, p) ==
    [hash |-> With(acc.hash, p[1], p[2]),
     n |-> IF p[1] \in DOMAIN acc.hash THEN acc.n ELSE acc.n + 1]

hdel(acc, f) ==
    [hash |-> Without(acc.hash, f), n |-> IF f \in DOMAIN acc.hash THEN acc.n + 1 ELSE acc.n]

hset_loop[i \in 0 .. Len(Pairs)] ==
    IF i = 0 THEN [hash |-> Fresh("hash").hash, n |-> 0] ELSE hset(hset_loop[i - 1], Pairs[i])

hdel_loop[i \in 0 .. Len(req.args)] ==
    IF i = 0 THEN [hash |-> val.hash, n |-> 0] ELSE hdel(hdel_loop[i - 1], req.args[i])

HSET ==
    execute("HSET", Size >= 4 /\ Size % 2 = 0,
        \/ WrongType("hash")
        \/ LET r == hset_loop[Len(Pairs)]
           IN  Mine("hash") /\ val' = [type |-> "hash", hash |-> r.hash] /\ Count(r.n))

HGET ==
    execute("HGET", Size = 3,
        \/ Missing /\ Null
        \/ WrongType("hash")
        \/ /\ val.type = "hash"
           /\ IF req.args[1] \in DOMAIN val.hash THEN Bulk(val.hash[req.args[1]]) ELSE Null
           /\ UNCHANGED val)

HGETALL ==
    execute("HGETALL", Size = 2,
        \/ Missing /\ Array(<<>>)
        \/ WrongType("hash")
        \/ LET fields == Ascending(DOMAIN val.hash)
           IN  /\ val.type = "hash"
               /\ Array([i \in 1 .. 2 * Len(fields) |->
                            IF i % 2 = 1 THEN fields[(i + 1) \div 2] ELSE val.hash[fields[i \div 2]]])
               /\ UNCHANGED val)

HDEL ==
    execute("HDEL", Size >= 3,
        \/ Missing /\ Count(0)
        \/ WrongType("hash")
        \/ LET r == hdel_loop[Len(req.args)]
           IN  val.type = "hash" /\ val' = [type |-> "hash", hash |-> r.hash] /\ Count(r.n))

HLEN ==
    execute("HLEN", Size = 2,
        \/ Missing /\ Count(0)
        \/ WrongType("hash")
        \/ val.type = "hash" /\ Count(Cardinality(DOMAIN val.hash)) /\ UNCHANGED val)

-----------------------------------------------------------------------------
(* Sorted sets: a std::set of <<score, member>> and a dictionary *)

\* ZSetEntry::operator<.  NaN is less than nothing, and nothing than NaN.
Less(a, b) ==
    IF NaN \in {a[1], b[1]} THEN FALSE
    ELSE IF a[1] # b[1] THEN a[1] < b[1]
    ELSE a[2] < b[2]

\* What std::set takes for the same element as e.
Same(tree, e) == {x \in tree : ~Less(x, e) /\ ~Less(e, x)}

\* With a NaN about, operator< is no strict weak order, and it depends on the
\* shape of the tree whom std::set compares with whom.  The results are sets of
\* outcomes; without NaN they are singletons.
Ordered(tree, e) == \A x \in tree \cup {e} : x[1] # NaN
tree_insert(tree, e) ==
    IF Same(tree, e) = {} THEN {tree \cup {e}}
    ELSE IF Ordered(tree, e) THEN {tree}
    ELSE {tree, tree \cup {e}}
tree_erase(tree, e) ==
    IF Ordered(tree, e) THEN {tree \ {e}}
    ELSE {tree \ D : D \in SUBSET Same(tree, e)}

\* Mutant: the entry of the old score stays in the tree.
zset_insert_only(z, score, m) ==
    {[z EXCEPT !.tree = t, !.dict = With(@, m, score), !.nan = @ \/ score = NaN] :
        t \in tree_insert(z.tree, <<score, m>>)}

\* nan is not in the code: a NaN has been among the scores.

zset_insert(z, score, m) ==
    LET trees == IF m \in DOMAIN z.dict THEN tree_erase(z.tree, <<z.dict[m], m>>) ELSE {z.tree}
    IN  {[z EXCEPT !.tree = t, !.dict = With(@, m, score), !.nan = @ \/ score = NaN] :
            t \in UNION {tree_insert(u, <<score, m>>) : u \in trees}}

zset_erase(z, m) ==
    {[z EXCEPT !.tree = t, !.dict = Without(@, m)] :
        t \in tree_erase(z.tree, <<z.dict[m], m>>)}

\* Mutant: the loop runs on with a score that could not be read.
zadd_any(outcomes, p) ==
    UNION {{[z |-> z, n |-> o.n + 1, ok |-> TRUE] : z \in zset_insert(o.z, p[1], p[2])} :
            o \in outcomes}

\* Mutant: the loop goes on after a score that could not be read.
zadd_skips(outcomes, p) ==
    UNION {IF p[1] = Bad THEN {[o EXCEPT !.ok = FALSE]}
           ELSE {[o EXCEPT !.z = z, !.n = @ + 1] : z \in zset_insert(o.z, p[1], p[2])}
           : o \in outcomes}

\* One turn of the loop of ZADD, from each outcome of the turns before it.  A
\* score that cannot be read ends the loop, with the pairs before it applied.
zadd(outcomes, p) ==
    LET score == p[1]
        m == p[2]
        Turn(o) ==
            IF ~o.ok THEN {o}
            ELSE IF score = Bad THEN {[o EXCEPT !.ok = FALSE]}
            ELSE IF m \notin DOMAIN o.z.dict
            THEN {[z |-> z, n |-> o.n + 1, ok |-> TRUE] : z \in zset_insert(o.z, score, m)}
            ELSE IF NaN \notin {score, o.z.dict[m]} /\ o.z.dict[m] = score THEN {o}
            ELSE {[o EXCEPT !.z = z] : z \in zset_insert(o.z, score, m)}
    IN  UNION {Turn(o) : o \in outcomes}

zrem(outcomes, m) ==
    UNION {IF m \in DOMAIN o.z.dict
           THEN {[z |-> z, n |-> o.n + 1] : z \in zset_erase(o.z, m)}
           ELSE {o} : o \in outcomes}

zadd_loop[i \in 0 .. Len(Pairs)] ==
    IF i = 0 THEN {[z |-> Fresh("zset"), n |-> 0, ok |-> TRUE]} ELSE zadd(zadd_loop[i - 1], Pairs[i])

zrem_loop[i \in 0 .. Len(req.args)] ==
    IF i = 0 THEN {[z |-> val, n |-> 0]} ELSE zrem(zrem_loop[i - 1], req.args[i])

ZADD ==
    execute("ZADD", Size >= 4 /\ Size % 2 = 0,
        \/ WrongType("zset")
        \/ /\ Mine("zset")
           /\ \E o \in zadd_loop[Len(Pairs)] :
                /\ val' = o.z
                /\ IF o.ok THEN Count(o.n) ELSE Answer("-ERR not a float", 0, <<>>))

ZREM ==
    execute("ZREM", Size >= 3,
        \/ Missing /\ Count(0)
        \/ WrongType("zset")
        \/ /\ val.type = "zset"
           /\ \E o \in zrem_loop[Len(req.args)] : val' = o.z /\ Count(o.n))

\* begin() to end().  In what order a tree with a NaN in it is walked is left
\* open: its elements are not told apart.
Walk(z) ==
    IF z.nan THEN [i \in 1 .. Cardinality(z.tree) |-> NaN]
    ELSE InOrder(z.tree, {p \in z.tree \X z.tree : Less(p[1], p[2])})

\* WITHSCORES doubles the number of items; any other option is ignored.
ZRANGE ==
    LET withscores == Len(req.args) > 2 /\ req.args[3] = "WITHSCORES"
        items == Range_(Walk(val), req.args[1], req.args[2])
    IN  execute("ZRANGE", Size >= 4,
            \/ Missing /\ Array(<<>>)
            \/ WrongType("zset")
            \/ /\ val.type = "zset"
               /\ IF Bad \in {req.args[1], req.args[2]} THEN NotAnInteger
                  ELSE /\ Answer("*", Len(items) * (IF withscores THEN 2 ELSE 1), items)
                       /\ UNCHANGED val)

ZCARD ==
    execute("ZCARD", Size = 2,
        \/ Missing /\ Count(0)
        \/ WrongType("zset")
        \/ val.type = "zset" /\ Count(Cardinality(val.tree)) /\ UNCHANGED val)

ZSCORE ==
    execute("ZSCORE", Size = 3,
        \/ Missing /\ Null
        \/ WrongType("zset")
        \/ /\ val.type = "zset"
           /\ IF req.args[1] \in DOMAIN val.dict THEN Bulk(val.dict[req.args[1]]) ELSE Null
           /\ UNCHANGED val)

-----------------------------------------------------------------------------
(* Strings *)

\* SET overwrites a value of any type.
SET == execute("SET", Size = 3, val' = String /\ Answer("+OK", 0, <<>>))

GET ==
    execute("GET", Size = 2,
        \/ Missing /\ Null
        \/ WrongType("string")
        \/ val.type = "string" /\ Bulk("text") /\ UNCHANGED val)

\* DEL, or the expiration of the key.
DEL ==
    execute("DEL", Size = 2, val' = Nothing /\ Count(IF val = Nothing THEN 0 ELSE 1))

Next ==
    \/ \E c \in Command, at \in {"owner", "other"} : receive(c, at)
    \/ deliver
    \/ LPUSH \/ RPUSH \/ LPOP \/ RPOP \/ LRANGE \/ LLEN
    \/ SADD \/ SREM \/ SMEMBERS \/ SCARD
    \/ HSET \/ HGET \/ HGETALL \/ HDEL \/ HLEN
    \/ ZADD \/ ZREM \/ ZRANGE \/ ZCARD \/ ZSCORE
    \/ SET \/ GET \/ DEL

Spec == Init /\ [][Next]_vars

-----------------------------------------------------------------------------
(* Properties *)

Partial(S, T) == UNION {[D -> T] : D \in SUBSET S}

\* The value is of one of the alternatives of storage::Value, and a ZSet has
\* only scores that stod accepts; there is a command or a reply, not both.
TypeOK ==
    /\ \/ val \in {Nothing, String}
       \/ val.type = "list" /\ val.list \in Words(Member, 0 .. MaxLen)
       \/ val.type = "set" /\ val.set \subseteq Member
       \/ val.type = "hash" /\ val.hash \in Partial(Member, Member)
       \/ /\ val.type = "zset"
          /\ val.dict \in Partial(Member, Score)
          /\ val.tree \subseteq Score \X Member
          /\ val.nan \in BOOLEAN
    /\ req = NoRequest \/ reply = NoReply

\* The tree and the dictionary of a sorted set hold the same members with the
\* same scores, whatever ZADD and ZREM did, until a NaN is among the scores:
\* ZRANGE and ZCARD, which read the tree, agree with ZSCORE, which reads the
\* dictionary.
TreeMatchesDict ==
    val.type = "zset" /\ ~val.nan => val.tree = {<<val.dict[m], m>> : m \in DOMAIN val.dict}

\* The number of elements under the key.
Elements(v) ==
    CASE v.type = "set" -> Cardinality(v.set)
      [] v.type = "hash" -> Cardinality(DOMAIN v.hash)
      [] v.type = "zset" -> Cardinality(DOMAIN v.dict)
      [] OTHER -> 0

Counted ==
    reply'.kind = ":" =>
        /\ req.op \in {"SADD", "HSET", "ZADD"} => reply'.n = Elements(val') - Elements(val)
        /\ req.op \in {"SREM", "HDEL", "ZREM"} => reply'.n = Elements(val) - Elements(val')

\* The number that SADD, HSET and ZADD answer is by how much the collection
\* grew, and the one of SREM, HDEL and ZREM by how much it shrank, also when
\* an argument is repeated in one command.
CountsExact == [][Counted]_vars

\* Position of the element that an index names, a negative one from the end.
Position(i, size) == IF i < 0 THEN size + i ELSE i

\* The positions from one index to the other, of those that there are.
Wanted(first, last, size) ==
    {i \in 0 .. size - 1 : Position(first, size) <= i /\ i <= Max({Position(last, size), 0})}

\* The element at a position: in the list, or by the number of smaller ones.
ElementAt(v, i) ==
    IF v.type = "list" THEN v.list[i + 1]
    ELSE CHOOSE e \in v.tree : Cardinality({x \in v.tree : Less(x, e)}) = i

Ranged ==
    LET size == IF val.type = "list" THEN Len(val.list) ELSE Cardinality(val.tree)
        wanted == Wanted(req.args[1], req.args[2], size)
    IN  reply'.kind = "*" /\ req.op \in {"LRANGE", "ZRANGE"} /\ val # Nothing
        => /\ Len(reply'.items) = Cardinality(wanted)
           /\ val.type = "list" \/ ~val.nan
              => reply'.items = [n \in DOMAIN reply'.items |-> ElementAt(val, n - 1 + Min(wanted))]

\* LRANGE and ZRANGE return the elements whose positions lie between the two
\* they are given, in the order of the list, or by score and then by member.
\* (A stop before the first element counts as the first one.)
RangeReference == [][Ranged]_vars

\* The dictionary after the pairs of a ZADD before the first score that stod
\* rejects, the last one for each member.
UpToBad ==
    LET before == Min({i \in DOMAIN Pairs : Pairs[i][1] = Bad}) - 1
        Given(m) == {i \in 1 .. before : Pairs[i][2] = m}
        old == IF val = Nothing THEN {} ELSE DOMAIN val.dict
    IN  [m \in old \cup {Pairs[i][2] : i \in 1 .. before} |->
            IF Given(m) # {} THEN Pairs[Max(Given(m))][1] ELSE val.dict[m]]

Refused ==
    /\ reply'.kind \in {"-ERR wrong number", "-ERR WRONGTYPE", "-ERR not an integer"}
       => UNCHANGED val
    /\ reply'.kind = "-ERR not a float" => val'.dict = UpToBad

\* A command that is answered with an error has changed nothing, wherever it
\* was refused, except for ZADD: it leaves the sorted set, created if it was
\* missing, with the pairs before the first score that stod rejects.
ErrorsChangeNothing == [][Refused]_vars
=============================================================================
