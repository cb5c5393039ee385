--------------------------- MODULE EventLoopProofs ---------------------------
(***************************************************************************)
(* Each operation of the event loop is in one place of the ring, and a     *)
(* core keeps to its own files until an operation outlives its Connection, *)
(* for any number of clients and any sizes of the queue and of the table.  *)
(***************************************************************************)
EXTENDS EventLoop, FiniteSetTheorems, WellFoundedInduction, TLAPS

-----------------------------------------------------------------------------
(* The inductive invariant *)

\* What names an operation: its kind and its owner.  A key is a set of such
\* names; an accept operation is one and the same, whomever it has accepted.
Mine(e, K) == <<e.op, e.who>> \in K

Accepting == {"accept"} \X (Client \cup {"listen"})
Notified == {"notif"} \X {"event"}
Key(op, c) == {<<op, c>>}
Keys == {Accepting, Notified} \cup {Key(op, c) : op \in {"accept", "read", "write"}, c \in Client}

\* A key is in the ring r, of which the first n submissions of s are taken.
SomeAt(r, s, n, K) ==
    \/ \E i \in n + 1 .. Len(s) : Mine(s[i], K)
    \/ \E p \in r.pending : Mine(p, K)
    \/ \E i \in 1 .. Len(r.cq) : Mine(r.cq[i], K)

\* It is there in one place at most.
OnceAt(r, s, n, K) ==
    /\ \A i, j \in n + 1 .. Len(s) : Mine(s[i], K) /\ Mine(s[j], K) => i = j
    /\ \A p, q \in r.pending : Mine(p, K) /\ Mine(q, K) => p = q
    /\ \A i, j \in 1 .. Len(r.cq) : Mine(r.cq[i], K) /\ Mine(r.cq[j], K) => i = j
    /\ \A i \in n + 1 .. Len(s), p \in r.pending : ~(Mine(s[i], K) /\ Mine(p, K))
    /\ \A i \in n + 1 .. Len(s), j \in 1 .. Len(r.cq) : ~(Mine(s[i], K) /\ Mine(r.cq[j], K))
    /\ \A p \in r.pending, j \in 1 .. Len(r.cq) : ~(Mine(p, K) /\ Mine(r.cq[j], K))

Some(r, K) == SomeAt(r, r.sq, 0, K)
Once(r, K) == OnceAt(r, r.sq, 0, K)

\* What is prepared, pending and completed names operations that exist, or
\* existed, by the number of their descriptor.
Whom == Client \cup {"listen", "event"}
File == Client \cup {"event", "listen", "ring", "other", "closed"}
OpNames == {"accept", "notif", "read", "write"}

Names(e) ==
    \/ e.op = "accept" /\ e.who = "listen" /\ e.fd = ListenFd
    \/ e.op = "notif" /\ e.who = "event" /\ e.fd = EventFd
    \/ /\ e.op \in {"read", "write"} /\ e.who \in Client
       /\ e.fd = conn[e.who].fd /\ conn[e.who].state # "none"

\* io_uring has looked up the right file, unless the Connection had gone.
Found(p) ==
    build = "linux" => /\ p.op = "notif" => p.file = "event"
                       /\ p.op \in {"read", "write"} => p.file = p.who \/ conn[p.who].state = "freed"

SqEntry == {e \in [op : OpNames, who : Whom, fd : Fds] : Names(e)}
PendEntry == {p \in [op : OpNames, who : Whom, fd : Fds, file : File] : Names(p) /\ Found(p)}
CqEntry == {e \in [op : OpNames, who : Whom, res : {"ok", "error"}] : [op |-> e.op, who |-> e.who] \in Ops}

Rings == {r \in [sq : Seq(SqEntry), pending : SUBSET PendEntry, cq : Seq(CqEntry), ok : BOOLEAN] :
              Len(r.sq) <= SqSize}

Now == [sq |-> sq, pending |-> pending, cq |-> cq, ok |-> TRUE]

\* What of a Connection d, of client c, is in the ring.
Held(r, d, c) ==
    /\ d.state # "accepted" => ~Some(r, Key("accept", c))
    /\ d.state \in {"none", "accepted"} =>
        ~Some(r, Key("read", c)) /\ ~Some(r, Key("write", c)) /\ ~d.is_writing /\ d.queue = 0
    /\ d.state = "live" =>
        /\ Some(r, Key("read", c))
        /\ d.is_writing <=> Some(r, Key("write", c))
        /\ d.is_writing <=> d.queue > 0
    /\ d.state = "freed" => ~Some(r, Key("read", c)) \/ ~Some(r, Key("write", c))

RingOK(r, cn) ==
    /\ \A K \in Keys : Once(r, K)
    /\ Some(r, Accepting) /\ Some(r, Notified)
    /\ \A c \in Client : Held(r, cn[c], c)

\* The Connections that have their sockets, have them.
Sockets == \A c \in Client : conn[c].state \in {"accepted", "live"} => files[conn[c].fd] = c

\* The descriptors of the core itself, until its destructors close them.
OwnFds ==
    /\ loop \in {"handlers", "ring", "unwind"} => files[ListenFd] = "listen"
    /\ loop \in {"handlers", "ring", "unwind", "close_event"} => files[EventFd] = "event"
    /\ build = "stub" /\ loop \in {"handlers", "ring", "unwind", "close_event", "close_notify"} =>
        files[NotifyFd] = "event"

\* A deleted Connection has an operation left.
Leftover(r, cn) ==
    \E c \in Client : cn[c].state = "freed" /\ (Some(r, Key("read", c)) \/ Some(r, Key("write", c)))

Harms ==
    /\ harm \in SUBSET {"read", "write", "notif", "close", "wake"}
    /\ Running /\ {"read", "write", "notif"} \cap harm # {} => Leftover(Now, conn)
    /\ "close" \in harm => build = "linux" /\ loop = "ended"
    /\ "wake" \in harm => ~Running

ConnType == [state : {"none", "accepted", "live", "freed"}, fd : Fds, is_writing : BOOLEAN, queue : 0 .. MaxQueue]
Conns == [Client -> ConnType]

Types ==
    /\ build \in {"linux", "stub"}
    /\ files \in [Fds -> File]
    /\ loop \in {"handlers", "ring", "undefined", "unwind", "close_event", "close_notify", "ended"}
    /\ cause \in {"none", "command", "refused"}
    /\ cause = "refused" => build = "linux"
    /\ conn \in Conns
    /\ Now \in Rings

IInv == Types /\ OwnFds /\ Harms /\ (Running => Sockets /\ RingOK(Now, conn))

-----------------------------------------------------------------------------
(* Loops *)

\* Every non-empty set of natural numbers has a least element.
LEMMA LeastNat ==
    ASSUME NEW S \in SUBSET Nat, S # {}
    PROVE  \E x \in S : \A y \in S : x <= y
<1>1. PICK x \in S : \A y \in S : ~(<<y, x>> \in OpToRel(<, Nat))
  BY NatLessThanWellFounded, WFMin, Zenon
<1>2. \A y \in S : <<y, x>> \in OpToRel(<, Nat) <=> y < x
  BY Zenon DEF OpToRel
<1>3. \A y \in S : ~(y < x)
  BY <1>1, <1>2, Zenon
<1> QED
  BY <1>3, SMT

\* What holds before a loop and is kept by every turn holds after all of them:
\* S is the set of the turns after which it holds.
KeptByTurns(S, n) == 0 \in S /\ \A i \in 1 .. n : i - 1 \in S => i \in S

LEMMA Turns ==
    ASSUME NEW n \in Nat, NEW S, KeptByTurns(S, n)
    PROVE  \A i \in 0 .. n : i \in S
<1> DEFINE missing == {i \in 0 .. n : i \notin S}
<1> SUFFICES ASSUME missing # {} PROVE FALSE
  OBVIOUS
<1>0. missing \in SUBSET Nat
  OBVIOUS
<1>1. PICK i \in missing : \A j \in missing : i <= j
  <2> HIDE DEF missing
  <2> QED
    BY <1>0, LeastNat
<1>2. i \in 1 .. n /\ i - 1 \in 0 .. n /\ i - 1 \notin missing
  BY <1>1 DEF KeptByTurns
<1> QED
  BY <1>2 DEF KeptByTurns

\* The recursive definition of a loop of n turns defines a function: step says
\* what turn i makes of what the turn before has left.
IsLoop(f, n, a, step) == f[0] = a /\ \A i \in 1 .. n : f[i] = step[i][f[i - 1]]

LoopInput(n, X, a, step) == n \in Nat /\ a \in X /\ step \in [1 .. n -> [X -> X]]

LEMMA LoopExists ==
    ASSUME NEW n, NEW X, NEW a, NEW step, LoopInput(n, X, a, step)
    PROVE  \E f \in [0 .. n -> X] : IsLoop(f, n, a, step)
<1> USE DEF LoopInput
<1> DEFINE Is(f, k) == /\ f \in [0 .. k -> X] /\ f[0] = a
                       /\ \A i \in 1 .. k : f[i] = step[i][f[i - 1]]
           S == {k \in 0 .. n : \E f : Is(f, k)}
<1>1. 0 \in S
  <2> DEFINE g == [i \in 0 .. 0 |-> a]
  <2>1. g \in [0 .. 0 -> X] /\ g[0] = a /\ 1 .. 0 = {}
    OBVIOUS
  <2>2. Is(g, 0)
    BY <2>1, Zenon
  <2>3. 0 \in 0 .. n
    OBVIOUS
  <2> QED
    BY <2>2, <2>3, Zenon
<1>2. ASSUME NEW k \in 1 .. n, k - 1 \in S PROVE k \in S
  <2>1. PICK f : Is(f, k - 1)
    BY <1>2, Zenon
  <2> DEFINE g == [i \in 0 .. k |-> IF i = k THEN step[k][f[k - 1]] ELSE f[i]]
  <2>2. k - 1 \in 0 .. k - 1 /\ 0 \in 0 .. k - 1 /\ k # 0 /\ 0 \in 0 .. k /\ k \in 0 .. k /\ k - 1 \in 0 .. k
        /\ k - 1 # k /\ k \in 0 .. n
    OBVIOUS
  <2>3. f[k - 1] \in X
    BY <2>1, <2>2, Zenon
  <2>4. step[k][f[k - 1]] \in X
    BY <2>3
  <2>5. \A i \in 0 .. k : i # k => i \in 0 .. k - 1
    OBVIOUS
  <2>6. g \in [0 .. k -> X] /\ g[0] = a
    BY <2>1, <2>2, <2>4, <2>5, Zenon
  <2>7. \A i \in 1 .. k : g[i] = step[i][g[i - 1]]
    <3> TAKE i \in 1 .. k
    <3>1. CASE i = k
      <4>1. g[i] = step[i][f[i - 1]] /\ g[i - 1] = f[i - 1]
        BY <3>1, <2>2, Zenon
      <4> QED
        BY <4>1
    <3>2. CASE i # k
      <4>1. i \in 1 .. k - 1 /\ i - 1 # k /\ i \in 0 .. k /\ i - 1 \in 0 .. k
        BY <3>2
      <4>2. g[i] = f[i] /\ g[i - 1] = f[i - 1]
        BY <3>2, <4>1, Zenon
      <4> QED
        BY <2>1, <4>1, <4>2, Zenon
    <3> QED
      BY <3>1, <3>2
  <2> HIDE DEF g
  <2>8. Is(g, k)
    BY <2>6, <2>7, Zenon
  <2> QED
    BY <2>2, <2>8
<1>3. n \in S
  <2> HIDE DEF S
  <2>1. \A k \in 1 .. n : k - 1 \in S => k \in S
    BY <1>2, Zenon
  <2>2. KeptByTurns(S, n)
    BY <1>1, <2>1, Zenon DEF KeptByTurns
  <2> QED
    BY <2>2, Turns
<1>4. PICK f : Is(f, n)
  BY <1>3, Zenon
<1> QED
  BY <1>4, Zenon DEF IsLoop

\* The elements of a sequence by their numbers.
LEMMA SeqFacts ==
    ASSUME NEW S, NEW s \in Seq(S)
    PROVE  /\ Len(s) \in Nat
           /\ \A i \in 1 .. Len(s) : s[i] \in S
           /\ \A x : Len(Append(s, x)) = Len(s) + 1 /\ Append(s, x)[Len(s) + 1] = x
           /\ \A x : \A i \in 1 .. Len(s) : Append(s, x)[i] = s[i]
           /\ \A x \in S : Append(s, x) \in Seq(S)
OBVIOUS

-----------------------------------------------------------------------------
(* Entries change their place *)

\* An entry is submitted, and becomes pending.
LEMMA ToPending ==
    ASSUME NEW S, NEW s \in Seq(S), NEW n \in Nat, n < Len(s), NEW r, NEW u, NEW x, NEW K,
           Len(r.cq) \in Nat, u.cq = r.cq, u.pending = r.pending \cup {x}, Mine(x, K) <=> Mine(s[n + 1], K)
    PROVE  /\ SomeAt(u, s, n + 1, K) <=> SomeAt(r, s, n, K)
           /\ OnceAt(r, s, n, K) => OnceAt(u, s, n + 1, K)
<1>1. \A i : i \in n + 1 .. Len(s) <=> i = n + 1 \/ i \in n + 1 + 1 .. Len(s)
  BY SeqFacts
<1>2. SomeAt(u, s, n + 1, K) <=> SomeAt(r, s, n, K)
  BY <1>1, Zenon DEF SomeAt
<1>3. n + 1 \notin n + 1 + 1 .. Len(s)
  OBVIOUS
<1>4. ASSUME OnceAt(r, s, n, K) PROVE OnceAt(u, s, n + 1, K)
  BY <1>1, <1>3, <1>4 DEF OnceAt
<1> QED
  BY <1>2, <1>4

\* An entry is submitted, and completed at once.
LEMMA ToCompleted ==
    ASSUME NEW S, NEW s \in Seq(S), NEW n \in Nat, n < Len(s), NEW r, NEW u, NEW x, NEW K, NEW T,
           r.cq \in Seq(T), u.cq = Append(r.cq, x), u.pending = r.pending, Mine(x, K) <=> Mine(s[n + 1], K)
    PROVE  /\ SomeAt(u, s, n + 1, K) <=> SomeAt(r, s, n, K)
           /\ OnceAt(r, s, n, K) => OnceAt(u, s, n + 1, K)
<1>1. \A i : i \in n + 1 .. Len(s) <=> i = n + 1 \/ i \in n + 1 + 1 .. Len(s)
  BY SeqFacts
<1>2. \A i : i \in 1 .. Len(u.cq) <=> i = Len(u.cq) \/ i \in 1 .. Len(r.cq)
  BY SeqFacts
<1>3. u.cq[Len(u.cq)] = x /\ \A i \in 1 .. Len(r.cq) : u.cq[i] = r.cq[i]
  BY SeqFacts
<1>4. n + 1 \notin n + 1 + 1 .. Len(s) /\ Len(u.cq) \notin 1 .. Len(r.cq)
  BY SeqFacts
<1>5. SomeAt(u, s, n + 1, K) <=> SomeAt(r, s, n, K)
  BY <1>1, <1>2, <1>3, Zenon DEF SomeAt
<1>6. ASSUME OnceAt(r, s, n, K) PROVE OnceAt(u, s, n + 1, K)
  BY <1>1, <1>2, <1>3, <1>4, <1>6 DEF OnceAt
<1> QED
  BY <1>5, <1>6

\* An entry is prepared.
LEMMA Prepared ==
    ASSUME NEW S, NEW r, NEW u, NEW e, NEW K, r.sq \in Seq(S), u.sq = Append(r.sq, e),
           u.pending = r.pending, u.cq = r.cq
    PROVE  /\ Some(u, K) <=> Some(r, K) \/ Mine(e, K)
           /\ Once(r, K) /\ (Mine(e, K) => ~Some(r, K)) => Once(u, K)
<1>1. \A i : i \in 0 + 1 .. Len(u.sq) <=> i = Len(u.sq) \/ i \in 0 + 1 .. Len(r.sq)
  BY SeqFacts
<1>2. u.sq[Len(u.sq)] = e /\ \A i \in 0 + 1 .. Len(r.sq) : u.sq[i] = r.sq[i]
  BY SeqFacts
<1>3. Some(u, K) <=> Some(r, K) \/ Mine(e, K)
  BY <1>1, <1>2, Zenon DEF Some, SomeAt
<1>4. ASSUME Once(r, K), Mine(e, K) => ~Some(r, K) PROVE Once(u, K)
  BY <1>1, <1>2, <1>4 DEF Once, OnceAt, Some, SomeAt
<1> QED
  BY <1>3, <1>4

\* The ring completes an operation p with x.
LEMMA CompletedOnce ==
    ASSUME NEW T, NEW r, NEW u, NEW p \in r.pending, NEW x, NEW K, r.cq \in Seq(T),
           u.sq = r.sq, u.pending = r.pending \ {p}, u.cq = Append(r.cq, x)
    PROVE  /\ (Mine(x, K) <=> Mine(p, K)) => (Some(u, K) <=> Some(r, K))
           /\ Mine(x, K) => Some(u, K)
           /\ Once(r, K) /\ (Mine(x, K) => Mine(p, K) \/ ~Some(r, K)) => Once(u, K)
<1>1. \A i : i \in 1 .. Len(u.cq) <=> i = Len(u.cq) \/ i \in 1 .. Len(r.cq)
  BY SeqFacts
<1>2. u.cq[Len(u.cq)] = x /\ \A i \in 1 .. Len(r.cq) : u.cq[i] = r.cq[i]
  BY SeqFacts
<1>3. ASSUME Mine(x, K) <=> Mine(p, K) PROVE Some(u, K) <=> Some(r, K)
  BY <1>1, <1>2, <1>3 DEF Some, SomeAt
<1>4. ASSUME Mine(x, K) PROVE Some(u, K)
  BY <1>1, <1>2, <1>4, Zenon DEF Some, SomeAt
<1>5. ASSUME Once(r, K), Mine(x, K) => Mine(p, K) \/ ~Some(r, K) PROVE Once(u, K)
  BY <1>1, <1>2, <1>5 DEF Once, OnceAt, Some, SomeAt
<1> QED
  BY <1>3, <1>4, <1>5

\* The oldest completion is dispatched.
LEMMA DispatchedOnce ==
    ASSUME NEW T, NEW r, NEW u, NEW K, r.cq \in Seq(T), r.cq # <<>>,
           u.sq = r.sq, u.pending = r.pending, u.cq = Tail(r.cq)
    PROVE  /\ Once(r, K) => Once(u, K)
           /\ Once(r, K) /\ Mine(Head(r.cq), K) => ~Some(u, K)
           /\ ~Mine(Head(r.cq), K) => (Some(u, K) <=> Some(r, K))
<1>1. Len(r.cq) \in Nat \ {0} /\ Len(u.cq) = Len(r.cq) - 1 /\ Head(r.cq) = r.cq[1]
  OBVIOUS
<1>2. \A i \in 1 .. Len(u.cq) : i + 1 \in 1 .. Len(r.cq) /\ i + 1 # 1 /\ u.cq[i] = r.cq[i + 1]
  OBVIOUS
<1>3. \A i \in 1 .. Len(r.cq) : i = 1 \/ (i - 1 \in 1 .. Len(u.cq) /\ u.cq[i - 1] = r.cq[i])
  OBVIOUS
<1>4. \A i, j \in 1 .. Len(u.cq) : i + 1 = j + 1 => i = j
  OBVIOUS
<1>5. 1 \in 1 .. Len(r.cq)
  BY <1>1
<1>6. ASSUME Once(r, K) PROVE Once(u, K)
  BY <1>2, <1>4, <1>6, Zenon DEF Once, OnceAt
<1>7. ASSUME Once(r, K), Mine(Head(r.cq), K) PROVE ~Some(u, K)
  BY <1>1, <1>2, <1>5, <1>7, Zenon DEF Once, OnceAt, Some, SomeAt
<1>8. ASSUME ~Mine(Head(r.cq), K) PROVE Some(u, K) <=> Some(r, K)
  BY <1>1, <1>2, <1>3, <1>8, Zenon DEF Some, SomeAt
<1> QED
  BY <1>6, <1>7, <1>8

-----------------------------------------------------------------------------
(* Submission *)

\* The table as it is while the loop runs.
TableOK ==
    /\ build \in {"linux", "stub"} /\ conn \in Conns /\ files \in [Fds -> File]
    /\ Sockets /\ files[EventFd] = "event"

\* The fields of a ring.
LEMMA RingFields ==
    ASSUME NEW r \in Rings
    PROVE  /\ r.sq \in Seq(SqEntry) /\ r.pending \in SUBSET PendEntry /\ r.cq \in Seq(CqEntry)
           /\ r.ok \in BOOLEAN /\ Len(r.sq) <= SqSize
           /\ r = [sq |-> r.sq, pending |-> r.pending, cq |-> r.cq, ok |-> r.ok]
BY Zenon DEF Rings

LEMMA RingType ==
    ASSUME NEW s \in Seq(SqEntry), NEW p \in SUBSET PendEntry, NEW q \in Seq(CqEntry), NEW b \in BOOLEAN,
           Len(s) <= SqSize
    PROVE  [sq |-> s, pending |-> p, cq |-> q, ok |-> b] \in Rings
BY DEF Rings

\* A change of one field.
LEMMA RingExcept ==
    ASSUME NEW r \in Rings, NEW v
    PROVE  /\ [r EXCEPT !.sq = v] = [sq |-> v, pending |-> r.pending, cq |-> r.cq, ok |-> r.ok]
           /\ [r EXCEPT !.pending = v] = [sq |-> r.sq, pending |-> v, cq |-> r.cq, ok |-> r.ok]
           /\ [r EXCEPT !.cq = v] = [sq |-> r.sq, pending |-> r.pending, cq |-> v, ok |-> r.ok]
           /\ [r EXCEPT !.ok = v] = [sq |-> r.sq, pending |-> r.pending, cq |-> r.cq, ok |-> v]
<1> DEFINE A == Seq(SqEntry)  B == SUBSET PendEntry  C == Seq(CqEntry)
<1>1. r \in [sq : A, pending : B, cq : C, ok : BOOLEAN]
  BY DEF Rings
<1> HIDE DEF A, B, C
<1> QED
  BY <1>1

\* An entry that is submitted becomes a pending operation or a completion.
LEMMA EntryTypes ==
    ASSUME TableOK, NEW e \in SqEntry
    PROVE  /\ [op |-> e.op, who |-> e.who, res |-> "error"] \in CqEntry
           /\ [op |-> e.op, who |-> e.who, fd |-> e.fd, file |-> files[e.fd]] \in PendEntry
<1>1. e.op \in OpNames /\ e.who \in Whom /\ e.fd \in Fds /\ Names(e)
  BY DEF SqEntry
<1>2. [op |-> e.op, who |-> e.who] \in Ops
  BY <1>1, Zenon DEF Names, Ops
<1>3. [op |-> e.op, who |-> e.who, res |-> "error"] \in CqEntry
  BY <1>1, <1>2 DEF CqEntry
<1> DEFINE p == [op |-> e.op, who |-> e.who, fd |-> e.fd, file |-> files[e.fd]]
<1>4. p \in [op : OpNames, who : Whom, fd : Fds, file : File]
  BY <1>1 DEF TableOK
<1>5. p.op = e.op /\ p.who = e.who /\ p.fd = e.fd /\ p.file = files[e.fd]
  OBVIOUS
<1> HIDE DEF p
<1>6. Names(p)
  BY <1>1, <1>5, Zenon DEF Names
<1>7. Found(p)
  <2>1. ASSUME p.op = "notif" PROVE p.file = "event"
    BY <1>1, <1>5, <2>1 DEF Names, TableOK
  <2>2. ASSUME p.op \in {"read", "write"}, conn[p.who].state # "freed" PROVE p.file = p.who
    <3>1. p.who \in Client /\ p.fd = conn[p.who].fd /\ conn[p.who].state # "none"
      BY <1>6, <2>2 DEF Names
    <3>2. conn[p.who].state \in {"accepted", "live"}
      BY <3>1, <2>2 DEF TableOK, Conns, ConnType
    <3> QED
      BY <3>1, <3>2, <1>5 DEF TableOK, Sockets
  <2> QED
    BY <2>1, <2>2, Zenon DEF Found
<1>8. p \in PendEntry
  BY <1>4, <1>6, <1>7, Zenon DEF PendEntry
<1> QED
  BY <1>3, <1>8 DEF p

LEMMA SubmitType ==
    ASSUME TableOK, NEW r \in Rings, NEW e \in SqEntry
    PROVE  submit(r, e) \in Rings /\ submit(r, e).sq = r.sq /\ submit(r, e).ok = r.ok
<1> DEFINE x == [op |-> e.op, who |-> e.who, res |-> "error"]
           p == [op |-> e.op, who |-> e.who, fd |-> e.fd, file |-> files[e.fd]]
           R == [sq |-> r.sq, pending |-> r.pending, cq |-> Append(r.cq, x), ok |-> r.ok]
           P == [sq |-> r.sq, pending |-> r.pending \cup {p}, cq |-> r.cq, ok |-> r.ok]
<1>1. x \in CqEntry /\ p \in PendEntry
  BY EntryTypes, Zenon
<1>2. submit(r, e) = IF build = "linux" /\ files[e.fd] = "closed" THEN R ELSE P
  <2>1. [r EXCEPT !.cq = Append(@, x)] = R /\ [r EXCEPT !.pending = @ \cup {p}] = P
    BY RingExcept, Zenon
  <2> QED
    BY <2>1, Zenon DEF submit
<1> HIDE DEF x, p
<1>3. Append(r.cq, x) \in Seq(CqEntry) /\ r.pending \cup {p} \in SUBSET PendEntry
  BY <1>1, RingFields
<1>4. R \in Rings /\ P \in Rings
  BY <1>3, RingFields, RingType, Zenon
<1>5. R.sq = r.sq /\ P.sq = r.sq /\ R.ok = r.ok /\ P.ok = r.ok
  OBVIOUS
<1> HIDE DEF R, P
<1> QED
  BY <1>2, <1>4, <1>5

\* After n turns of the loop in submit_and_wait: nothing is lost or doubled.
TakenOK(r, t, n) ==
    /\ t \in Rings /\ t.sq = <<>> /\ t.ok = r.ok
    /\ \A K \in Keys : /\ SomeAt(t, r.sq, n, K) <=> Some(r, K)
                       /\ Once(r, K) => OnceAt(t, r.sq, n, K)

LEMMA TakenTurn ==
    ASSUME TableOK, NEW r \in Rings, NEW n \in 1 .. Len(r.sq), NEW t, TakenOK(r, t, n - 1)
    PROVE  TakenOK(r, submit(t, r.sq[n]), n)
<1> DEFINE e == r.sq[n]
           s == r.sq
           k == n - 1
           u == submit(t, e)
           x == [op |-> e.op, who |-> e.who, res |-> "error"]
           p == [op |-> e.op, who |-> e.who, fd |-> e.fd, file |-> files[e.fd]]
<1>1. s \in Seq(SqEntry) /\ Len(s) \in Nat /\ e \in SqEntry /\ k \in Nat /\ k < Len(s) /\ k + 1 = n
  BY RingFields, SeqFacts
<1>2. t \in Rings /\ t.sq = <<>> /\ t.ok = r.ok /\ t.cq \in Seq(CqEntry) /\ Len(t.cq) \in Nat
  BY RingFields, SeqFacts DEF TakenOK
<1>3. u \in Rings /\ u.sq = t.sq /\ u.ok = t.ok
  BY <1>1, <1>2, SubmitType, Zenon
<1>4. \/ u.cq = t.cq /\ u.pending = t.pending \cup {p}
      \/ u.cq = Append(t.cq, x) /\ u.pending = t.pending
  <2>1. \/ u = [sq |-> t.sq, pending |-> t.pending, cq |-> Append(t.cq, x), ok |-> t.ok]
        \/ u = [sq |-> t.sq, pending |-> t.pending \cup {p}, cq |-> t.cq, ok |-> t.ok]
    BY <1>2, RingExcept, Zenon DEF submit
  <2> HIDE DEF u, x, p
  <2> QED
    BY <2>1
<1>5. \A K \in Keys : (Mine(x, K) <=> Mine(s[k + 1], K)) /\ (Mine(p, K) <=> Mine(s[k + 1], K))
  BY <1>1 DEF Mine
<1>6. ASSUME NEW K \in Keys
      PROVE  /\ SomeAt(u, s, k + 1, K) <=> SomeAt(t, s, k, K)
             /\ OnceAt(t, s, k, K) => OnceAt(u, s, k + 1, K)
  <2> HIDE DEF u, x, p, s, k, e
  <2>1. CASE u.cq = t.cq /\ u.pending = t.pending \cup {p}
    BY <1>1, <1>2, <1>5, <2>1, ToPending, Zenon
  <2>2. CASE u.cq = Append(t.cq, x) /\ u.pending = t.pending
    BY <1>1, <1>2, <1>5, <2>2, ToCompleted, Zenon
  <2> QED
    BY <1>4, <2>1, <2>2
<1>7. \A K \in Keys : (SomeAt(t, s, k, K) <=> Some(r, K)) /\ (Once(r, K) => OnceAt(t, s, k, K))
  BY Zenon DEF TakenOK
<1>8. \A K \in Keys : (SomeAt(u, s, n, K) <=> Some(r, K)) /\ (Once(r, K) => OnceAt(u, s, n, K))
  <2> HIDE DEF u, k, s
  <2> QED
    BY <1>1, <1>6, <1>7
<1> HIDE DEF u
<1>9. TakenOK(r, u, n)
  BY <1>2, <1>3, <1>8 DEF TakenOK
<1> QED
  BY <1>9 DEF u

\* submit_and_wait, and get_sqe on a full queue, take everything that is prepared.
LEMMA SubmittedAll ==
    ASSUME TableOK, NEW r \in Rings
    PROVE  /\ Submitted(r) \in Rings /\ Submitted(r).sq = <<>> /\ Submitted(r).ok = r.ok
           /\ \A K \in Keys : (Some(Submitted(r), K) <=> Some(r, K)) /\ (Once(r, K) => Once(Submitted(r), K))
<1> DEFINE n == Len(r.sq)
           a == [r EXCEPT !.sq = <<>>]
           step == [i \in 1 .. n |-> [t \in Rings |-> submit(t, r.sq[i])]]
           Is(g) == g = [i \in 0 .. n |-> IF i = 0 THEN a ELSE submit(g[i - 1], r.sq[i])]
           f == CHOOSE g : Is(g)
<1>1. n \in Nat /\ \A i \in 1 .. n : r.sq[i] \in SqEntry
  BY RingFields, SeqFacts
<1>2. a \in Rings /\ TakenOK(r, a, 0)
  <2>1. a = [sq |-> <<>>, pending |-> r.pending, cq |-> r.cq, ok |-> r.ok]
    BY RingExcept, Zenon
  <2>2. <<>> \in Seq(SqEntry) /\ Len(<<>>) <= SqSize
    BY SizeAssumption
  <2>3. a \in Rings
    <3>1. r.pending \in SUBSET PendEntry /\ r.cq \in Seq(CqEntry) /\ r.ok \in BOOLEAN
      BY RingFields
    <3>2. [sq |-> <<>>, pending |-> r.pending, cq |-> r.cq, ok |-> r.ok] \in Rings
      BY <2>2, <3>1, RingType, Zenon
    <3> HIDE DEF a
    <3> QED
      BY <2>1, <3>2
  <2>4. a.sq = <<>> /\ a.pending = r.pending /\ a.cq = r.cq /\ a.ok = r.ok
    BY <2>1
  <2> HIDE DEF a
  <2>5. \A K \in Keys : SomeAt(a, r.sq, 0, K) <=> Some(r, K)
    BY <2>4, Zenon DEF Some, SomeAt
  <2>6. \A K \in Keys : Once(r, K) => OnceAt(a, r.sq, 0, K)
    BY <2>4 DEF Once, OnceAt
  <2> QED
    BY <2>3, <2>4, <2>5, <2>6, Zenon DEF TakenOK
<1>3. \A t \in Rings, i \in 1 .. n : submit(t, r.sq[i]) \in Rings
  BY <1>1, SubmitType, Zenon
<1>4. Submitted(r) = f[n]
  BY DEF Submitted
<1> HIDE DEF n, a
<1>5. step \in [1 .. n -> [Rings -> Rings]]
  BY <1>3, Zenon
<1>6. PICK g \in [0 .. n -> Rings] : IsLoop(g, n, a, step)
  <2> HIDE DEF step
  <2>1. LoopInput(n, Rings, a, step)
    BY <1>1, <1>2, <1>5, Zenon DEF LoopInput
  <2> QED
    BY <2>1, LoopExists, Zenon
<1>7. 0 \in 0 .. n /\ n \in 0 .. n /\ \A i \in 1 .. n : i \in 0 .. n /\ i - 1 \in 0 .. n /\ i # 0
  BY <1>1
<1>8. \A i \in 0 .. n : i # 0 => i \in 1 .. n
  BY <1>1
<1>9. \A i \in 0 .. n : g[i] = IF i = 0 THEN a ELSE submit(g[i - 1], r.sq[i])
  BY <1>6, <1>7, <1>8, Zenon DEF IsLoop
<1>10. Is(f)
  <2>1. Is(g)
    BY <1>9, Zenon
  <2> QED
    BY <2>1, Zenon
<1> HIDE DEF f
<1>11. f[0] = a /\ \A i \in 1 .. n : f[i] = submit(f[i - 1], r.sq[i])
  BY <1>7, <1>10
<1> DEFINE S == {i \in 0 .. n : TakenOK(r, f[i], i)}
<1>12. ASSUME NEW i \in 1 .. n, i - 1 \in S PROVE i \in S
  <2>1. i \in 1 .. Len(r.sq) /\ TakenOK(r, f[i - 1], i - 1)
    BY <1>12 DEF n
  <2>2. TakenOK(r, f[i], i)
    BY <1>11, <2>1, TakenTurn
  <2> QED
    BY <1>7, <2>2
<1>13. 0 \in S
  BY <1>2, <1>7, <1>11
<1>14. n \in S
  <2> HIDE DEF S
  <2>1. KeptByTurns(S, n)
    BY <1>12, <1>13, Zenon DEF KeptByTurns
  <2> QED
    BY <1>1, <1>7, <2>1, Turns
<1> DEFINE u == f[n]
<1>15. TakenOK(r, u, n)
  BY <1>14
<1>16. ASSUME NEW K \in Keys
       PROVE  (Some(u, K) <=> SomeAt(u, r.sq, n, K)) /\ (Once(u, K) <=> OnceAt(u, r.sq, n, K))
  <2>1. u.sq = <<>>
    BY <1>15 DEF TakenOK
  <2>2. 0 + 1 .. Len(u.sq) = {} /\ n + 1 .. Len(r.sq) = {}
    BY <1>1, <2>1 DEF n
  <2> QED
    BY <2>2, Zenon DEF Some, Once, SomeAt, OnceAt
<1> QED
  BY <1>4, <1>15, <1>16, Zenon DEF TakenOK

\* Entry e is prepared, the ring is w then.
Puts(r, w, e) ==
    /\ w \in Rings
    /\ \A K \in Keys : /\ Some(w, K) <=> Some(r, K) \/ Mine(e, K)
                       /\ Once(r, K) /\ (Mine(e, K) => ~Some(r, K)) => Once(w, K)

\* get_sqe prepares the entry whether or not it had to submit first; or it throws.
LEMMA GetSqe ==
    ASSUME TableOK, NEW r \in Rings, NEW e \in SqEntry, NEW w \in get_sqe(r, e)
    PROVE  /\ w \in Rings
           /\ ~r.ok => w = r
           /\ r.ok /\ ~w.ok => build = "linux"
           /\ r.ok /\ w.ok => Puts(r, w, e)
<1> DEFINE t == Submitted(r)
           A == [sq |-> Append(r.sq, e), pending |-> r.pending, cq |-> r.cq, ok |-> r.ok]
           B == [sq |-> <<e>>, pending |-> t.pending, cq |-> t.cq, ok |-> t.ok]
           C == [sq |-> r.sq, pending |-> r.pending, cq |-> r.cq, ok |-> FALSE]
<1>1. /\ r.sq \in Seq(SqEntry) /\ r.pending \in SUBSET PendEntry /\ r.cq \in Seq(CqEntry)
      /\ r.ok \in BOOLEAN /\ Len(r.sq) <= SqSize /\ Len(r.sq) \in Nat
  BY RingFields, SeqFacts
<1>2. /\ t \in Rings /\ t.sq = <<>> /\ t.ok = r.ok
      /\ \A K \in Keys : (Some(t, K) <=> Some(r, K)) /\ (Once(r, K) => Once(t, K))
  BY SubmittedAll
<1>3. \/ ~r.ok /\ w = r
      \/ r.ok /\ Len(r.sq) < SqSize /\ w = A
      \/ r.ok /\ w = B
      \/ r.ok /\ build = "linux" /\ w = C
  BY <1>2, RingExcept, Zenon DEF get_sqe
<1> HIDE DEF t
<1>4. CASE ~r.ok /\ w = r
  BY <1>4
<1>5. CASE r.ok /\ Len(r.sq) < SqSize /\ w = A
  <2>1. Append(r.sq, e) \in Seq(SqEntry) /\ Len(Append(r.sq, e)) <= SqSize
    BY <1>1, <1>5, SizeAssumption
  <2>2. w \in Rings
    <3>1. A \in Rings
      BY <1>1, <2>1, RingType, Zenon
    <3> QED
      BY <1>5, <3>1
  <2>3. w.sq = Append(r.sq, e) /\ w.pending = r.pending /\ w.cq = r.cq /\ w.ok = r.ok
    BY <1>5
  <2>4. Puts(r, w, e)
    BY <1>1, <2>2, <2>3, Prepared, Zenon DEF Puts
  <2> QED
    BY <1>5, <2>2, <2>3, <2>4
<1>6. CASE r.ok /\ w = B
  <2>1. <<e>> = Append(<<>>, e) /\ <<e>> \in Seq(SqEntry) /\ Len(<<e>>) <= SqSize
    BY SizeAssumption
  <2>2. t.pending \in SUBSET PendEntry /\ t.cq \in Seq(CqEntry) /\ t.ok \in BOOLEAN
    BY <1>2, RingFields
  <2>3. w \in Rings
    <3>1. B \in Rings
      BY <2>1, <2>2, RingType, Zenon
    <3> QED
      BY <1>6, <3>1
  <2>4. w.sq = Append(t.sq, e) /\ w.pending = t.pending /\ w.cq = t.cq /\ w.ok = r.ok
    BY <1>2, <1>6, <2>1, Zenon
  <2>5. t.sq \in Seq(SqEntry)
    BY <1>2, RingFields
  <2>6. ASSUME NEW K \in Keys
        PROVE  /\ Some(w, K) <=> Some(t, K) \/ Mine(e, K)
               /\ Once(t, K) /\ (Mine(e, K) => ~Some(t, K)) => Once(w, K)
    BY <2>4, <2>5, Prepared, Zenon
  <2>7. Puts(r, w, e)
    BY <1>2, <2>3, <2>6, Zenon DEF Puts
  <2> QED
    BY <1>6, <2>3, <2>4, <2>7, Zenon
<1>7. CASE r.ok /\ build = "linux" /\ w = C
  <2>1. C \in Rings /\ C.ok = FALSE
    BY <1>1, RingType, Zenon
  <2> QED
    BY <1>7, <2>1
<1> QED
  BY <1>3, <1>4, <1>5, <1>6, <1>7

\* The entries of the handlers.
LEMMA EntriesOK ==
    ASSUME TableOK
    PROVE  /\ AcceptOp \in SqEntry /\ NotificationOp \in SqEntry
           /\ \A c \in Client : conn[c].state # "none" =>
                /\ ReadOp(c, conn[c].fd) \in SqEntry
                /\ WriteOp(c, conn[c].fd) \in SqEntry
<1>1. 0 \in Fds /\ 1 \in Fds /\ 2 \in Fds
  BY SizeAssumption DEF Fds
<1>2. AcceptOp \in SqEntry
  BY <1>1 DEF AcceptOp, SqEntry, Names, OpNames, Whom, ListenFd
<1>3. NotificationOp \in SqEntry
  BY <1>1 DEF NotificationOp, SqEntry, Names, OpNames, Whom, EventFd
<1>4. ASSUME NEW c \in Client, conn[c].state # "none"
      PROVE  ReadOp(c, conn[c].fd) \in SqEntry /\ WriteOp(c, conn[c].fd) \in SqEntry
  <2>1. conn[c].fd \in Fds
    BY DEF TableOK, Conns, ConnType
  <2> QED
    BY <1>4, <2>1 DEF ReadOp, WriteOp, SqEntry, Names, OpNames, Whom
<1> QED
  BY <1>2, <1>3, <1>4

\* What the entries are, for the keys.
LEMMA KeysOf ==
    /\ \A K \in Keys : Mine(AcceptOp, K) => K = Accepting
    /\ \A K \in Keys : Mine(NotificationOp, K) <=> K = Notified
    /\ \A c \in Client : \A fd : \A K \in Keys : Mine(ReadOp(c, fd), K) <=> K = Key("read", c)
    /\ \A c \in Client : \A fd : \A K \in Keys : Mine(WriteOp(c, fd), K) <=> K = Key("write", c)
    /\ Accepting \in Keys /\ Notified \in Keys /\ Mine(AcceptOp, Accepting)
    /\ \A c \in Client : Key("accept", c) \in Keys /\ Key("read", c) \in Keys /\ Key("write", c) \in Keys
<1>1. ASSUME NEW K \in Keys
      PROVE  \/ K = Accepting \/ K = Notified
             \/ \E op \in {"accept", "read", "write"}, c \in Client : K = Key(op, c)
  BY DEF Keys
<1>2. \A op, who : /\ <<op, who>> \in Accepting <=> op = "accept" /\ who \in Client \cup {"listen"}
                   /\ <<op, who>> \in Notified <=> op = "notif" /\ who = "event"
                   /\ \A o, c : <<op, who>> \in Key(o, c) <=> op = o /\ who = c
  BY DEF Accepting, Notified, Key
<1>3. /\ \A K : Mine(AcceptOp, K) <=> <<"accept", "listen">> \in K
      /\ \A K : Mine(NotificationOp, K) <=> <<"notif", "event">> \in K
      /\ \A c, fd : \A K : Mine(ReadOp(c, fd), K) <=> <<"read", c>> \in K
      /\ \A c, fd : \A K : Mine(WriteOp(c, fd), K) <=> <<"write", c>> \in K
  BY DEF Mine, AcceptOp, NotificationOp, ReadOp, WriteOp
<1>4. "listen" \notin Client /\ "event" \notin Client
  BY ClientAssumption
<1>5. ASSUME NEW K \in Keys PROVE Mine(AcceptOp, K) => K = Accepting
  <2> SUFFICES ASSUME Mine(AcceptOp, K) PROVE K = Accepting
    OBVIOUS
  <2>1. <<"accept", "listen">> \in K
    BY <1>3
  <2>2. K # Notified
    BY <1>2, <2>1
  <2>3. \A op, c : K = Key(op, c) => c = "listen"
    BY <1>2, <2>1
  <2> QED
    BY <1>1, <1>4, <2>2, <2>3
<1>6. ASSUME NEW K \in Keys PROVE Mine(NotificationOp, K) <=> K = Notified
  BY <1>1, <1>2, <1>3
<1>7. ASSUME NEW K \in Keys, NEW c \in Client, NEW fd
      PROVE  /\ Mine(ReadOp(c, fd), K) <=> K = Key("read", c)
             /\ Mine(WriteOp(c, fd), K) <=> K = Key("write", c)
  <2>1. ASSUME NEW o \in {"read", "write"}, <<o, c>> \in K PROVE K = Key(o, c)
    <3>1. K # Accepting /\ K # Notified
      BY <1>2, <2>1
    <3>2. PICK op \in {"accept", "read", "write"}, d \in Client : K = Key(op, d)
      BY <1>1, <3>1
    <3> QED
      BY <1>2, <2>1, <3>2
  <2>2. <<"read", c>> \in Key("read", c) /\ <<"write", c>> \in Key("write", c)
    BY <1>2
  <2> QED
    BY <1>3, <2>1, <2>2
<1>8. Accepting \in Keys /\ Notified \in Keys /\ Mine(AcceptOp, Accepting)
  BY <1>2, <1>3 DEF Keys
<1>9. ASSUME NEW c \in Client
      PROVE  Key("accept", c) \in Keys /\ Key("read", c) \in Keys /\ Key("write", c) \in Keys
  BY DEF Keys
<1> QED
  BY <1>5, <1>6, <1>7, <1>8, <1>9, Zenon

\* Which keys name an entry.
LEMMA MineOf ==
    ASSUME NEW e
    PROVE  /\ \A op, c : Mine(e, Key(op, c)) <=> e.op = op /\ e.who = c
           /\ Mine(e, Accepting) <=> e.op = "accept" /\ e.who \in Client \cup {"listen"}
           /\ Mine(e, Notified) <=> e.op = "notif" /\ e.who = "event"
BY DEF Mine, Key, Accepting, Notified

\* The Connections go on from state to state, and keep their numbers.
Grows ==
    /\ build' = build
    /\ \A c \in Client : /\ conn[c].state # "none" => conn'[c].fd = conn[c].fd /\ conn'[c].state # "none"
                         /\ conn[c].state = "freed" => conn'[c].state = "freed"

\* So what the entries in the ring name stays true.
LEMMA RingsGrow ==
    ASSUME Grows
    PROVE  \A r \in Rings : r \in Rings'
<1>1. EventFd' = EventFd
  BY DEF EventFd, Grows
<1>2. ASSUME NEW e, Names(e) PROVE Names(e)'
  BY <1>1, <1>2, Zenon DEF Names, Grows, ListenFd
<1>3. SqEntry \subseteq SqEntry'
  BY <1>2 DEF SqEntry
<1>4. ASSUME NEW p, Names(p), Found(p) PROVE Found(p)'
  BY <1>4 DEF Names, Found, Grows
<1>5. PendEntry \subseteq PendEntry'
  BY <1>2, <1>4 DEF PendEntry
<1>6. CqEntry' = CqEntry
  BY DEF CqEntry, Ops
<1>7. Seq(SqEntry) \subseteq Seq(SqEntry')
  BY <1>3
<1> SUFFICES ASSUME NEW r \in Rings PROVE r \in Rings'
  OBVIOUS
<1>8. /\ r.sq \in Seq(SqEntry') /\ r.pending \in SUBSET PendEntry' /\ r.cq \in Seq(CqEntry')
      /\ r.ok \in BOOLEAN /\ Len(r.sq) <= SqSize
  BY <1>5, <1>6, <1>7, RingFields
<1>9. r = [sq |-> r.sq, pending |-> r.pending, cq |-> r.cq, ok |-> r.ok]
  BY RingFields
<1> QED
  BY <1>8, <1>9 DEF Rings

-----------------------------------------------------------------------------
(* The steps of a handler *)

\* What a handler may count on.
LEMMA Handling ==
    ASSUME IInv, Running
    PROVE  TableOK /\ Now \in Rings /\ RingOK(Now, conn)
BY DEF IInv, Types, OwnFds, TableOK, Running

\* The completion is taken out of the ring: its operation is nowhere now.
LEMMA Dispatched ==
    ASSUME Now \in Rings, cq # <<>>
    PROVE  /\ Ring \in Rings /\ Ring.ok /\ Head(cq) \in CqEntry
           /\ \A K \in Keys : /\ Once(Now, K) => Once(Ring, K)
                              /\ Once(Now, K) /\ Mine(Head(cq), K) => ~Some(Ring, K)
                              /\ ~Mine(Head(cq), K) => (Some(Ring, K) <=> Some(Now, K))
<1> DEFINE n == Now
           r == Ring
<1>1. n.sq = sq /\ n.pending = pending /\ n.cq = cq /\ r.sq = sq /\ r.pending = pending /\ r.cq = Tail(cq) /\ r.ok
  BY DEF Now, Ring
<1>2. sq \in Seq(SqEntry) /\ pending \in SUBSET PendEntry /\ cq \in Seq(CqEntry) /\ Len(sq) <= SqSize
  BY <1>1, RingFields
<1>3. Tail(cq) \in Seq(CqEntry) /\ Head(cq) \in CqEntry
  BY <1>2
<1>4. Ring \in Rings
  BY <1>2, <1>3, RingType, Zenon DEF Ring
<1> HIDE DEF n, r
<1>5. ASSUME NEW K
      PROVE  /\ Once(n, K) => Once(r, K)
             /\ Once(n, K) /\ Mine(Head(n.cq), K) => ~Some(r, K)
             /\ ~Mine(Head(n.cq), K) => (Some(r, K) <=> Some(n, K))
  BY <1>1, <1>2, DispatchedOnce, Zenon
<1> QED
  BY <1>1, <1>3, <1>4, <1>5 DEF n, r

\* The operations that outlived their Connections are where they were.
Kept(r) ==
    \A c \in Client : conn[c].state = "freed" =>
        /\ Some(Now, Key("read", c)) => Some(r, Key("read", c))
        /\ Some(Now, Key("write", c)) => Some(r, Key("write", c))

\* The core's own descriptors are.
OwnKept == \A n \in Fds : files[n] \in {"event", "listen"} => files'[n] = files[n]

LEMMA OwnFdsKept ==
    ASSUME IInv, loop' = loop \/ Running, build' = build, OwnKept
    PROVE  OwnFds'
<1>1. EventFd' = EventFd /\ EventFd \in Fds /\ NotifyFd \in Fds /\ ListenFd \in Fds
  BY SizeAssumption DEF EventFd, NotifyFd, ListenFd, Fds
<1>2. OwnFds /\ \A n \in Fds : files[n] \in {"event", "listen"} => files'[n] = files[n]
  BY DEF IInv, OwnKept
<1>3. CASE loop' = loop
  BY <1>1, <1>2, <1>3 DEF OwnFds, NotifyFd, ListenFd
<1>4. CASE Running
  <2>1. /\ files[ListenFd] = "listen" /\ files[EventFd] = "event"
        /\ build = "stub" => files[NotifyFd] = "event"
    BY <1>2, <1>4 DEF OwnFds, Running
  <2>2. /\ files'[ListenFd] = "listen" /\ files'[EventFd] = "event"
        /\ build = "stub" => files'[NotifyFd] = "event"
    BY <1>1, <1>2, <2>1
  <2> QED
    BY <1>1, <2>2 DEF OwnFds, NotifyFd, ListenFd
<1> QED
  BY <1>3, <1>4

\* A deleted Connection that has left an operation behind still does.
LEMMA LeftoverKept ==
    ASSUME Grows, NEW r, Kept(r), Leftover(Now, conn)
    PROVE  Leftover(r, conn')
BY DEF Grows, Kept, Leftover

\* The end of a handler, whose changes leave the ring r.
HandlerOK(r) ==
    /\ r \in Rings
    /\ r.ok => RingOK(r, conn') /\ Kept(r) /\ Sockets'
    /\ ~r.ok => build = "linux"

LEMMA Leaves ==
    ASSUME IInv, loop = "handlers", NEW r, Leave(r), HandlerOK(r), Grows, OwnKept,
           conn' \in Conns, files' \in [Fds -> File], harm' = harm
    PROVE  IInv'
<1>1. build' = build /\ build \in {"linux", "stub"} /\ Running
  BY DEF Grows, IInv, Types, Running
<1>2. CASE r.ok
  <2>1. loop' = loop /\ cause' = cause /\ sq' = r.sq /\ pending' = r.pending /\ cq' = r.cq
    BY <1>2 DEF Leave
  <2>2. r.ok = TRUE
    BY <1>2, RingFields DEF HandlerOK
  <2>3. Now' = r
    BY <2>1, <2>2, RingFields DEF Now, HandlerOK
  <2>4. r \in Rings'
    BY RingsGrow DEF HandlerOK
  <2>5. Types'
    BY <1>1, <2>1, <2>3, <2>4 DEF Types, IInv, Conns, File, Fds
  <2>6. OwnFds'
    BY <1>1, <2>1, OwnFdsKept
  <2>7. Harms'
    <3>1. Running' /\ loop' # "ended"
      BY <2>1 DEF Running
    <3>2. {"read", "write", "notif"} \cap harm # {} => Leftover(r, conn')
      BY <1>1, <1>2, LeftoverKept DEF IInv, Harms, HandlerOK
    <3>3. harm \in SUBSET {"read", "write", "notif", "close", "wake"} /\ "close" \notin harm /\ "wake" \notin harm
      BY <1>1 DEF IInv, Harms
    <3> QED
      BY <2>3, <3>1, <3>2, <3>3 DEF Harms
  <2> QED
    BY <1>2, <2>3, <2>5, <2>6, <2>7 DEF IInv, HandlerOK
<1>3. CASE ~r.ok
  <2>1. loop' = "unwind" /\ cause' = "refused" /\ Abandoned /\ build = "linux"
    BY <1>3 DEF Leave, HandlerOK
  <2>2. Now' = [sq |-> <<>>, pending |-> {}, cq |-> <<>>, ok |-> TRUE]
    BY <2>1 DEF Abandoned, Now
  <2>3. Now' \in Rings'
    BY <2>2, SizeAssumption DEF Rings
  <2>4. Types'
    BY <1>1, <2>1, <2>3 DEF Types, IInv, Conns, File, Fds
  <2>5. OwnFds'
    BY <1>1, <2>1, OwnFdsKept
  <2>6. ~Running'
    BY <2>1 DEF Running
  <2>7. Harms'
    BY <1>1, <2>6 DEF IInv, Harms
  <2> QED
    BY <2>4, <2>5, <2>6, <2>7 DEF IInv
<1> QED
  BY <1>2, <1>3

\* Keys are told apart by what they name.
LEMMA KeysDiffer ==
    /\ Accepting # Notified
    /\ \A op : \A c \in Client : Key(op, c) # Accepting /\ Key(op, c) # Notified
    /\ \A op, o, c, d : Key(op, c) = Key(o, d) <=> op = o /\ c = d
<1>1. \A op, who : /\ <<op, who>> \in Accepting <=> op = "accept" /\ who \in Client \cup {"listen"}
                   /\ <<op, who>> \in Notified <=> op = "notif" /\ who = "event"
                   /\ \A o, c : <<op, who>> \in Key(o, c) <=> op = o /\ who = c
  BY DEF Accepting, Notified, Key
<1>2. "listen" \notin Client /\ "event" \notin Client
  BY ClientAssumption
<1>3. <<"accept", "listen">> \in Accepting /\ <<"accept", "listen">> \notin Notified
  BY <1>1
<1>4. ASSUME NEW op, NEW c \in Client PROVE Key(op, c) # Accepting /\ Key(op, c) # Notified
  <2>1. <<"accept", "listen">> \notin Key(op, c) /\ <<"notif", "event">> \notin Key(op, c)
    BY <1>1, <1>2
  <2>2. <<"notif", "event">> \in Notified
    BY <1>1
  <2> QED
    BY <1>3, <2>1, <2>2
<1>5. ASSUME NEW op, NEW c, NEW o, NEW d PROVE Key(op, c) = Key(o, d) <=> op = o /\ c = d
  <2>1. ASSUME Key(op, c) = Key(o, d) PROVE op = o /\ c = d
    <3>1. <<op, c>> \in Key(o, d)
      BY <1>1, <2>1
    <3> QED
      BY <1>1, <3>1
  <2> QED
    BY <2>1
<1> QED
  BY <1>3, <1>4, <1>5

\* A handler so far: the operations with keys Y have been taken out of the ring,
\* those with keys X have been prepared.
Turned(r, Y, X) ==
    /\ r \in Rings
    /\ \A K \in Keys : Once(r, K) /\ (Some(r, K) <=> (Some(Now, K) /\ K \notin Y) \/ K \in X)

\* The keys of the completion that is dispatched.
KeysAt(e) == {K \in Keys : Mine(e, K)}

LEMMA TurnedFirst ==
    ASSUME IInv, loop = "handlers", cq # <<>>
    PROVE  Turned(Ring, KeysAt(Head(cq)), {}) /\ Ring.ok
<1>1. Now \in Rings /\ \A K \in Keys : Once(Now, K)
  BY Handling DEF Running, RingOK
<1>2. /\ Ring \in Rings /\ Ring.ok
      /\ \A K \in Keys : /\ Once(Now, K) => Once(Ring, K)
                         /\ Once(Now, K) /\ Mine(Head(cq), K) => ~Some(Ring, K)
                         /\ ~Mine(Head(cq), K) => (Some(Ring, K) <=> Some(Now, K))
  BY <1>1, Dispatched
<1> QED
  BY <1>1, <1>2, Zenon DEF Turned, KeysAt

LEMMA KeysAtHead ==
    ASSUME NEW e
    PROVE  /\ e.op = "notif" /\ e.who = "event" => KeysAt(e) = {Notified}
           /\ e.op = "accept" /\ e.who = "listen" => KeysAt(e) = {Accepting}
           /\ \A c \in Client : e.op = "accept" /\ e.who = c => KeysAt(e) = {Accepting, Key("accept", c)}
           /\ \A op \in {"read", "write"}, c \in Client : e.op = op /\ e.who = c => KeysAt(e) = {Key(op, c)}
<1>1. \A K : K \in Keys <=> \/ K = Accepting \/ K = Notified
                            \/ \E op \in {"accept", "read", "write"}, d \in Client : K = Key(op, d)
  BY DEF Keys
<1>2. \A op, d : Mine(e, Key(op, d)) <=> e.op = op /\ e.who = d
  BY MineOf
<1>3. Mine(e, Accepting) <=> e.op = "accept" /\ e.who \in Client \cup {"listen"}
  BY MineOf
<1>4. Mine(e, Notified) <=> e.op = "notif" /\ e.who = "event"
  BY MineOf
<1>5. "listen" \notin Client /\ "event" \notin Client
  BY ClientAssumption
<1>6. ASSUME e.op = "notif", e.who = "event" PROVE KeysAt(e) = {Notified}
  BY <1>1, <1>2, <1>3, <1>4, <1>6 DEF KeysAt
<1>7. ASSUME e.op = "accept", e.who = "listen" PROVE KeysAt(e) = {Accepting}
  BY <1>1, <1>2, <1>3, <1>4, <1>5, <1>7 DEF KeysAt
<1>8. ASSUME NEW c \in Client, e.op = "accept", e.who = c PROVE KeysAt(e) = {Accepting, Key("accept", c)}
  <2>1. Accepting \in KeysAt(e) /\ Key("accept", c) \in KeysAt(e)
    BY <1>1, <1>2, <1>3, <1>8 DEF KeysAt
  <2>2. ASSUME NEW K \in KeysAt(e) PROVE K \in {Accepting, Key("accept", c)}
    <3>1. K \in Keys /\ Mine(e, K)
      BY DEF KeysAt
    <3>2. K # Notified
      BY <1>4, <1>8, <3>1
    <3>3. \A op, d : K = Key(op, d) => op = "accept" /\ d = c
      BY <1>2, <1>8, <3>1
    <3> QED
      BY <1>1, <3>1, <3>2, <3>3
  <2> QED
    BY <2>1, <2>2
<1>9. ASSUME NEW op \in {"read", "write"}, NEW c \in Client, e.op = op, e.who = c PROVE KeysAt(e) = {Key(op, c)}
  <2>1. Key(op, c) \in KeysAt(e)
    BY <1>1, <1>2, <1>9 DEF KeysAt
  <2>2. ASSUME NEW K \in KeysAt(e) PROVE K = Key(op, c)
    <3>1. K \in Keys /\ Mine(e, K)
      BY DEF KeysAt
    <3>2. K # Notified /\ K # Accepting
      BY <1>3, <1>4, <1>9, <3>1
    <3>3. \A o, d : K = Key(o, d) => o = op /\ d = c
      BY <1>2, <1>9, <3>1
    <3> QED
      BY <1>1, <3>1, <3>2, <3>3
  <2> QED
    BY <2>1, <2>2
<1> QED
  BY <1>6, <1>7, <1>8, <1>9

\* One more entry, whose operation is nowhere.
LEMMA TurnedNext ==
    ASSUME TableOK, NEW r, NEW Y, NEW X, Turned(r, Y, X), r.ok, NEW e \in SqEntry, NEW k \in Keys,
           \A K \in Keys : Mine(e, K) => K = k, Mine(e, k),
           k \notin X, k \in Y \/ ~Some(Now, k), NEW w \in get_sqe(r, e)
    PROVE  /\ w \in Rings
           /\ w.ok => Turned(w, Y, X \cup {k})
           /\ ~w.ok => build = "linux"
<1>1. r \in Rings
  BY DEF Turned
<1>2. w \in Rings /\ (~w.ok => build = "linux") /\ (w.ok => Puts(r, w, e))
  BY <1>1, GetSqe
<1>3. ASSUME w.ok PROVE Turned(w, Y, X \cup {k})
  <2>1. \A K \in Keys : /\ Some(w, K) <=> Some(r, K) \/ Mine(e, K)
                        /\ Once(r, K) /\ (Mine(e, K) => ~Some(r, K)) => Once(w, K)
    BY <1>2, <1>3, Zenon DEF Puts
  <2>2. \A K \in Keys : Once(r, K) /\ (Some(r, K) <=> (Some(Now, K) /\ K \notin Y) \/ K \in X)
    BY Zenon DEF Turned
  <2>3. ~Some(r, k)
    BY <2>2
  <2>4. \A K \in Keys : Mine(e, K) <=> K = k
    OBVIOUS
  <2>5. \A K \in Keys : Once(w, K)
    BY <2>1, <2>2, <2>3, <2>4
  <2>6. \A K \in Keys : Some(w, K) <=> (Some(Now, K) /\ K \notin Y) \/ K \in X \cup {k}
    BY <2>1, <2>2, <2>4
  <2> QED
    BY <1>2, <2>5, <2>6, Zenon DEF Turned
<1> QED
  BY <1>2, <1>3

\* What a handler does not touch of a Connection.
LEMMA TurnedSame ==
    ASSUME RingOK(Now, conn), NEW r, NEW Y, NEW X, Turned(r, Y, X), NEW c \in Client,
           \A op \in {"accept", "read", "write"} : Key(op, c) \notin Y /\ Key(op, c) \notin X
    PROVE  /\ Held(r, conn[c], c)
           /\ Some(r, Key("read", c)) <=> Some(Now, Key("read", c))
           /\ Some(r, Key("write", c)) <=> Some(Now, Key("write", c))
<1>1. ASSUME NEW op \in {"accept", "read", "write"} PROVE Some(r, Key(op, c)) <=> Some(Now, Key(op, c))
  <2>1. Key(op, c) \in Keys
    BY KeysOf
  <2> QED
    BY <2>1 DEF Turned
<1>2. /\ Some(r, Key("accept", c)) <=> Some(Now, Key("accept", c))
      /\ Some(r, Key("read", c)) <=> Some(Now, Key("read", c))
      /\ Some(r, Key("write", c)) <=> Some(Now, Key("write", c))
  BY <1>1
<1>3. Held(Now, conn[c], c)
  BY DEF RingOK
<1> QED
  BY <1>2, <1>3, Zenon DEF Held

\* The start of a handler.
LEMMA Started ==
    ASSUME IInv, NEW op, NEW who, NEW res, Dispatch(op, who, res)
    PROVE  /\ TableOK /\ Now \in Rings /\ RingOK(Now, conn) /\ loop = "handlers"
           /\ Ring.ok /\ Turned(Ring, KeysAt(Head(cq)), {})
           /\ Head(cq).op = op /\ Head(cq).who = who /\ Head(cq) \in CqEntry
BY Handling, TurnedFirst, Dispatched DEF Dispatch, Running

LEMMA AcceptErrorStep ==
    ASSUME IInv, handle_accept_error
    PROVE  IInv'
<1>1. /\ TableOK /\ RingOK(Now, conn) /\ loop = "handlers"
      /\ Ring.ok /\ Turned(Ring, KeysAt(Head(cq)), {})
      /\ Head(cq).op = "accept" /\ Head(cq).who = "listen"
  BY Started DEF handle_accept_error
<1>2. KeysAt(Head(cq)) = {Accepting}
  BY <1>1, KeysAtHead
<1>3. PICK r \in get_sqe(Ring, AcceptOp) : Leave(r)
  BY DEF handle_accept_error
<1>4. build' = build /\ files' = files /\ conn' = conn /\ harm' = harm
  BY DEF handle_accept_error
<1>5. /\ r \in Rings
      /\ r.ok => Turned(r, {Accepting}, {} \cup {Accepting})
      /\ ~r.ok => build = "linux"
  BY <1>1, <1>2, EntriesOK, KeysOf, TurnedNext
<1>6. ASSUME r.ok PROVE RingOK(r, conn') /\ Kept(r)
  <2>1. Turned(r, {Accepting}, {Accepting})
    BY <1>5, <1>6, Zenon
  <2>2. \A K \in Keys : Once(r, K) /\ (Some(r, K) <=> Some(Now, K) \/ K = Accepting)
    BY <1>1, <2>1 DEF Turned, RingOK
  <2>3. Some(r, Accepting) /\ Some(r, Notified)
    BY <1>1, <2>2, KeysOf DEF RingOK
  <2>4. ASSUME NEW c \in Client
        PROVE  /\ Held(r, conn[c], c)
               /\ Some(r, Key("read", c)) <=> Some(Now, Key("read", c))
               /\ Some(r, Key("write", c)) <=> Some(Now, Key("write", c))
    BY <1>1, <2>1, KeysDiffer, TurnedSame
  <2> QED
    BY <1>4, <2>2, <2>3, <2>4, Zenon DEF RingOK, Kept
<1>7. Sockets'
  BY <1>1, <1>4, Zenon DEF TableOK, Sockets
<1>8. HandlerOK(r)
  BY <1>5, <1>6, <1>7 DEF HandlerOK
<1>9. Grows /\ OwnKept /\ conn' \in Conns /\ files' \in [Fds -> File]
  BY <1>1, <1>4 DEF Grows, OwnKept, TableOK
<1> QED
  BY <1>1, <1>3, <1>4, <1>8, <1>9, Leaves

\* The Connection of a completion is in the state that its operation has it in.
LEMMA StateOf ==
    ASSUME IInv, NEW op \in {"accept", "read", "write"}, NEW c \in Client, NEW res, Dispatch(op, c, res)
    PROVE  /\ Some(Now, Key(op, c)) /\ Held(Now, conn[c], c)
           /\ op = "accept" => conn[c].state = "accepted"
           /\ op # "accept" => conn[c].state = "live"
<1>1. cq # <<>> /\ conn[c].state # "freed"
  BY DEF Dispatch
<1>2. Now \in Rings /\ RingOK(Now, conn) /\ TableOK /\ Head(cq).op = op /\ Head(cq).who = c
  BY Started
<1>3. cq \in Seq(CqEntry) /\ Now.cq = cq
  BY <1>2, RingFields DEF Now
<1>4. 1 \in 1 .. Len(Now.cq) /\ Now.cq[1] = Head(cq)
  BY <1>1, <1>3
<1>5. Mine(Now.cq[1], Key(op, c))
  BY <1>2, <1>4, MineOf
<1>6. Some(Now, Key(op, c))
  BY <1>4, <1>5, Zenon DEF Some, SomeAt
<1>7. Held(Now, conn[c], c)
  BY <1>2 DEF RingOK
<1>8. conn[c].state \in {"none", "accepted", "live"}
  BY <1>1, <1>2 DEF TableOK, Conns, ConnType
<1> QED
  BY <1>6, <1>7, <1>8, Zenon DEF Held

\* Nothing but the write side of some Connections changes.
LEMMA QueuesOnly ==
    ASSUME IInv, Running, build' = build, files' = files, conn' \in Conns,
           \A c \in Client : conn'[c].fd = conn[c].fd /\ conn'[c].state = conn[c].state
    PROVE  Grows /\ OwnKept /\ Sockets' /\ files' \in [Fds -> File]
<1>1. TableOK
  BY Handling
<1>2. Sockets'
  BY <1>1 DEF TableOK, Sockets
<1> QED
  BY <1>1, <1>2 DEF Grows, OwnKept, TableOK

LEMMA ConnExcept ==
    ASSUME NEW d \in ConnType, NEW b, NEW q
    PROVE  [d EXCEPT !.is_writing = b, !.queue = q]
           = [state |-> d.state, fd |-> d.fd, is_writing |-> b, queue |-> q]
<1> DEFINE A == {"none", "accepted", "live", "freed"}
           Q == 0 .. MaxQueue
           e == [state |-> d.state, fd |-> d.fd, is_writing |-> b, queue |-> d.queue]
<1>1. d \in [state : A, fd : Fds, is_writing : BOOLEAN, queue : Q]
  BY DEF ConnType
<1> HIDE DEF A, Q
<1>2. [d EXCEPT !.is_writing = b] = e
  BY <1>1
<1>3. [e EXCEPT !.queue = q] = [state |-> d.state, fd |-> d.fd, is_writing |-> b, queue |-> q]
  OBVIOUS
<1>4. [d EXCEPT !.is_writing = b, !.queue = q] = [[d EXCEPT !.is_writing = b] EXCEPT !.queue = q]
  OBVIOUS
<1> QED
  BY <1>2, <1>3, <1>4, Zenon

\* The changes of handle_read, of handle_write and of a response.
LEMMA QueueTypes ==
    ASSUME TableOK, NEW c \in Client
    PROVE  /\ conn[c] \in ConnType
           /\ MayReply(c) => /\ Queued(c) \in ConnType
                             /\ Queued(c).state = conn[c].state /\ Queued(c).fd = conn[c].fd
                             /\ Queued(c).is_writing = TRUE /\ Queued(c).queue = conn[c].queue + 1
<1> DEFINE d == conn[c]
<1>1. d \in ConnType
  BY DEF TableOK, Conns
<1>2. ASSUME MayReply(c)
      PROVE  Queued(c) = [state |-> d.state, fd |-> d.fd, is_writing |-> TRUE, queue |-> d.queue + 1]
             /\ d.queue + 1 \in 0 .. MaxQueue
  <2>1. d.queue < MaxQueue /\ Queued(c) = [d EXCEPT !.is_writing = TRUE, !.queue = @ + 1]
    BY <1>2 DEF MayReply, Queued
  <2> HIDE DEF d
  <2>2. [d EXCEPT !.is_writing = TRUE, !.queue = @ + 1]
        = [state |-> d.state, fd |-> d.fd, is_writing |-> TRUE, queue |-> d.queue + 1]
    BY <1>1, ConnExcept, Zenon
  <2>3. d.queue \in 0 .. MaxQueue
    BY <1>1 DEF ConnType
  <2>4. d.queue + 1 \in 0 .. MaxQueue
    BY <2>1, <2>3, SizeAssumption
  <2> QED
    BY <2>1, <2>2, <2>4
<1> HIDE DEF d
<1>3. ASSUME MayReply(c)
      PROVE  /\ Queued(c) \in ConnType
             /\ Queued(c).state = d.state /\ Queued(c).fd = d.fd
             /\ Queued(c).is_writing = TRUE /\ Queued(c).queue = d.queue + 1
  <2> DEFINE q == d.queue + 1
  <2>1. /\ Queued(c) = [state |-> d.state, fd |-> d.fd, is_writing |-> TRUE, queue |-> q]
        /\ q \in 0 .. MaxQueue
    BY <1>2, <1>3
  <2> HIDE DEF q
  <2>2. Queued(c).queue = q
    BY <2>1
  <2> QED
    BY <1>1, <2>1, <2>2 DEF ConnType, q
<1> QED
  BY <1>1, <1>3, Zenon DEF d

\* submit_write prepares the write unless one is under way.
LEMMA WriteNext ==
    ASSUME TableOK, NEW r, NEW Y, NEW X, Turned(r, Y, X), r.ok, NEW c \in Client, conn[c].state = "live",
           Held(Now, conn[c], c), Key("write", c) \notin Y, Key("write", c) \notin X, NEW w \in submit_write(r, c)
    PROVE  /\ w \in Rings
           /\ w.ok => Turned(w, Y, X \cup {Key("write", c)})
           /\ ~w.ok => build = "linux"
<1>1. conn[c].is_writing \in BOOLEAN /\ (conn[c].is_writing <=> Some(Now, Key("write", c)))
  BY Zenon DEF Held, TableOK, Conns, ConnType
<1>2. Key("write", c) \in Keys
  BY KeysOf, Zenon
<1>3. CASE conn[c].is_writing
  <2>1. w = r
    BY <1>3, Zenon DEF submit_write
  <2>2. Some(Now, Key("write", c))
    BY <1>1, <1>3, Zenon
  <2>3. Turned(r, Y, X \cup {Key("write", c)})
    BY <1>2, <2>2, Zenon DEF Turned
  <2> QED
    BY <2>1, <2>3, Zenon DEF Turned
<1>4. CASE ~conn[c].is_writing
  <2> DEFINE e == WriteOp(c, conn[c].fd)
             k == Key("write", c)
  <2>1. w \in get_sqe(r, e)
    BY <1>4 DEF submit_write
  <2>2. e \in SqEntry
    BY EntriesOK, Zenon
  <2>3. \A K \in Keys : Mine(e, K) <=> K = k
    BY KeysOf, Zenon
  <2>4. ~Some(Now, k)
    BY <1>1, <1>4, Zenon
  <2> HIDE DEF e, k
  <2>5. k \in Keys /\ k \notin X
    BY <1>2, Zenon DEF k
  <2>6. (\A K \in Keys : Mine(e, K) => K = k) /\ Mine(e, k)
    BY <2>3, <2>5, Zenon
  <2>7. w \in Rings /\ (w.ok => Turned(w, Y, X \cup {k})) /\ (~w.ok => build = "linux")
    BY <2>1, <2>2, <2>4, <2>5, <2>6, TurnedNext, Zenon
  <2> QED
    BY <2>7 DEF k
<1> QED
  BY <1>1, <1>3, <1>4, Zenon

\* The ring after a handler that is about one Connection.
LEMMA AboutOne ==
    ASSUME RingOK(Now, conn), NEW c \in Client, NEW r, NEW Y, NEW X, Turned(r, Y, X),
           \A d \in Client : d # c => \A op : Key(op, d) \notin Y /\ Key(op, d) \notin X,
           Accepting \notin Y \/ Accepting \in X, Notified \notin Y \/ Notified \in X,
           Held(r, conn'[c], c), conn[c].state # "freed", \A d \in Client : d # c => conn'[d] = conn[d]
    PROVE  RingOK(r, conn') /\ Kept(r)
<1>1. \A K \in Keys : Once(r, K) /\ (Some(r, K) <=> (Some(Now, K) /\ K \notin Y) \/ K \in X)
  BY Zenon DEF Turned
<1>2. Some(r, Accepting) /\ Some(r, Notified)
  BY <1>1, KeysOf, Zenon DEF RingOK
<1>3. ASSUME NEW d \in Client, d # c
      PROVE  /\ Held(r, conn'[d], d)
             /\ Some(r, Key("read", d)) <=> Some(Now, Key("read", d))
             /\ Some(r, Key("write", d)) <=> Some(Now, Key("write", d))
  BY <1>3, TurnedSame, Zenon
<1>4. RingOK(r, conn')
  BY <1>1, <1>2, <1>3, Zenon DEF RingOK
<1> QED
  BY <1>3, <1>4, Zenon DEF Kept

\* The next read is prepared.
LEMMA ReadNext ==
    ASSUME TableOK, NEW r, NEW Y, NEW X, Turned(r, Y, X), r.ok, NEW c \in Client, conn[c].state # "none",
           Key("read", c) \in Y \/ ~Some(Now, Key("read", c)), Key("read", c) \notin X,
           NEW w \in get_sqe(r, ReadOp(c, conn[c].fd))
    PROVE  /\ w \in Rings
           /\ w.ok => Turned(w, Y, X \cup {Key("read", c)})
           /\ ~w.ok => build = "linux"
<1> DEFINE e == ReadOp(c, conn[c].fd)
           k == Key("read", c)
<1>1. e \in SqEntry
  BY EntriesOK, Zenon
<1>2. k \in Keys /\ \A K \in Keys : Mine(e, K) <=> K = k
  BY KeysOf, Zenon
<1>3. (\A K \in Keys : Mine(e, K) => K = k) /\ Mine(e, k)
  BY <1>2, Zenon
<1> HIDE DEF e, k
<1>4. w \in get_sqe(r, e) /\ k \notin X /\ (k \in Y \/ ~Some(Now, k))
  BY Zenon DEF e, k
<1>5. w \in Rings /\ (w.ok => Turned(w, Y, X \cup {k})) /\ (~w.ok => build = "linux")
  BY <1>1, <1>2, <1>3, <1>4, TurnedNext, Zenon
<1> QED
  BY <1>5, Zenon DEF k

\* The next part of the replies is prepared.
LEMMA MoreNext ==
    ASSUME TableOK, NEW r, NEW Y, NEW X, Turned(r, Y, X), r.ok, NEW c \in Client, conn[c].state # "none",
           Key("write", c) \in Y \/ ~Some(Now, Key("write", c)), Key("write", c) \notin X,
           NEW w \in get_sqe(r, WriteOp(c, conn[c].fd))
    PROVE  /\ w \in Rings
           /\ w.ok => Turned(w, Y, X \cup {Key("write", c)})
           /\ ~w.ok => build = "linux"
<1> DEFINE e == WriteOp(c, conn[c].fd)
           k == Key("write", c)
<1>1. e \in SqEntry
  BY EntriesOK, Zenon
<1>2. k \in Keys /\ \A K \in Keys : Mine(e, K) <=> K = k
  BY KeysOf, Zenon
<1>3. (\A K \in Keys : Mine(e, K) => K = k) /\ Mine(e, k)
  BY <1>2, Zenon
<1> HIDE DEF e, k
<1>4. w \in get_sqe(r, e) /\ k \notin X /\ (k \in Y \/ ~Some(Now, k))
  BY Zenon DEF e, k
<1>5. w \in Rings /\ (w.ok => Turned(w, Y, X \cup {k})) /\ (~w.ok => build = "linux")
  BY <1>1, <1>2, <1>3, <1>4, TurnedNext, Zenon
<1> QED
  BY <1>5, Zenon DEF k

LEMMA ReadStep ==
    ASSUME IInv, NEW c \in Client, handle_read(c)
    PROVE  IInv'
<1> DEFINE rd == Key("read", c)
           wr == Key("write", c)
<1>1. Dispatch("read", c, "ok") /\ build' = build /\ files' = files /\ harm' = harm
  BY DEF handle_read
<1>2. /\ TableOK /\ RingOK(Now, conn) /\ loop = "handlers" /\ Running /\ cq # <<>>
      /\ Ring.ok /\ Turned(Ring, KeysAt(Head(cq)), {})
      /\ Head(cq).op = "read" /\ Head(cq).who = c
  BY <1>1, Started, Zenon DEF Dispatch, Running
<1>3. KeysAt(Head(cq)) = {rd}
  BY <1>2, KeysAtHead, Zenon
<1>4. Held(Now, conn[c], c) /\ conn[c].state = "live"
  BY <1>1, StateOf, Zenon
<1>5. rd \in Keys /\ wr \in Keys /\ Key("accept", c) \in Keys /\ rd # wr /\ Key("accept", c) # rd /\ Key("accept", c) # wr
  BY KeysOf, KeysDiffer
<1>6. rd # Accepting /\ rd # Notified /\ wr # Accepting /\ wr # Notified
  BY KeysDiffer
<1>7. \A d \in Client : d # c => \A op : Key(op, d) # rd /\ Key(op, d) # wr
  BY KeysDiffer
<1>8. ~Some(Now, Key("accept", c))
  BY <1>4, Zenon DEF Held
<1>9. CASE UNCHANGED conn /\ \E r \in get_sqe(Ring, ReadOp(c, conn[c].fd)) : Leave(r)
  <2>1. PICK r \in get_sqe(Ring, ReadOp(c, conn[c].fd)) : Leave(r)
    BY <1>9, Zenon
  <2>2. r \in Rings /\ (r.ok => Turned(r, {rd}, {rd})) /\ (~r.ok => build = "linux")
    <3> DEFINE X == {}
    <3>1. Turned(Ring, {rd}, X) /\ rd \in {rd} /\ rd \notin X /\ conn[c].state # "none" /\ X \cup {rd} = {rd}
      BY <1>2, <1>3, <1>4, Zenon
    <3> HIDE DEF X
    <3>2. r \in Rings /\ (r.ok => Turned(r, {rd}, X \cup {rd})) /\ (~r.ok => build = "linux")
      BY <1>2, <3>1, ReadNext, Zenon
    <3> QED
      BY <3>1, <3>2, Zenon
  <2>3. Grows /\ OwnKept /\ Sockets' /\ files' \in [Fds -> File] /\ conn' \in Conns
    BY <1>1, <1>2, <1>9, QueuesOnly, Zenon DEF TableOK
  <2>4. ASSUME r.ok PROVE RingOK(r, conn') /\ Kept(r)
    <3>1. Turned(r, {rd}, {rd})
      BY <2>2, <2>4, Zenon
    <3>2. \A K \in Keys : Some(r, K) <=> (Some(Now, K) /\ K # rd) \/ K = rd
      BY <3>1 DEF Turned
    <3>3. Some(r, rd) /\ (Some(r, wr) <=> Some(Now, wr)) /\ ~Some(r, Key("accept", c))
      BY <1>5, <1>8, <3>2
    <3>4. Held(r, conn'[c], c)
      BY <1>4, <1>9, <3>3, Zenon DEF Held
    <3> HIDE DEF rd, wr
    <3> QED
      BY <1>2, <1>4, <1>6, <1>7, <1>9, <3>1, <3>4, AboutOne
  <2>5. HandlerOK(r)
    BY <2>2, <2>3, <2>4, Zenon DEF HandlerOK
  <2> QED
    BY <1>1, <1>2, <2>1, <2>3, <2>5, Leaves, Zenon
<1>10. CASE /\ MayReply(c) /\ conn' = [conn EXCEPT ![c] = Queued(c)]
            /\ \E w \in submit_write(Ring, c) : \E r \in get_sqe(w, ReadOp(c, conn[c].fd)) : Leave(r)
  <2>1. PICK w \in submit_write(Ring, c) : \E r \in get_sqe(w, ReadOp(c, conn[c].fd)) : Leave(r)
    BY <1>10, Zenon
  <2>2. PICK r \in get_sqe(w, ReadOp(c, conn[c].fd)) : Leave(r)
    BY <2>1
  <2>3. w \in Rings /\ (w.ok => Turned(w, {rd}, {wr})) /\ (~w.ok => build = "linux")
    <3> DEFINE X == {}
    <3>1. Turned(Ring, {rd}, X) /\ wr \notin {rd} /\ wr \notin X /\ X \cup {wr} = {wr}
      BY <1>2, <1>3, <1>5, Zenon
    <3> HIDE DEF X
    <3>2. w \in Rings /\ (w.ok => Turned(w, {rd}, X \cup {wr})) /\ (~w.ok => build = "linux")
      BY <1>2, <1>4, <3>1, WriteNext, Zenon
    <3> QED
      BY <3>1, <3>2
  <2>4. r \in Rings /\ (~w.ok => r = w)
    BY <1>2, <1>4, <2>3, EntriesOK, GetSqe, Zenon
  <2>5. ASSUME w.ok PROVE (r.ok => Turned(r, {rd}, {wr} \cup {rd})) /\ (~r.ok => build = "linux")
    <3>1. Turned(w, {rd}, {wr})
      BY <2>3, <2>5, Zenon
    <3>2. rd \in {rd} /\ rd \notin {wr} /\ conn[c].state # "none"
      BY <1>4, <1>5, Zenon
    <3> QED
      BY <1>2, <2>5, <3>1, <3>2, ReadNext, Zenon
  <2>6. /\ conn'[c] = Queued(c) /\ (\A d \in Client : d # c => conn'[d] = conn[d]) /\ conn' \in Conns
        /\ \A d \in Client : conn'[d].fd = conn[d].fd /\ conn'[d].state = conn[d].state
        /\ conn'[c].is_writing = TRUE /\ conn'[c].queue > 0
    <3>1. /\ Queued(c) \in ConnType
          /\ Queued(c).state = conn[c].state /\ Queued(c).fd = conn[c].fd
          /\ Queued(c).is_writing = TRUE /\ Queued(c).queue = conn[c].queue + 1
      BY <1>2, <1>10, QueueTypes, Zenon
    <3>0. conn[c].queue \in 0 .. MaxQueue
      BY <1>2, Zenon DEF TableOK, Conns, ConnType
    <3>2. conn \in [Client -> ConnType]
      BY <1>2 DEF TableOK, Conns
    <3> QED
      BY <1>10, <3>0, <3>1, <3>2, SizeAssumption DEF Conns
  <2>7. Grows /\ OwnKept /\ Sockets' /\ files' \in [Fds -> File]
    BY <1>1, <1>2, <2>6, QueuesOnly, Zenon
  <2>8. ASSUME r.ok PROVE RingOK(r, conn') /\ Kept(r)
    <3>1. Turned(r, {rd}, {wr, rd})
      <4>1. w.ok
        BY <2>4, <2>8, Zenon
      <4>2. {wr} \cup {rd} = {wr, rd}
        OBVIOUS
      <4> QED
        BY <2>5, <2>8, <4>1, <4>2, Zenon
    <3>2. \A K \in Keys : Some(r, K) <=> (Some(Now, K) /\ K # rd) \/ K = rd \/ K = wr
      BY <3>1 DEF Turned
    <3>3. Some(r, rd) /\ Some(r, wr) /\ ~Some(r, Key("accept", c))
      BY <1>5, <1>8, <3>2
    <3>4. Held(r, conn'[c], c)
      BY <1>4, <2>6, <3>3, Zenon DEF Held
    <3>5. /\ \A d \in Client : d # c => \A op : Key(op, d) \notin {rd} /\ Key(op, d) \notin {wr, rd}
          /\ Accepting \notin {rd} /\ Notified \notin {rd} /\ conn[c].state # "freed"
      BY <1>4, <1>6, <1>7, Zenon
    <3> HIDE DEF rd, wr
    <3> QED
      BY <1>2, <2>6, <3>1, <3>4, <3>5, AboutOne, Zenon
  <2>9. HandlerOK(r)
    BY <2>3, <2>4, <2>5, <2>7, <2>8, Zenon DEF HandlerOK
  <2> QED
    BY <1>1, <1>2, <2>2, <2>6, <2>7, <2>9, Leaves, Zenon
<1> QED
  BY <1>9, <1>10, Zenon DEF handle_read

LEMMA WriteStep ==
    ASSUME IInv, NEW c \in Client, handle_write(c)
    PROVE  IInv'
<1> DEFINE rd == Key("read", c)
           wr == Key("write", c)
<1>1. Dispatch("write", c, "ok") /\ build' = build /\ files' = files /\ harm' = harm
  BY DEF handle_write
<1>2. /\ TableOK /\ RingOK(Now, conn) /\ loop = "handlers" /\ Running /\ cq # <<>>
      /\ Ring.ok /\ Turned(Ring, KeysAt(Head(cq)), {})
      /\ Head(cq).op = "write" /\ Head(cq).who = c
  BY <1>1, Started, Zenon DEF Dispatch, Running
<1>3. KeysAt(Head(cq)) = {wr}
  BY <1>2, KeysAtHead, Zenon
<1>4. Held(Now, conn[c], c) /\ conn[c].state = "live" /\ Some(Now, wr)
  BY <1>1, StateOf, Zenon
<1>5. rd \in Keys /\ wr \in Keys /\ Key("accept", c) \in Keys /\ rd # wr /\ Key("accept", c) # rd /\ Key("accept", c) # wr
  BY KeysOf, KeysDiffer
<1>6. rd # Accepting /\ rd # Notified /\ wr # Accepting /\ wr # Notified
  BY KeysDiffer
<1>7. \A d \in Client : d # c => \A op : Key(op, d) # rd /\ Key(op, d) # wr
  BY KeysDiffer
<1>8. ~Some(Now, Key("accept", c)) /\ Some(Now, rd) /\ conn[c].queue > 0
  BY <1>4, Zenon DEF Held
<1>9. conn[c] \in ConnType /\ conn[c].queue \in 1 .. MaxQueue
  BY <1>2, <1>8, SizeAssumption DEF TableOK, Conns, ConnType
<1>10. /\ conn'[c] = [state |-> conn[c].state, fd |-> conn[c].fd, is_writing |-> conn[c].queue > 1,
                      queue |-> conn[c].queue - 1]
       /\ \A d \in Client : d # c => conn'[d] = conn[d]
       /\ DOMAIN conn' = Client /\ conn' = [d \in Client |-> conn'[d]]
  <2> DEFINE v == Written(c)
             q == conn[c].queue - 1
             b == conn[c].queue > 1
  <2>1. conn' = [conn EXCEPT ![c] = v]
    BY Zenon DEF handle_write
  <2>2. v = [state |-> conn[c].state, fd |-> conn[c].fd, is_writing |-> b, queue |-> q]
    BY <1>9, ConnExcept, Zenon DEF Written
  <2> HIDE DEF v
  <2>3. conn \in [Client -> ConnType]
    BY <1>2, Zenon DEF TableOK, Conns
  <2> QED
    BY <2>1, <2>2, <2>3, Zenon
<1>11. conn' \in Conns
  <2>1. conn'[c] \in ConnType
    BY <1>9, <1>10, SizeAssumption DEF ConnType
  <2>2. \A d \in Client : conn'[d] \in ConnType
    BY <1>2, <1>10, <2>1, Zenon DEF TableOK, Conns
  <2> QED
    BY <1>10, <2>2 DEF Conns
<1>12. /\ conn'[c].state = "live" /\ (conn'[c].is_writing <=> conn[c].queue > 1)
       /\ (conn'[c].queue > 0 <=> conn[c].queue > 1)
       /\ \A d \in Client : conn'[d].fd = conn[d].fd /\ conn'[d].state = conn[d].state
  <2> DEFINE b == conn[c].queue > 1
             q == conn[c].queue - 1
  <2>1. q > 0 <=> b
    BY <1>9
  <2>2. conn'[c] = [state |-> conn[c].state, fd |-> conn[c].fd, is_writing |-> b, queue |-> q]
    BY <1>10, Zenon
  <2> HIDE DEF b, q
  <2>3. conn'[c].state = "live" /\ conn'[c].is_writing = b /\ conn'[c].queue = q /\ conn'[c].fd = conn[c].fd
    BY <1>4, <2>2
  <2>4. \A d \in Client : conn'[d].fd = conn[d].fd /\ conn'[d].state = conn[d].state
    BY <1>4, <1>10, <2>3, Zenon
  <2> QED
    BY <2>1, <2>3, <2>4, Zenon DEF b
<1>13. Grows /\ OwnKept /\ Sockets' /\ files' \in [Fds -> File]
  BY <1>1, <1>2, <1>11, <1>12, QueuesOnly, Zenon
<1>14. ASSUME NEW r, NEW X \in {{}, {wr}}, Turned(r, {wr}, X), wr \in X <=> conn[c].queue > 1
       PROVE  RingOK(r, conn') /\ Kept(r)
  <2>1. \A K \in Keys : Some(r, K) <=> (Some(Now, K) /\ K # wr) \/ K \in X
    BY <1>14, Zenon DEF Turned
  <2>2. Some(r, rd) /\ (Some(r, wr) <=> conn[c].queue > 1) /\ ~Some(r, Key("accept", c))
    BY <1>5, <1>8, <1>14, <2>1, Zenon
  <2>3. Held(r, conn'[c], c)
    BY <1>12, <2>2, Zenon DEF Held
  <2> HIDE DEF rd, wr
  <2> QED
    BY <1>2, <1>4, <1>6, <1>7, <1>10, <1>14, <2>3, AboutOne
<1>15. CASE conn[c].queue = 1
  <2>1. Turned(Ring, {wr}, {})
    BY <1>2, <1>3, Zenon
  <2>4. ~(conn[c].queue > 1)
    BY <1>15
  <2>0. Leave(Ring)
    BY <1>15, Zenon DEF handle_write
  <2>2. RingOK(Ring, conn') /\ Kept(Ring)
    <3> DEFINE X == {}
    <3>1. X \in {{}, {wr}} /\ Turned(Ring, {wr}, X) /\ (wr \in X <=> conn[c].queue > 1)
      BY <2>1, <2>4, Zenon
    <3> HIDE DEF X
    <3> QED
      BY <1>14, <3>1, Zenon
  <2>3. HandlerOK(Ring)
    BY <1>2, <1>13, <2>1, <2>2, Zenon DEF HandlerOK, Turned
  <2> QED
    BY <1>1, <1>2, <1>11, <1>13, <2>0, <2>3, Leaves, Zenon
<1>16. CASE conn[c].queue # 1
  <2>1. PICK r \in get_sqe(Ring, WriteOp(c, conn[c].fd)) : Leave(r)
    BY <1>16, Zenon DEF handle_write
  <2>2. r \in Rings /\ (r.ok => Turned(r, {wr}, {wr})) /\ (~r.ok => build = "linux")
    <3> DEFINE X == {}
    <3>1. Turned(Ring, {wr}, X) /\ wr \in {wr} /\ wr \notin X /\ conn[c].state # "none" /\ X \cup {wr} = {wr}
      BY <1>2, <1>3, <1>4, Zenon
    <3> HIDE DEF X
    <3>2. r \in Rings /\ (r.ok => Turned(r, {wr}, X \cup {wr})) /\ (~r.ok => build = "linux")
      BY <1>2, <3>1, MoreNext, Zenon
    <3> QED
      BY <3>1, <3>2, Zenon
  <2>3. wr \in {wr} /\ conn[c].queue > 1
    BY <1>9, <1>16
  <2>4. ASSUME r.ok PROVE RingOK(r, conn') /\ Kept(r)
    BY <1>14, <2>2, <2>3, <2>4, Zenon
  <2>5. HandlerOK(r)
    BY <1>13, <2>2, <2>4, Zenon DEF HandlerOK
  <2> QED
    BY <1>1, <1>2, <1>11, <1>13, <2>1, <2>5, Leaves, Zenon
<1> QED
  BY <1>15, <1>16, Zenon

\* The socket of a Connection is closed.
LEMMA SocketClosed ==
    ASSUME TableOK, NEW c \in Client, conn[c].state \in {"accepted", "live"},
           files' = [files EXCEPT ![conn[c].fd] = "closed"]
    PROVE  /\ files[conn[c].fd] = c /\ files' \in [Fds -> File] /\ OwnKept
           /\ \A d \in Client : d # c /\ conn[d].state \in {"accepted", "live"} => files'[conn[d].fd] = d
<1>1. files[conn[c].fd] = c /\ conn \in Conns /\ files \in [Fds -> File]
  BY Zenon DEF TableOK, Sockets
<1>2. \A d \in Client : conn[d].fd \in Fds
  BY <1>1 DEF Conns, ConnType
<1>3. files' \in [Fds -> File]
  BY <1>1, <1>2 DEF File
<1>4. \A n \in Fds : n # conn[c].fd => files'[n] = files[n]
  BY <1>1
<1>5. OwnKept
  BY <1>1, <1>4, ClientAssumption DEF OwnKept
<1>6. ASSUME NEW d \in Client, d # c, conn[d].state \in {"accepted", "live"} PROVE files'[conn[d].fd] = d
  <2>1. files[conn[d].fd] = d
    BY <1>6, Zenon DEF TableOK, Sockets
  <2> QED
    BY <1>1, <1>2, <1>4, <1>6, <2>1, Zenon
<1> QED
  BY <1>1, <1>3, <1>5, <1>6, Zenon

LEMMA StateTypes ==
    ASSUME TableOK, NEW c \in Client, NEW st \in {"none", "accepted", "live", "freed"},
           conn' = [conn EXCEPT ![c].state = st]
    PROVE  /\ conn' \in Conns /\ \A d \in Client : d # c => conn'[d] = conn[d]
           /\ conn'[c].state = st /\ conn'[c].fd = conn[c].fd
           /\ conn'[c].is_writing = conn[c].is_writing /\ conn'[c].queue = conn[c].queue
<1> DEFINE d == conn[c]
           e == [d EXCEPT !.state = st]
           A == {"none", "accepted", "live", "freed"}
           Q == 0 .. MaxQueue
<1>1. conn \in [Client -> ConnType] /\ d \in ConnType
  BY DEF TableOK, Conns
<1>2. conn' = [conn EXCEPT ![c] = e]
  OBVIOUS
<1>3. ConnType = [state : A, fd : Fds, is_writing : BOOLEAN, queue : Q]
  BY DEF ConnType
<1> HIDE DEF d, A, Q
<1>4. /\ e.state = st /\ e.fd = d.fd /\ e.is_writing = d.is_writing /\ e.queue = d.queue
      /\ e \in ConnType
  BY <1>1, <1>3 DEF A
<1> HIDE DEF e
<1>5. conn'[c] = e /\ conn' \in Conns /\ \A x \in Client : x # c => conn'[x] = conn[x]
  BY <1>1, <1>2, <1>4 DEF Conns
<1> QED
  BY <1>4, <1>5 DEF d

LEMMA DeleteStep ==
    ASSUME IInv, NEW c \in Client, delete_this(c)
    PROVE  IInv'
<1>1. PICK op \in {"read", "write"} : Dispatch(op, c, "error")
  BY Zenon DEF delete_this
<1> DEFINE rd == Key("read", c)
           wr == Key("write", c)
           k == Key(op, c)
<1>2. /\ TableOK /\ RingOK(Now, conn) /\ loop = "handlers" /\ Running /\ cq # <<>>
      /\ Ring.ok /\ Turned(Ring, KeysAt(Head(cq)), {})
      /\ Head(cq).op = op /\ Head(cq).who = c
  BY <1>1, Started, Zenon DEF Dispatch, Running
<1>3. KeysAt(Head(cq)) = {k}
  BY <1>2, KeysAtHead
<1>4. Held(Now, conn[c], c) /\ conn[c].state = "live"
  BY <1>1, StateOf, Zenon
<1>5. /\ files' = [files EXCEPT ![conn[c].fd] = "closed"]
      /\ harm' = harm \cup (IF files[conn[c].fd] \in {c, "closed"} THEN {} ELSE {"close"})
      /\ conn' = [conn EXCEPT ![c].state = "freed"] /\ cq' = Tail(cq)
      /\ build' = build /\ loop' = loop /\ sq' = sq /\ pending' = pending /\ cause' = cause
  BY DEF delete_this, close
<1>6. /\ files[conn[c].fd] = c /\ files' \in [Fds -> File] /\ OwnKept
      /\ \A d \in Client : d # c /\ conn[d].state \in {"accepted", "live"} => files'[conn[d].fd] = d
  BY <1>2, <1>4, <1>5, SocketClosed, Zenon
<1>7. harm' = harm
  BY <1>5, <1>6, Zenon
<1>8. /\ conn' \in Conns /\ \A d \in Client : d # c => conn'[d] = conn[d]
      /\ conn'[c].state = "freed" /\ conn'[c].fd = conn[c].fd
  BY <1>2, <1>5, StateTypes, Zenon
<1>9. Sockets'
  BY <1>6, <1>8, Zenon DEF Sockets
<1>10. Grows
  BY <1>4, <1>5, <1>8 DEF Grows
<1>11. Leave(Ring)
  BY <1>2, <1>5, Zenon DEF Leave, Ring
<1>12. RingOK(Ring, conn') /\ Kept(Ring)
  <2>1. Turned(Ring, {k}, {})
    BY <1>2, <1>3, Zenon
  <2>2. \A K \in Keys : Some(Ring, K) <=> Some(Now, K) /\ K # k
    BY <2>1, Zenon DEF Turned
  <2>3. rd \in Keys /\ wr \in Keys /\ Key("accept", c) \in Keys /\ (k = rd \/ k = wr)
    BY KeysOf, Zenon
  <2>4. ~Some(Ring, Key("accept", c)) /\ (~Some(Ring, rd) \/ ~Some(Ring, wr))
    BY <1>4, <2>2, <2>3, Zenon DEF Held
  <2>5. Held(Ring, conn'[c], c)
    BY <1>8, <2>4, Zenon DEF Held
  <2>6. k # Accepting /\ k # Notified /\ \A d \in Client : d # c => \A o : Key(o, d) # k
    BY KeysDiffer
  <2>7. conn[c].state # "freed"
    BY <1>4, Zenon
  <2> DEFINE X == {}
  <2>8. Turned(Ring, {k}, X) /\ \A K : K \notin X
    BY <2>1
  <2> HIDE DEF k, X
  <2>9. /\ \A d \in Client : d # c => \A o : Key(o, d) \notin {k} /\ Key(o, d) \notin X
        /\ Accepting \notin {k} /\ Notified \notin {k}
    BY <2>6, <2>8
  <2> QED
    BY <1>2, <1>8, <2>5, <2>7, <2>8, <2>9, AboutOne, Zenon
<1>13. HandlerOK(Ring)
  BY <1>2, <1>9, <1>12 DEF HandlerOK, Turned
<1> QED
  BY <1>2, <1>6, <1>7, <1>8, <1>10, <1>11, <1>13, Leaves, Zenon

\* The accept operation is prepared again.
LEMMA AcceptNext ==
    ASSUME TableOK, NEW r, NEW Y, NEW X, Turned(r, Y, X), r.ok, Accepting \in Y, Accepting \notin X,
           NEW w \in get_sqe(r, AcceptOp)
    PROVE  /\ w \in Rings
           /\ w.ok => Turned(w, Y, X \cup {Accepting})
           /\ ~w.ok => build = "linux"
<1>1. AcceptOp \in SqEntry
  BY EntriesOK, Zenon
<1>2. Accepting \in Keys /\ (\A K \in Keys : Mine(AcceptOp, K) => K = Accepting) /\ Mine(AcceptOp, Accepting)
  BY KeysOf, Zenon
<1> HIDE DEF Accepting, AcceptOp
<1> QED
  BY <1>1, <1>2, TurnedNext, Zenon

LEMMA AcceptStep ==
    ASSUME IInv, NEW c \in Client, handle_accept(c)
    PROVE  IInv'
<1> DEFINE rd == Key("read", c)
           wr == Key("write", c)
           ac == Key("accept", c)
           Y == {Accepting, ac}
           X == {rd}
<1>1. Dispatch("accept", c, "ok") /\ build' = build /\ harm' = harm
  BY DEF handle_accept
<1>2. /\ TableOK /\ RingOK(Now, conn) /\ loop = "handlers" /\ Running /\ cq # <<>>
      /\ Ring.ok /\ Turned(Ring, KeysAt(Head(cq)), {})
      /\ Head(cq).op = "accept" /\ Head(cq).who = c
  BY <1>1, Started, Zenon DEF Dispatch, Running
<1>3. KeysAt(Head(cq)) = Y
  BY <1>2, KeysAtHead, Zenon
<1>4. conn[c].state = "accepted" /\ ~Some(Now, rd) /\ ~Some(Now, wr) /\ ~conn[c].is_writing /\ conn[c].queue = 0
  BY <1>1, StateOf, Zenon DEF Held
<1>5. rd \in Keys /\ wr \in Keys /\ ac \in Keys /\ rd # wr /\ ac # rd /\ ac # wr
  BY KeysOf, KeysDiffer
<1>6. /\ rd # Accepting /\ rd # Notified /\ wr # Accepting /\ ac # Notified
      /\ Accepting \in Keys /\ Notified # Accepting
  BY KeysOf, KeysDiffer, Zenon
<1>7. \A d \in Client : d # c => \A op : Key(op, d) # rd /\ Key(op, d) # ac /\ Key(op, d) # Accepting
  BY KeysDiffer
<1>8. PICK s \in get_sqe(Ring, ReadOp(c, conn[c].fd)) : \E r \in get_sqe(s, AcceptOp) :
          /\ Leave(r)
          /\ conn' = [conn EXCEPT ![c].state = IF s.ok THEN "live" ELSE "freed"]
          /\ files' = IF s.ok THEN files ELSE [files EXCEPT ![conn[c].fd] = "closed"]
  BY Zenon DEF handle_accept
<1>9. PICK r \in get_sqe(s, AcceptOp) :
          /\ Leave(r)
          /\ conn' = [conn EXCEPT ![c].state = IF s.ok THEN "live" ELSE "freed"]
          /\ files' = IF s.ok THEN files ELSE [files EXCEPT ![conn[c].fd] = "closed"]
  BY <1>8
<1>10. s \in Rings /\ (s.ok => Turned(s, Y, X)) /\ (~s.ok => build = "linux")
  <2> DEFINE N == {}
  <2>1. Turned(Ring, Y, N) /\ rd \notin N /\ conn[c].state # "none" /\ N \cup {rd} = X
    BY <1>2, <1>3, <1>4, Zenon
  <2> HIDE DEF N, Y, X
  <2>2. s \in Rings /\ (s.ok => Turned(s, Y, N \cup {rd})) /\ (~s.ok => build = "linux")
    BY <1>2, <1>4, <2>1, ReadNext, Zenon
  <2> QED
    BY <2>1, <2>2, Zenon
<1>11. r \in Rings /\ (~s.ok => r = s)
  BY <1>2, <1>10, EntriesOK, GetSqe, Zenon
<1>12. ASSUME s.ok PROVE (r.ok => Turned(r, Y, X \cup {Accepting})) /\ (~r.ok => build = "linux")
  <2>1. Accepting \in Y /\ Accepting \notin X
    BY <1>6, Zenon
  <2> HIDE DEF Y, X
  <2> QED
    BY <1>2, <1>10, <1>12, <2>1, AcceptNext, Zenon
<1>13. CASE s.ok
  <2>1. conn' = [conn EXCEPT ![c].state = "live"] /\ files' = files /\ Leave(r)
    BY <1>9, <1>13, Zenon
  <2>2. /\ conn' \in Conns /\ (\A d \in Client : d # c => conn'[d] = conn[d])
        /\ conn'[c].state = "live" /\ conn'[c].fd = conn[c].fd
        /\ conn'[c].is_writing = conn[c].is_writing /\ conn'[c].queue = conn[c].queue
    BY <1>2, <2>1, StateTypes, Zenon
  <2>3. Sockets' /\ Grows /\ OwnKept /\ files' \in [Fds -> File]
    BY <1>1, <1>2, <1>4, <2>1, <2>2 DEF Sockets, Grows, OwnKept, TableOK
  <2>4. ASSUME r.ok PROVE RingOK(r, conn') /\ Kept(r)
    <3> DEFINE Z == X \cup {Accepting}
    <3>1. Turned(r, Y, Z)
      BY <1>12, <1>13, <2>4, Zenon
    <3>2. \A K \in Keys : Some(r, K) <=> (Some(Now, K) /\ K \notin Y) \/ K \in Z
      BY <3>1, Zenon DEF Turned
    <3>3. Some(r, rd) /\ ~Some(r, wr) /\ ~Some(r, ac)
      <4>1. rd \in Z /\ wr \notin Z /\ ac \in Y /\ ac \notin Z
        BY <1>5, <1>6, KeysDiffer, Zenon
      <4> HIDE DEF Y, Z, rd, wr, ac
      <4> QED
        BY <1>4, <1>5, <3>2, <4>1, Zenon
    <3>4. Held(r, conn'[c], c)
      BY <1>4, <2>2, <3>3 DEF Held
    <3>5. /\ \A d \in Client : d # c => \A op : Key(op, d) \notin Y /\ Key(op, d) \notin Z
          /\ Accepting \in Z /\ Notified \notin Y
      BY <1>6, <1>7, Zenon
    <3> HIDE DEF Y, Z
    <3> QED
      BY <1>2, <1>4, <2>2, <3>1, <3>4, <3>5, AboutOne, Zenon
  <2>5. HandlerOK(r)
    BY <1>11, <1>12, <1>13, <2>3, <2>4, Zenon DEF HandlerOK
  <2> QED
    BY <1>1, <1>2, <2>1, <2>2, <2>3, <2>5, Leaves, Zenon
<1>14. CASE ~s.ok
  <2>1. /\ conn' = [conn EXCEPT ![c].state = "freed"] /\ Leave(r)
        /\ files' = [files EXCEPT ![conn[c].fd] = "closed"]
    BY <1>9, <1>14, Zenon
  <2>2. /\ conn' \in Conns /\ (\A d \in Client : d # c => conn'[d] = conn[d])
        /\ conn'[c].state = "freed" /\ conn'[c].fd = conn[c].fd
    BY <1>2, <2>1, StateTypes, Zenon
  <2>3. OwnKept /\ files' \in [Fds -> File]
    BY <1>2, <1>4, <2>1, SocketClosed, Zenon
  <2>4. Grows
    BY <1>1, <1>4, <2>2, Zenon DEF Grows
  <2>5. HandlerOK(r)
    BY <1>10, <1>11, <1>14, Zenon DEF HandlerOK
  <2> QED
    BY <1>1, <1>2, <2>1, <2>2, <2>3, <2>4, <2>5, Leaves, Zenon
<1> QED
  BY <1>13, <1>14

-----------------------------------------------------------------------------
(* The responses of a notification *)

\* The connections that are responded to.
LEMMA OrderType ==
    ASSUME TableOK, NEW order \in Orders({c \in Client : MayReply(c)})
    PROVE  /\ Len(order) \in Nat /\ DOMAIN order = 1 .. Len(order)
           /\ \A i \in 1 .. Len(order) : order[i] \in Client /\ MayReply(order[i])
           /\ \A i, j \in 1 .. Len(order) : order[i] = order[j] => i = j
<1> DEFINE S == {c \in Client : MayReply(c)}
<1>1. PICK k \in 0 .. Cardinality(S) : order \in Injection(1 .. k, S)
  BY Zenon DEF Orders
<1>2. Cardinality(S) \in Nat
  <2>1. IsFiniteSet(S)
    BY ClientAssumption, FS_Subset, Zenon
  <2> QED
    BY <2>1, FS_CardinalityType
<1>3. k \in Nat
  BY <1>1, <1>2
<1>4. order \in [1 .. k -> S] /\ \A i, j \in 1 .. k : order[i] = order[j] => i = j
  BY <1>1, Zenon DEF Injection, IsInjective
<1>5. order \in Seq(S) /\ Len(order) = k
  <2> HIDE DEF S
  <2> QED
    BY <1>3, <1>4
<1> QED
  BY <1>3, <1>4, <1>5, Zenon

\* The keys of the first i writes, and the rings they may leave.
WriteKeys(order, i) == {Key("write", order[j]) : j \in 1 .. i}

WrittenOK(W, order, i) ==
    \A w \in W : /\ w \in Rings
                 /\ w.ok => Turned(w, {Notified}, WriteKeys(order, i))
                 /\ ~w.ok => build = "linux"

LEMMA WrittenTurn ==
    ASSUME TableOK, RingOK(Now, conn), NEW order \in Orders({c \in Client : MayReply(c)}),
           NEW i \in 1 .. Len(order), NEW W, WrittenOK(W, order, i - 1)
    PROVE  WrittenOK(UNION {submit_write(w, order[i]) : w \in W}, order, i)
<1> DEFINE c == order[i]
           X == WriteKeys(order, i - 1)
           wr == Key("write", c)
<1>1. /\ Len(order) \in Nat /\ c \in Client /\ MayReply(c)
      /\ \A j \in 1 .. Len(order) : order[j] = c => j = i
  BY OrderType, Zenon
<1>2. conn[c].state = "live" /\ Held(Now, conn[c], c)
  BY <1>1, Zenon DEF MayReply, RingOK
<1>3. X \cup {wr} = WriteKeys(order, i)
  <2>1. \A j : j \in 1 .. i <=> j \in 1 .. i - 1 \/ j = i
    BY <1>1
  <2> QED
    BY <2>1 DEF WriteKeys
<1>4. wr \notin X
  <2>1. \A j \in 1 .. i - 1 : j \in 1 .. Len(order) /\ j # i
    BY <1>1
  <2> QED
    BY <1>1, <2>1, KeysDiffer DEF WriteKeys
<1>5. wr \notin {Notified}
  BY <1>1, KeysDiffer, Zenon
<1> HIDE DEF X
<1>6. ASSUME NEW w \in W, NEW v \in submit_write(w, c)
      PROVE  /\ v \in Rings
             /\ v.ok => Turned(v, {Notified}, WriteKeys(order, i))
             /\ ~v.ok => build = "linux"
  <2>1. w \in Rings /\ (w.ok => Turned(w, {Notified}, X)) /\ (~w.ok => build = "linux")
    BY Zenon DEF WrittenOK, X
  <2>2. CASE w.ok
    <3>1. v \in Rings /\ (v.ok => Turned(v, {Notified}, X \cup {wr})) /\ (~v.ok => build = "linux")
      <4> HIDE DEF c
      <4> QED
        BY <1>1, <1>2, <1>4, <1>5, <2>1, <2>2, WriteNext, Zenon
    <3> QED
      BY <1>3, <3>1, Zenon
  <2>3. CASE ~w.ok
    BY <2>1, <2>3, Zenon DEF submit_write, get_sqe
  <2> QED
    BY <2>2, <2>3, Zenon
<1> QED
  BY <1>6, Zenon DEF WrittenOK

LEMMA WrittenAll ==
    ASSUME TableOK, RingOK(Now, conn), NEW order \in Orders({c \in Client : MayReply(c)}),
           Turned(Ring, {Notified}, {}), Ring.ok
    PROVE  WrittenOK(responses(order), order, Len(order))
<1> DEFINE n == Len(order)
           a == {Ring}
           T(W, i) == UNION {submit_write(w, order[i]) : w \in W}
           step == [i \in 1 .. n |-> [W \in SUBSET Rings |-> T(W, i)]]
           Is(g) == g = [i \in 0 .. n |-> IF i = 0 THEN a ELSE T(g[i - 1], i)]
           f == CHOOSE g : Is(g)
<1>1. n \in Nat /\ \A i \in 1 .. n : order[i] \in Client /\ MayReply(order[i])
  BY OrderType, Zenon
<1>2. a \in SUBSET Rings
  BY DEF Turned
<1>3. ASSUME NEW W \in SUBSET Rings, NEW i \in 1 .. n PROVE T(W, i) \in SUBSET Rings
  <2>1. ASSUME NEW w \in W, NEW v \in submit_write(w, order[i]) PROVE v \in Rings
    <3>1. WriteOp(order[i], conn[order[i]].fd) \in SqEntry
      BY <1>1, EntriesOK, Zenon DEF MayReply
    <3>2. v = w \/ v \in get_sqe(w, WriteOp(order[i], conn[order[i]].fd))
      BY Zenon DEF submit_write
    <3> QED
      BY <3>1, <3>2, GetSqe, Zenon
  <2> QED
    BY <2>1
<1>4. responses(order) = f[n]
  BY DEF responses
<1> HIDE DEF n, a, T
<1>5. step \in [1 .. n -> [SUBSET Rings -> SUBSET Rings]]
  BY <1>3, Zenon
<1>6. PICK g \in [0 .. n -> SUBSET Rings] : IsLoop(g, n, a, step)
  <2> HIDE DEF step
  <2>1. LoopInput(n, SUBSET Rings, a, step)
    BY <1>1, <1>2, <1>5, Zenon DEF LoopInput
  <2> QED
    BY <2>1, LoopExists, Zenon
<1>7. 0 \in 0 .. n /\ n \in 0 .. n /\ \A i \in 1 .. n : i \in 0 .. n /\ i - 1 \in 0 .. n /\ i # 0
  BY <1>1
<1>8. \A i \in 0 .. n : i # 0 => i \in 1 .. n
  BY <1>1
<1>9. \A i \in 0 .. n : g[i] = IF i = 0 THEN a ELSE T(g[i - 1], i)
  BY <1>6, <1>7, <1>8, Zenon DEF IsLoop
<1>10. Is(f)
  <2>1. Is(g)
    BY <1>9, Zenon
  <2> QED
    BY <2>1, Zenon
<1> HIDE DEF f
<1>11. f[0] = a /\ \A i \in 1 .. n : f[i] = T(f[i - 1], i)
  BY <1>7, <1>10
<1> DEFINE S == {i \in 0 .. n : WrittenOK(f[i], order, i)}
<1>12. ASSUME NEW i \in 1 .. n, i - 1 \in S PROVE i \in S
  <2>1. i \in 1 .. Len(order) /\ WrittenOK(f[i - 1], order, i - 1)
    BY <1>12 DEF n
  <2>2. WrittenOK(T(f[i - 1], i), order, i)
    BY <2>1, WrittenTurn, Zenon DEF T
  <2> QED
    BY <1>7, <1>11, <2>2
<1>13. 0 \in S
  <2>1. WriteKeys(order, 0) = {}
    BY DEF WriteKeys
  <2>2. WrittenOK(a, order, 0)
    BY <2>1 DEF WrittenOK, a, Turned
  <2> QED
    BY <1>7, <1>11, <2>2
<1>14. n \in S
  <2> HIDE DEF S
  <2>1. KeptByTurns(S, n)
    BY <1>12, <1>13, Zenon DEF KeptByTurns
  <2> QED
    BY <1>1, <1>7, <2>1, Turns
<1> QED
  BY <1>4, <1>14 DEF n

LEMMA NotificationStep ==
    ASSUME IInv, complete_notification
    PROVE  IInv'
<1>1. Dispatch("notif", "event", "ok") /\ build' = build /\ files' = files /\ harm' = harm
  BY Zenon DEF complete_notification
<1>2. /\ TableOK /\ RingOK(Now, conn) /\ loop = "handlers" /\ Running /\ cq # <<>>
      /\ Ring.ok /\ Turned(Ring, KeysAt(Head(cq)), {})
      /\ Head(cq).op = "notif" /\ Head(cq).who = "event"
  BY <1>1, Started, Zenon DEF Dispatch, Running
<1>3. KeysAt(Head(cq)) = {Notified}
  BY <1>2, KeysAtHead
<1>4. PICK order \in Orders({c \in Client : MayReply(c)}) :
        /\ conn' = [c \in Client |-> IF c \in Range(order) THEN Queued(c) ELSE conn[c]]
        /\ \E w \in responses(order) : \E r \in get_sqe(w, NotificationOp) : Leave(r)
  BY DEF complete_notification
<1>5. PICK w \in responses(order) : \E r \in get_sqe(w, NotificationOp) : Leave(r)
  BY <1>4
<1>6. PICK r \in get_sqe(w, NotificationOp) : Leave(r)
  BY <1>5
<1> DEFINE n == Len(order)
           X == WriteKeys(order, n)
           R == Range(order)
<1>7. w \in Rings /\ (w.ok => Turned(w, {Notified}, X)) /\ (~w.ok => build = "linux")
  <2>1. Turned(Ring, {Notified}, {})
    BY <1>2, <1>3, Zenon
  <2>2. WrittenOK(responses(order), order, n)
    BY <1>2, <2>1, WrittenAll, Zenon
  <2> QED
    BY <2>2 DEF WrittenOK
<1>8. n \in Nat /\ DOMAIN order = 1 .. n /\ \A i \in 1 .. n : order[i] \in Client /\ MayReply(order[i])
  BY <1>2, OrderType, Zenon
<1>9. R \in SUBSET Client /\ (\A c \in R : MayReply(c)) /\ X = {Key("write", c) : c \in R}
  BY <1>8, Zenon DEF Range, WriteKeys
<1> HIDE DEF n, X, R
<1>10. r \in Rings /\ (~w.ok => r = w)
  BY <1>2, <1>7, EntriesOK, GetSqe, Zenon
<1>11. \A op, c : Key(op, c) \in X <=> op = "write" /\ c \in R
  BY <1>9, KeysDiffer
<1>12. Accepting \notin X /\ Notified \notin X
  BY <1>9, KeysDiffer
<1>13. ASSUME w.ok PROVE (r.ok => Turned(r, {Notified}, X \cup {Notified})) /\ (~r.ok => build = "linux")
  <2>1. NotificationOp \in SqEntry
    BY <1>2, EntriesOK, Zenon
  <2>2. Notified \in Keys /\ (\A K \in Keys : Mine(NotificationOp, K) => K = Notified) /\ Mine(NotificationOp, Notified)
    BY KeysOf, Zenon
  <2>3. Notified \in {Notified}
    OBVIOUS
  <2> QED
    BY <1>2, <1>7, <1>12, <1>13, <2>1, <2>2, <2>3, TurnedNext, Zenon
<1>14. ASSUME NEW c \in Client
       PROVE  /\ conn'[c] = IF c \in R THEN Queued(c) ELSE conn[c]
              /\ conn'[c] \in ConnType
              /\ conn'[c].fd = conn[c].fd /\ conn'[c].state = conn[c].state
              /\ c \in R => conn[c].state = "live" /\ conn'[c].is_writing = TRUE /\ conn'[c].queue > 0
  <2>1. conn'[c] = IF c \in R THEN Queued(c) ELSE conn[c]
    BY <1>4, Zenon DEF R
  <2>2. conn[c] \in ConnType
    BY <1>2, QueueTypes, Zenon
  <2>3. CASE c \in R
    <3>1. MayReply(c) /\ conn[c].state = "live"
      BY <1>9, <2>3, Zenon DEF MayReply
    <3>2. /\ Queued(c) \in ConnType
          /\ Queued(c).state = conn[c].state /\ Queued(c).fd = conn[c].fd
          /\ Queued(c).is_writing = TRUE /\ Queued(c).queue = conn[c].queue + 1
      BY <1>2, <3>1, QueueTypes, Zenon
    <3>3. conn[c].queue + 1 > 0
      BY <2>2, SizeAssumption DEF ConnType
    <3> QED
      BY <2>1, <2>3, <3>1, <3>2, <3>3, Zenon
  <2>4. CASE c \notin R
    BY <2>1, <2>2, <2>4, Zenon
  <2> QED
    BY <2>3, <2>4, Zenon
<1>15. conn' \in Conns
  <2>1. conn' = [c \in Client |-> conn'[c]]
    BY <1>4, <1>14, Zenon DEF R
  <2> QED
    BY <1>14, <2>1, Zenon DEF Conns
<1>16. Grows /\ OwnKept /\ Sockets' /\ files' \in [Fds -> File]
  BY <1>1, <1>2, <1>14, <1>15, QueuesOnly, Zenon
<1>17. ASSUME r.ok PROVE RingOK(r, conn') /\ Kept(r)
  <2> DEFINE Z == X \cup {Notified}
  <2>1. Turned(r, {Notified}, Z)
    BY <1>10, <1>13, <1>17, Zenon
  <2>2. \A K \in Keys : Once(r, K) /\ (Some(r, K) <=> (Some(Now, K) /\ K # Notified) \/ K \in X \/ K = Notified)
    BY <2>1 DEF Turned
  <2>3. Some(r, Accepting) /\ Some(r, Notified)
    BY <1>2, <2>2, KeysOf, KeysDiffer, Zenon DEF RingOK
  <2>4. ASSUME NEW c \in Client
        PROVE  /\ Some(r, Key("accept", c)) <=> Some(Now, Key("accept", c))
               /\ Some(r, Key("read", c)) <=> Some(Now, Key("read", c))
               /\ Some(r, Key("write", c)) <=> Some(Now, Key("write", c)) \/ c \in R
    <3>1. /\ Key("accept", c) \in Keys /\ Key("read", c) \in Keys /\ Key("write", c) \in Keys
          /\ Key("accept", c) # Notified /\ Key("read", c) # Notified /\ Key("write", c) # Notified
      BY KeysOf, KeysDiffer, Zenon
    <3> QED
      BY <1>11, <2>2, <3>1
  <2>5. ASSUME NEW c \in Client PROVE Held(r, conn'[c], c)
    <3>1. Held(Now, conn[c], c)
      BY <1>2 DEF RingOK
    <3>2. CASE c \in R
      BY <1>14, <2>4, <3>1, <3>2, Zenon DEF Held
    <3>3. CASE c \notin R
      <4>1. conn'[c] = conn[c]
        BY <1>14, <3>3, Zenon
      <4>2. Held(r, conn[c], c)
        BY <2>4, <3>1, <3>3, Zenon DEF Held
      <4> QED
        BY <4>1, <4>2, Zenon
    <3> QED
      BY <3>2, <3>3
  <2>6. Kept(r)
    BY <2>4, Zenon DEF Kept
  <2> QED
    BY <2>2, <2>3, <2>5, <2>6, Zenon DEF RingOK
<1>18. HandlerOK(r)
  BY <1>7, <1>10, <1>13, <1>16, <1>17, Zenon DEF HandlerOK
<1> QED
  BY <1>1, <1>2, <1>6, <1>15, <1>16, <1>18, Leaves, Zenon

-----------------------------------------------------------------------------
(* The other steps *)

\* The loop goes on, with the ring that Now' is.
LEMMA GoesOn ==
    ASSUME IInv, Running, loop' \in {"handlers", "ring"}, cause' = cause, Grows, OwnKept, conn' \in Conns,
           files' \in [Fds -> File], Sockets', Now' \in Rings', RingOK(Now', conn'),
           harm' \subseteq harm \cup {"read", "write", "notif"},
           {"read", "write", "notif"} \cap harm' # {} => Leftover(Now', conn')
    PROVE  IInv'
<1>1. build' = build /\ build \in {"linux", "stub"} /\ Running'
  BY Zenon DEF Grows, IInv, Types, Running
<1>2. Types'
  BY <1>1 DEF Types, IInv
<1>3. OwnFds'
  BY <1>1, OwnFdsKept
<1>4. Harms'
  <2>1. harm \in SUBSET {"read", "write", "notif", "close", "wake"} /\ "close" \notin harm /\ "wake" \notin harm
    BY DEF IInv, Harms, Running
  <2> QED
    BY <2>1 DEF Harms
<1> QED
  BY <1>1, <1>2, <1>3, <1>4, Zenon DEF IInv

\* Every key is where it was, whichever place that is.
LEMMA SameKeys ==
    ASSUME NEW r, NEW u, NEW cn, RingOK(r, cn),
           \A K \in Keys : (Some(u, K) <=> Some(r, K)) /\ (Once(r, K) => Once(u, K))
    PROVE  RingOK(u, cn) /\ (Leftover(r, cn) => Leftover(u, cn))
<1>1. Some(u, Accepting) /\ Some(u, Notified) /\ \A K \in Keys : Once(u, K)
  BY KeysOf, Zenon DEF RingOK
<1>2. ASSUME NEW c \in Client
      PROVE  /\ Some(u, Key("accept", c)) <=> Some(r, Key("accept", c))
             /\ Some(u, Key("read", c)) <=> Some(r, Key("read", c))
             /\ Some(u, Key("write", c)) <=> Some(r, Key("write", c))
  BY KeysOf
<1>3. ASSUME NEW c \in Client PROVE Held(u, cn[c], c)
  <2>1. Held(r, cn[c], c)
    BY Zenon DEF RingOK
  <2> QED
    BY <1>2, <2>1, Zenon DEF Held
<1>4. Leftover(r, cn) => Leftover(u, cn)
  BY <1>2, Zenon DEF Leftover
<1> QED
  BY <1>1, <1>3, <1>4 DEF RingOK

LEMMA SubmitStep ==
    ASSUME IInv, submit_and_wait
    PROVE  IInv'
<1> DEFINE r == Submitted(Now)
<1>1. /\ loop = "handlers" /\ sq' = r.sq /\ pending' = r.pending /\ cq' = r.cq /\ loop' = "ring"
      /\ build' = build /\ files' = files /\ conn' = conn /\ cause' = cause /\ harm' = harm
  BY Zenon DEF submit_and_wait, Now
<1>2. TableOK /\ Now \in Rings /\ RingOK(Now, conn) /\ Running
  BY <1>1, Handling DEF Running
<1>3. /\ r \in Rings /\ r.ok = Now.ok
      /\ \A K \in Keys : (Some(r, K) <=> Some(Now, K)) /\ (Once(Now, K) => Once(r, K))
  BY <1>2, SubmittedAll, Zenon
<1> HIDE DEF r
<1>4. Now' = r
  <2>1. Now.ok = TRUE
    BY Zenon DEF Now
  <2>2. r = [sq |-> r.sq, pending |-> r.pending, cq |-> r.cq, ok |-> r.ok]
    BY <1>3, RingFields
  <2> QED
    BY <1>1, <1>3, <2>1, <2>2, Zenon DEF Now
<1>5. Grows /\ OwnKept /\ conn' \in Conns /\ files' \in [Fds -> File] /\ Sockets'
  BY <1>1, <1>2, Zenon DEF Grows, OwnKept, TableOK, Sockets
<1>6. Now' \in Rings'
  BY <1>3, <1>4, <1>5, RingsGrow, Zenon
<1>7. RingOK(r, conn) /\ (Leftover(Now, conn) => Leftover(r, conn))
  BY <1>2, <1>3, SameKeys, Zenon
<1>8. {"read", "write", "notif"} \cap harm' # {} => Leftover(Now', conn')
  BY <1>1, <1>2, <1>4, <1>7, Zenon DEF IInv, Harms
<1> QED
  BY <1>1, <1>2, <1>4, <1>5, <1>6, <1>7, <1>8, GoesOn, Zenon

LEMMA BatchStep ==
    ASSUME IInv, for_each_cqe
    PROVE  IInv'
<1>1. /\ loop = "ring" /\ loop' = "handlers" /\ build' = build /\ files' = files /\ conn' = conn
      /\ cause' = cause /\ harm' = harm /\ Now' = Now
  BY Zenon DEF for_each_cqe, ring, Now
<1>2. TableOK /\ Now \in Rings /\ RingOK(Now, conn) /\ Running
  BY <1>1, Handling DEF Running
<1>3. Grows /\ OwnKept /\ conn' \in Conns /\ files' \in [Fds -> File] /\ Sockets'
  BY <1>1, <1>2, Zenon DEF Grows, OwnKept, TableOK, Sockets
<1>4. Now' \in Rings'
  BY <1>1, <1>2, <1>3, RingsGrow, Zenon
<1>5. {"read", "write", "notif"} \cap harm' # {} => Leftover(Now', conn')
  BY <1>1, <1>2, Zenon DEF IInv, Harms
<1> QED
  BY <1>1, <1>2, <1>3, <1>4, <1>5, GoesOn, Zenon

\* A completion is posted: what the ring is then.
LEMMA Posted ==
    ASSUME IInv, NEW p, Completes(p), NEW x \in CqEntry, cq' = Append(cq, x), sq' = sq
    PROVE  /\ Running /\ TableOK /\ RingOK(Now, conn) /\ p \in PendEntry /\ p \in Now.pending
           /\ Now' \in Rings
           /\ \A K : /\ (Mine(x, K) <=> Mine(p, K)) => (Some(Now', K) <=> Some(Now, K))
                     /\ Mine(x, K) => Some(Now', K)
                     /\ Once(Now, K) /\ (Mine(x, K) => Mine(p, K) \/ ~Some(Now, K)) => Once(Now', K)
<1>1. Running /\ p \in pending /\ pending' = pending \ {p}
  BY Zenon DEF Completes, Running
<1>2. TableOK /\ Now \in Rings /\ RingOK(Now, conn)
  BY <1>1, Handling
<1> DEFINE r == Now
           u == Now'
<1>3. /\ r.sq = sq /\ r.pending = pending /\ r.cq = cq
      /\ u.sq = r.sq /\ u.pending = r.pending \ {p} /\ u.cq = Append(r.cq, x)
      /\ u = [sq |-> sq, pending |-> pending \ {p}, cq |-> Append(cq, x), ok |-> TRUE]
  BY <1>1, Zenon DEF Now
<1>4. sq \in Seq(SqEntry) /\ pending \in SUBSET PendEntry /\ cq \in Seq(CqEntry) /\ Len(sq) <= SqSize
  BY <1>2, <1>3, RingFields, Zenon
<1>5. Append(cq, x) \in Seq(CqEntry) /\ pending \ {p} \in SUBSET PendEntry
  BY <1>4
<1>6. Now' \in Rings
  BY <1>3, <1>4, <1>5, RingType, Zenon
<1> HIDE DEF r, u
<1>7. ASSUME NEW K
      PROVE  /\ (Mine(x, K) <=> Mine(p, K)) => (Some(u, K) <=> Some(r, K))
             /\ Mine(x, K) => Some(u, K)
             /\ Once(r, K) /\ (Mine(x, K) => Mine(p, K) \/ ~Some(r, K)) => Once(u, K)
  <2>1. p \in r.pending /\ r.cq \in Seq(CqEntry)
    BY <1>1, <1>3, <1>4, Zenon
  <2>2. u.sq = r.sq /\ u.pending = r.pending \ {p} /\ u.cq = Append(r.cq, x)
    BY <1>3, Zenon
  <2> QED
    BY <2>1, <2>2, CompletedOnce, Zenon
<1> QED
  BY <1>1, <1>2, <1>3, <1>4, <1>6, <1>7, Zenon DEF r, u

\* The lowest number that is free.
LEMMA FreeNumber ==
    ASSUME Free # {}
    PROVE  Min(Free) \in Fds /\ files[Min(Free)] = "closed"
<1>1. Free \in SUBSET Nat
  BY SizeAssumption DEF Free, Fds
<1>2. \E x \in Free : \A y \in Free : x <= y
  BY <1>1, LeastNat
<1>3. Min(Free) \in Free
  <2> HIDE DEF Free
  <2> QED
    BY <1>2, Zenon DEF Min
<1> QED
  BY <1>3 DEF Free

\* Whoever gets it takes nobody's file.
LEMMA FreeTaken ==
    ASSUME TableOK, Free # {}, NEW f \in File, files' = [files EXCEPT ![Min(Free)] = f]
    PROVE  /\ files' \in [Fds -> File] /\ OwnKept /\ files'[Min(Free)] = f
           /\ \A c \in Client : conn[c].state \in {"accepted", "live"} => files'[conn[c].fd] = c
<1> DEFINE m == Min(Free)
<1>1. m \in Fds /\ files[m] = "closed"
  BY FreeNumber
<1> HIDE DEF m
<1>2. /\ files \in [Fds -> File] /\ files' = [files EXCEPT ![m] = f]
  BY DEF TableOK, m
<1>3. files' \in [Fds -> File] /\ OwnKept /\ files'[m] = f
  BY <1>1, <1>2, Zenon DEF OwnKept
<1>4. ASSUME NEW c \in Client, conn[c].state \in {"accepted", "live"} PROVE files'[conn[c].fd] = c
  <2>1. conn[c].fd \in Fds /\ files[conn[c].fd] = c
    BY <1>4, Zenon DEF TableOK, Sockets, Conns, ConnType
  <2>2. c # "closed"
    BY ClientAssumption
  <2> QED
    BY <1>1, <1>2, <2>1, <2>2, Zenon
<1> QED
  BY <1>3, <1>4, Zenon DEF m

\* The operation of an entry is one of the operations.
LEMMA PendingOps ==
    ASSUME NEW p \in PendEntry, NEW res \in {"ok", "error"}
    PROVE  [op |-> p.op, who |-> p.who, res |-> res] \in CqEntry
<1>1. p.op \in OpNames /\ p.who \in Whom /\ Names(p)
  BY DEF PendEntry
<1>2. [op |-> p.op, who |-> p.who] \in Ops
  BY <1>1, Zenon DEF Names, Ops
<1> QED
  BY <1>1, <1>2, Zenon DEF CqEntry

\* The completion of an operation is where its entry was.
LEMMA PostStep ==
    ASSUME IInv, NEW p, Completes(p), NEW res \in {"ok", "error"}, Post(p, res),
           UNCHANGED <<build, files, loop, sq, conn, cause>>,
           harm' \subseteq harm \cup {"read", "write", "notif"},
           harm' # harm => Leftover(Now, conn)
    PROVE  IInv'
<1> DEFINE x == [op |-> p.op, who |-> p.who, res |-> res]
<1>1. Running /\ p \in PendEntry
  <2>1. Running /\ p \in pending
    BY Zenon DEF Completes, Running
  <2>2. Now \in Rings /\ Now.pending = pending
    BY <2>1, Handling, Zenon DEF Now
  <2> QED
    BY <2>1, <2>2, RingFields, Zenon
<1>2. x \in CqEntry
  BY <1>1, PendingOps, Zenon
<1>3. cq' = Append(cq, x) /\ \A K : Mine(x, K) <=> Mine(p, K)
  BY Zenon DEF Post, Mine
<1> HIDE DEF x
<1>4. /\ TableOK /\ RingOK(Now, conn) /\ Now' \in Rings
      /\ \A K : /\ (Mine(x, K) <=> Mine(p, K)) => (Some(Now', K) <=> Some(Now, K))
                /\ Once(Now, K) /\ (Mine(x, K) => Mine(p, K) \/ ~Some(Now, K)) => Once(Now', K)
  BY <1>2, <1>3, Posted, Zenon
<1> DEFINE u == Now'
           r == Now
<1>5. RingOK(r, conn) /\ \A K \in Keys : (Some(u, K) <=> Some(r, K)) /\ (Once(r, K) => Once(u, K))
  BY <1>3, <1>4, Zenon
<1>6. RingOK(u, conn) /\ (Leftover(r, conn) => Leftover(u, conn))
  <2> HIDE DEF u, r
  <2> QED
    BY <1>5, SameKeys, Zenon
<1>7. Grows /\ OwnKept /\ conn' \in Conns /\ files' \in [Fds -> File] /\ Sockets'
  BY <1>4, Zenon DEF Grows, OwnKept, TableOK, Sockets
<1>8. Now' \in Rings'
  BY <1>4, <1>7, RingsGrow, Zenon
<1>9. {"read", "write", "notif"} \cap harm' # {} => Leftover(Now', conn')
  <2>1. {"read", "write", "notif"} \cap harm # {} => Leftover(r, conn)
    BY <1>1, Zenon DEF IInv, Harms
  <2> QED
    BY <1>6, <2>1, Zenon
<1>10. RingOK(Now', conn') /\ loop' \in {"handlers", "ring"}
  BY <1>1, <1>6 DEF Running
<1> QED
  BY <1>1, <1>7, <1>8, <1>9, <1>10, GoesOn, Zenon

LEMMA AcceptFailedStep ==
    ASSUME IInv, NEW p, complete_accept_error(p)
    PROVE  IInv'
<1>1. /\ Completes(p) /\ Post(p, "error") /\ harm' = harm
      /\ UNCHANGED <<build, files, loop, sq, conn, cause>>
  BY Zenon DEF complete_accept_error
<1> QED
  BY <1>1, PostStep

\* What an operation is done with is the file of its owner, unless that is
\* gone, in which case the operation is what is left of it.
LEMMA CompleteStep ==
    ASSUME IInv, NEW p, NEW res \in {"ok", "error"}, complete(p, res)
    PROVE  IInv'
<1>1. /\ Completes(p) /\ Post(p, res) /\ p.op # "accept" /\ UNCHANGED <<build, files, loop, sq, conn, cause>>
      /\ harm' = harm \cup (IF res = "ok" /\ Target(p) # p.who THEN {p.op} ELSE {})
  BY Zenon DEF complete
<1>2. Running /\ p \in pending
  BY <1>1 DEF Completes, Running
<1>3. TableOK /\ p \in PendEntry /\ p \in Now.pending
  <2>1. TableOK /\ Now \in Rings /\ Now.pending = pending
    BY <1>2, Handling, Zenon DEF Now
  <2> QED
    BY <1>2, <2>1, RingFields
<1>4. p.op \in {"read", "write", "notif"} /\ Names(p) /\ Found(p)
  BY <1>1, <1>3, Zenon DEF PendEntry, OpNames
<1>5. harm' \subseteq harm \cup {"read", "write", "notif"}
  BY <1>1, <1>4, Zenon
<1>6. ASSUME Target(p) # p.who PROVE Leftover(Now, conn)
  <2>1. p.op # "notif"
    <3>1. ASSUME p.op = "notif" PROVE Target(p) = p.who
      <4>1. p.who = "event" /\ p.fd = EventFd
        BY <1>4, <3>1, Zenon DEF Names
      <4>2. files[EventFd] = "event" /\ build \in {"linux", "stub"}
        BY <1>3, Zenon DEF TableOK
      <4> QED
        BY <1>4, <3>1, <4>1, <4>2, Zenon DEF Found, Target
    <3> QED
      BY <1>6, <3>1, Zenon
  <2>2. p.op \in {"read", "write"} /\ p.who \in Client /\ p.fd = conn[p.who].fd /\ conn[p.who].state # "none"
    BY <1>4, <2>1 DEF Names
  <2>3. Some(Now, Key(p.op, p.who))
    BY <1>3, MineOf, Zenon DEF Some, SomeAt
  <2>4. Held(Now, conn[p.who], p.who) /\ conn[p.who] \in ConnType
    BY <1>2, <2>2, Handling, Zenon DEF RingOK, TableOK, Conns
  <2>5. conn[p.who].state \in {"live", "freed"}
    BY <2>2, <2>3, <2>4, Zenon DEF Held, ConnType
  <2>6. conn[p.who].state # "live"
    <3>1. ASSUME conn[p.who].state = "live" PROVE Target(p) = p.who
      <4>1. files[conn[p.who].fd] = p.who
        BY <1>3, <2>2, <3>1, Zenon DEF TableOK, Sockets
      <4> QED
        BY <1>3, <1>4, <2>2, <3>1, <4>1, Zenon DEF Found, Target, TableOK
    <3> QED
      BY <1>6, <3>1, Zenon
  <2> QED
    BY <2>2, <2>3, <2>5, <2>6, Zenon DEF Leftover
<1>7. harm' # harm => Leftover(Now, conn)
  BY <1>1, <1>6, Zenon
<1> QED
  BY <1>1, <1>5, <1>7, PostStep

\* A new Connection, of client c, whose accept is completed.
LEMMA AcceptedStep ==
    ASSUME IInv, NEW p, NEW c \in Client, complete_accept(p, c)
    PROVE  IInv'
<1> DEFINE m == Min(Free)
           x == [op |-> "accept", who |-> c, res |-> "ok"]
           ac == Key("accept", c)
           u == Now'
<1>1. /\ Completes(p) /\ p.op = "accept" /\ conn[c].state = "none" /\ Free # {}
      /\ files' = [files EXCEPT ![m] = c]
      /\ conn' = [conn EXCEPT ![c] = [conn[c] EXCEPT !.state = "accepted", !.fd = m]]
      /\ cq' = Append(cq, x) /\ UNCHANGED <<build, loop, sq, cause, harm>>
  BY Zenon DEF complete_accept
<1>2. x \in CqEntry
  BY DEF CqEntry, Ops, OpNames, Whom
<1>3. m \in Fds /\ c \in File
  BY <1>1, FreeNumber DEF File
<1>4. \A op, d : (Mine(x, Key(op, d)) <=> op = "accept" /\ d = c) /\ Mine(x, Accepting) /\ ~Mine(x, Notified)
  BY MineOf
<1> HIDE DEF x
<1>5. /\ Running /\ TableOK /\ RingOK(Now, conn) /\ p \in PendEntry /\ Now' \in Rings
      /\ \A K : /\ (Mine(x, K) <=> Mine(p, K)) => (Some(Now', K) <=> Some(Now, K))
                /\ Mine(x, K) => Some(Now', K)
                /\ Once(Now, K) /\ (Mine(x, K) => Mine(p, K) \/ ~Some(Now, K)) => Once(Now', K)
  BY <1>1, <1>2, Posted
<1>6. p.who = "listen"
  BY <1>1, <1>5 DEF PendEntry, Names
<1>7. /\ \A op : \A d \in Client : ~Mine(p, Key(op, d))
      /\ Mine(p, Accepting) /\ ~Mine(p, Notified)
  BY <1>1, <1>6, MineOf, ClientAssumption
<1>8. Held(Now, conn[c], c) /\ ~Some(Now, ac)
  BY <1>1, <1>5, Zenon DEF RingOK, Held
<1>9. /\ conn' \in Conns /\ \A d \in Client : d # c => conn'[d] = conn[d]
      /\ conn'[c].state = "accepted" /\ conn'[c].fd = m
      /\ conn'[c].is_writing = conn[c].is_writing /\ conn'[c].queue = conn[c].queue
  <2> HIDE DEF m
  <2> DEFINE d == conn[c]
             e == [conn[c] EXCEPT !.state = "accepted", !.fd = m]
  <2>1. conn \in Conns /\ d \in ConnType
    BY <1>5, Zenon DEF TableOK, Conns
  <2>2. e \in ConnType /\ e.state = "accepted" /\ e.fd = m /\ e.is_writing = d.is_writing /\ e.queue = d.queue
    BY <1>3, <2>1, Zenon DEF ConnType
  <2>3. conn' = [conn EXCEPT ![c] = e]
    BY <1>1
  <2> HIDE DEF e
  <2> QED
    BY <2>1, <2>2, <2>3, Zenon DEF Conns
<1>10. /\ files' \in [Fds -> File] /\ OwnKept /\ files'[m] = c
       /\ \A d \in Client : conn[d].state \in {"accepted", "live"} => files'[conn[d].fd] = d
  BY <1>1, <1>3, <1>5, FreeTaken, Zenon
<1> HIDE DEF m
<1>11. Sockets' /\ Grows
  BY <1>1, <1>9, <1>10, Zenon DEF Sockets, Grows
<1>12. Now' \in Rings'
  BY <1>5, <1>11, RingsGrow, Zenon
<1>13. \A K \in Keys : K # ac => (Some(u, K) <=> Some(Now, K))
  <2>1. ASSUME NEW K \in Keys, K # ac PROVE Mine(x, K) <=> Mine(p, K)
    <3>1. K = Accepting \/ K = Notified \/ \E op \in {"accept", "read", "write"}, d \in Client : K = Key(op, d)
      BY DEF Keys
    <3> QED
      BY <1>4, <1>7, <2>1, <3>1, Zenon
  <2> QED
    BY <1>5, <2>1, Zenon
<1>14. \A K \in Keys : Once(u, K)
  <2>1. ASSUME NEW K \in Keys, K # ac PROVE Mine(x, K) => Mine(p, K)
    <3>1. K = Accepting \/ K = Notified \/ \E op \in {"accept", "read", "write"}, d \in Client : K = Key(op, d)
      BY DEF Keys
    <3> QED
      BY <1>4, <1>7, <2>1, <3>1, Zenon
  <2>2. \A K \in Keys : Once(Now, K)
    BY <1>5, Zenon DEF RingOK
  <2> QED
    BY <1>5, <1>8, <2>1, <2>2
<1> HIDE DEF u
<1>15. ASSUME NEW d \in Client
       PROVE  /\ Some(u, Key("read", d)) <=> Some(Now, Key("read", d))
              /\ Some(u, Key("write", d)) <=> Some(Now, Key("write", d))
              /\ d # c => (Some(u, Key("accept", d)) <=> Some(Now, Key("accept", d)))
  BY <1>13, KeysOf, KeysDiffer
<1>16. \A d \in Client : Held(u, conn'[d], d)
  <2>1. /\ Some(u, Key("read", c)) <=> Some(Now, Key("read", c))
        /\ Some(u, Key("write", c)) <=> Some(Now, Key("write", c))
    BY <1>15, Zenon
  <2>2. Held(u, conn'[c], c)
    BY <1>1, <1>8, <1>9, <2>1, Zenon DEF Held
  <2>3. ASSUME NEW d \in Client, d # c PROVE Held(u, conn'[d], d)
    <3>1. Held(Now, conn[d], d) /\ conn'[d] = conn[d]
      BY <1>5, <1>9, <2>3, Zenon DEF RingOK
    <3>2. /\ Some(u, Key("read", d)) <=> Some(Now, Key("read", d))
          /\ Some(u, Key("write", d)) <=> Some(Now, Key("write", d))
          /\ Some(u, Key("accept", d)) <=> Some(Now, Key("accept", d))
      BY <1>15, <2>3, Zenon
    <3> QED
      BY <3>1, <3>2, Zenon DEF Held
  <2> QED
    BY <2>2, <2>3, Zenon
<1>17. Some(u, Accepting) /\ Some(u, Notified)
  <2>1. Some(Now, Accepting) /\ Some(Now, Notified)
    BY <1>5, Zenon DEF RingOK
  <2> QED
    BY <1>13, <2>1, KeysOf, KeysDiffer
<1>18. RingOK(u, conn')
  BY <1>14, <1>16, <1>17, Zenon DEF RingOK
<1>19. Leftover(Now, conn) => Leftover(u, conn')
  <2>1. ASSUME NEW d \in Client, conn[d].state = "freed",
               Some(Now, Key("read", d)) \/ Some(Now, Key("write", d))
        PROVE  Leftover(u, conn')
    <3>1. d # c /\ conn'[d] = conn[d]
      BY <1>1, <1>9, <2>1, Zenon
    <3>2. Some(u, Key("read", d)) \/ Some(u, Key("write", d))
      BY <1>15, <2>1, Zenon
    <3> QED
      BY <2>1, <3>1, <3>2, Zenon DEF Leftover
  <2> QED
    BY <2>1, Zenon DEF Leftover
<1>20. {"read", "write", "notif"} \cap harm' # {} => Leftover(u, conn')
  BY <1>1, <1>5, <1>19, Zenon DEF IInv, Harms
<1>21. loop' \in {"handlers", "ring"} /\ cause' = cause /\ harm' \subseteq harm \cup {"read", "write", "notif"}
  BY <1>1, <1>5, Zenon DEF Running
<1> QED
  BY <1>5, <1>9, <1>10, <1>11, <1>12, <1>18, <1>20, <1>21, GoesOn, Zenon DEF u

\* The loop is left, and nobody looks at the ring any more.
LEMMA Stops ==
    ASSUME IInv, Running, loop' \in {"undefined", "unwind"}, Abandoned, cause' \in {cause, "command"},
           UNCHANGED <<build, files, conn, harm>>
    PROVE  IInv'
<1>1. Now' = [sq |-> <<>>, pending |-> {}, cq |-> <<>>, ok |-> TRUE]
  BY Zenon DEF Abandoned, Now
<1>2. Now' \in Rings'
  BY <1>1, SizeAssumption DEF Rings
<1>3. Types'
  BY <1>2, Zenon DEF Types, IInv, Conns, File, Fds
<1>4. OwnFds'
  BY OwnFdsKept, Zenon DEF OwnKept
<1>5. ~Running'
  BY DEF Running
<1>6. Harms'
  BY <1>5 DEF IInv, Harms, Running
<1> QED
  BY <1>3, <1>4, <1>5, <1>6, Zenon DEF IInv

LEMMA FreedStep ==
    ASSUME IInv, dispatch_freed
    PROVE  IInv'
<1>1. Running /\ loop' \in {"undefined", "unwind"} /\ Abandoned /\ UNCHANGED <<build, files, conn, cause, harm>>
  BY Zenon DEF dispatch_freed, Running
<1> QED
  BY <1>1, Stops

LEMMA ThrowsStep ==
    ASSUME IInv, command_throws
    PROVE  IInv'
<1>1. Running /\ loop' \in {"undefined", "unwind"} /\ Abandoned /\ cause' \in {cause, "command"}
      /\ UNCHANGED <<build, files, conn, harm>>
  BY Zenon DEF command_throws, Dispatch, Running
<1> QED
  BY <1>1, Stops

\* The same ring and Connections, after the loop.
LEMMA Afterwards ==
    ASSUME IInv, ~Running, ~Running', loop' \in {loop, "close_event", "close_notify", "ended"},
           UNCHANGED <<build, ring, conn, cause>>, files' \in [Fds -> File], OwnFds',
           harm' \in SUBSET {"read", "write", "notif", "close", "wake"},
           "close" \in harm' => build = "linux" /\ loop' = "ended"
    PROVE  IInv'
<1>1. Now' = Now /\ Grows
  BY Zenon DEF Now, ring, Grows
<1>2. Now' \in Rings'
  BY <1>1, RingsGrow DEF IInv, Types
<1>3. Types'
  BY <1>2, Zenon DEF Types, IInv, Conns, Fds, File
<1>4. Harms'
  BY DEF Harms
<1> QED
  BY <1>3, <1>4 DEF IInv

\* The three numbers of the core, of which two are one on Linux.
LEMMA CoreFds ==
    /\ EventFd \in Fds /\ NotifyFd \in Fds /\ ListenFd \in Fds
    /\ ListenFd # EventFd /\ ListenFd # NotifyFd /\ (build = "stub" => EventFd # NotifyFd)
BY SizeAssumption DEF EventFd, NotifyFd, ListenFd, Fds

LEMMA DestroyStep ==
    ASSUME IInv, destroy_server
    PROVE  IInv'
<1>1. /\ loop = "unwind" /\ loop' = "close_event" /\ UNCHANGED <<build, ring, conn, cause>>
      /\ files' = [files EXCEPT ![ListenFd] = "closed"]
      /\ harm' = harm \cup (IF files[ListenFd] \in {"listen", "closed"} THEN {} ELSE {"close"})
  BY Zenon DEF destroy_server, close
<1>2. files \in [Fds -> File] /\ files[ListenFd] = "listen" /\ OwnFds
  BY <1>1, Zenon DEF IInv, Types, OwnFds
<1>3. files' \in [Fds -> File] /\ \A n \in Fds : n # ListenFd => files'[n] = files[n]
  BY <1>1, <1>2, Zenon DEF File
<1>4. harm' = harm /\ ~Running /\ ~Running'
  BY <1>1, <1>2, Zenon DEF Running
<1>5. OwnFds'
  <2>1. EventFd' = EventFd /\ files'[EventFd] = files[EventFd] /\ files'[NotifyFd] = files[NotifyFd]
    BY <1>1, <1>3, CoreFds, Zenon DEF EventFd
  <2> QED
    BY <1>1, <1>2, <2>1, Zenon DEF OwnFds, NotifyFd
<1>6. harm \in SUBSET {"read", "write", "notif", "close", "wake"} /\ "close" \notin harm
  BY <1>1, Zenon DEF IInv, Harms
<1> QED
  BY <1>1, <1>3, <1>4, <1>5, <1>6, Afterwards, Zenon

LEMMA CloseEventStep ==
    ASSUME IInv, close_event_fd
    PROVE  IInv'
<1>1. /\ loop = "close_event" /\ loop' = "close_notify" /\ UNCHANGED <<build, ring, conn, cause>>
      /\ files' = [files EXCEPT ![EventFd] = "closed"]
      /\ harm' = harm \cup (IF files[EventFd] \in {"event", "closed"} THEN {} ELSE {"close"})
  BY Zenon DEF close_event_fd, close
<1>2. files \in [Fds -> File] /\ files[EventFd] = "event" /\ OwnFds
  BY <1>1, Zenon DEF IInv, Types, OwnFds
<1>3. files' \in [Fds -> File] /\ \A n \in Fds : n # EventFd => files'[n] = files[n]
  BY <1>1, <1>2, Zenon DEF File
<1>4. harm' = harm /\ ~Running /\ ~Running'
  BY <1>1, <1>2, Zenon DEF Running
<1>5. OwnFds'
  <2>1. build = "stub" => files'[NotifyFd] = files[NotifyFd]
    BY <1>1, <1>3, CoreFds, Zenon
  <2> QED
    BY <1>1, <1>2, <2>1, Zenon DEF OwnFds, NotifyFd
<1>6. harm \in SUBSET {"read", "write", "notif", "close", "wake"} /\ "close" \notin harm
  BY <1>1, Zenon DEF IInv, Harms
<1> QED
  BY <1>1, <1>3, <1>4, <1>5, <1>6, Afterwards, Zenon

\* On Linux the number may be another's by now: it is the one just closed.
LEMMA CloseNotifyStep ==
    ASSUME IInv, close_notify_fd
    PROVE  IInv'
<1>1. /\ loop = "close_notify" /\ loop' = "ended" /\ UNCHANGED <<build, ring, conn, cause>>
      /\ files' = [n \in Fds |-> IF n = NotifyFd \/ files[n] = "ring" THEN "closed" ELSE files[n]]
      /\ harm' = harm \cup (IF files[NotifyFd] \in {"event", "closed"} THEN {} ELSE {"close"})
  BY Zenon DEF close_notify_fd
<1>2. /\ files \in [Fds -> File] /\ (build = "stub" => files[NotifyFd] = "event") /\ build \in {"linux", "stub"}
      /\ harm \in SUBSET {"read", "write", "notif", "close", "wake"} /\ "close" \notin harm
  BY <1>1, Zenon DEF IInv, Types, OwnFds, Harms
<1>3. files' \in [Fds -> File]
  BY <1>1, <1>2, Zenon DEF File
<1>4. ~Running /\ ~Running' /\ OwnFds'
  BY <1>1, Zenon DEF Running, OwnFds
<1> QED
  BY <1>1, <1>2, <1>3, <1>4, Afterwards, Zenon

\* Other threads change the table, at numbers that are not the core's.
LEMMA OtherFiles ==
    ASSUME IInv, UNCHANGED <<build, loop, ring, conn, cause, harm>>, files' \in [Fds -> File],
           \A n \in Fds : files[n] \notin {"other", "closed"} => files'[n] = files[n]
    PROVE  IInv'
<1>1. Now' = Now /\ Grows /\ OwnKept
  BY Zenon DEF Now, ring, Grows, OwnKept
<1>2. OwnFds'
  BY <1>1, OwnFdsKept
<1>3. CASE Running
  <2>1. TableOK /\ Now \in Rings /\ RingOK(Now, conn)
    BY <1>3, Handling, Zenon
  <2>2. Now' \in Rings'
    BY <1>1, <2>1, RingsGrow, Zenon
  <2>3. Sockets'
    <3>1. ASSUME NEW c \in Client, conn[c].state \in {"accepted", "live"} PROVE files'[conn[c].fd] = c
      <4>1. conn[c].fd \in Fds /\ files[conn[c].fd] = c
        BY <2>1, <3>1, Zenon DEF TableOK, Sockets, Conns, ConnType
      <4>2. c # "closed" /\ c # "other"
        BY ClientAssumption, Zenon
      <4> QED
        BY <4>1, <4>2, Zenon
    <3> QED
      BY <3>1, Zenon DEF Sockets
  <2>4. {"read", "write", "notif"} \cap harm' # {} => Leftover(Now', conn')
    BY <1>1, <1>3, Zenon DEF IInv, Harms
  <2>5. conn' \in Conns /\ loop' \in {"handlers", "ring"} /\ RingOK(Now', conn')
    BY <1>1, <1>3, <2>1, Zenon DEF TableOK, Running
  <2> QED
    BY <1>1, <1>3, <2>2, <2>3, <2>4, <2>5, GoesOn, Zenon
<1>4. CASE ~Running
  <2>1. /\ ~Running' /\ harm' \in SUBSET {"read", "write", "notif", "close", "wake"}
        /\ "close" \in harm' => build = "linux" /\ loop' = "ended"
    BY <1>4, Zenon DEF IInv, Harms, Running
  <2> QED
    BY <1>2, <1>4, <2>1, Afterwards, Zenon
<1> QED
  BY <1>3, <1>4, Zenon

LEMMA OpenStep ==
    ASSUME IInv, other_open
    PROVE  IInv'
<1> DEFINE m == Min(Free)
<1>1. m \in Fds /\ files[m] = "closed" /\ files \in [Fds -> File]
  BY FreeNumber, Zenon DEF other_open, IInv, Types
<1>2. files' = [files EXCEPT ![m] = "other"] /\ UNCHANGED <<build, loop, ring, conn, cause, harm>>
  BY DEF other_open
<1> HIDE DEF m
<1>3. /\ files' \in [Fds -> File]
      /\ \A n \in Fds : files[n] \notin {"other", "closed"} => files'[n] = files[n]
  BY <1>1, <1>2 DEF File
<1> QED
  BY <1>2, <1>3, OtherFiles, Zenon

LEMMA CloseStep ==
    ASSUME IInv, NEW m \in Fds, other_close(m)
    PROVE  IInv'
<1>1. files[m] = "other" /\ files \in [Fds -> File]
  BY Zenon DEF other_close, IInv, Types
<1>2. files' = [files EXCEPT ![m] = "closed"] /\ UNCHANGED <<build, loop, ring, conn, cause, harm>>
  BY DEF other_close
<1>3. /\ files' \in [Fds -> File]
      /\ \A n \in Fds : files[n] \notin {"other", "closed"} => files'[n] = files[n]
  BY <1>1, <1>2 DEF File
<1> QED
  BY <1>2, <1>3, OtherFiles, Zenon

\* A wake-up reaches a wrong file only when the core has closed its own.
LEMMA WakeStep ==
    ASSUME IInv, notify_core
    PROVE  IInv'
<1>1. /\ files[NotifyFd] # "event" /\ harm' = harm \cup {"wake"}
      /\ UNCHANGED <<build, files, loop, ring, conn, cause>>
  BY Zenon DEF notify_core
<1>2. ~Running
  BY <1>1 DEF IInv, OwnFds, Types, Running, EventFd, NotifyFd
<1>3. /\ ~Running' /\ harm' \in SUBSET {"read", "write", "notif", "close", "wake"}
      /\ "close" \in harm' => build = "linux" /\ loop' = "ended"
  BY <1>1, <1>2, Zenon DEF IInv, Harms, Running
<1>4. files' \in [Fds -> File] /\ OwnFds'
  BY <1>1, OwnFdsKept, Zenon DEF IInv, Types, OwnKept
<1> QED
  BY <1>1, <1>2, <1>3, <1>4, Afterwards, Zenon

-----------------------------------------------------------------------------
(* The invariant *)

LEMMA InitInv ==
    ASSUME Init
    PROVE  IInv
<1> DEFINE a == AcceptOp
           b == NotificationOp
<1>1. /\ build \in {"linux", "stub"} /\ loop = "handlers" /\ sq = <<a, b>> /\ pending = {} /\ cq = <<>>
      /\ cause = "none" /\ harm = {}
  BY Zenon DEF Init
<1>2. /\ files \in [Fds -> File] /\ files[ListenFd] = "listen" /\ files[EventFd] = "event" /\ files[NotifyFd] = "event"
  BY CoreFds DEF Init, File, EventFd, NotifyFd, ListenFd
<1>3. /\ conn \in Conns
      /\ \A c \in Client : conn[c].state = "none" /\ conn[c].is_writing = FALSE /\ conn[c].queue = 0
  <2>1. 0 \in Fds /\ 0 \in 0 .. MaxQueue
    BY SizeAssumption DEF Fds
  <2> QED
    BY <2>1 DEF Init, Conns, ConnType
<1>4. OwnFds /\ Sockets /\ Harms /\ Running
  BY <1>1, <1>2, <1>3, Zenon DEF OwnFds, Sockets, Harms, Running
<1>5. a \in SqEntry /\ b \in SqEntry
  <2>1. TableOK
    BY <1>1, <1>2, <1>3, <1>4, Zenon DEF TableOK
  <2> QED
    BY <2>1, EntriesOK, Zenon
<1>6. \A op, c : c \in Client => ~Mine(a, Key(op, c)) /\ ~Mine(b, Key(op, c))
  BY MineOf, ClientAssumption, Zenon DEF AcceptOp, NotificationOp
<1>7. Mine(a, Accepting) /\ ~Mine(b, Accepting) /\ ~Mine(a, Notified) /\ Mine(b, Notified)
  BY MineOf DEF AcceptOp, NotificationOp
<1> HIDE DEF a, b
<1> DEFINE r == Now
<1>8. r.sq = <<a, b>> /\ r.pending = {} /\ r.cq = <<>> /\ r = [sq |-> <<a, b>>, pending |-> {}, cq |-> <<>>, ok |-> TRUE]
  BY <1>1, Zenon DEF Now
<1>9. r \in Rings
  <2> DEFINE s == <<a, b>>
  <2>1. s \in Seq(SqEntry) /\ Len(s) <= SqSize
    BY <1>5, SizeAssumption
  <2>2. {} \in SUBSET PendEntry /\ <<>> \in Seq(CqEntry) /\ r = [sq |-> s, pending |-> {}, cq |-> <<>>, ok |-> TRUE]
    BY <1>8
  <2> HIDE DEF s, r
  <2> QED
    BY <2>1, <2>2, Zenon DEF Rings
<1> HIDE DEF r
<1>10. \A K : Some(r, K) <=> Mine(a, K) \/ Mine(b, K)
  <2>1. 0 + 1 .. Len(r.sq) = {1, 2} /\ r.sq[1] = a /\ r.sq[2] = b /\ 1 .. Len(r.cq) = {}
    BY <1>8
  <2> QED
    BY <1>8, <2>1, Zenon DEF Some, SomeAt
<1>11. ASSUME NEW K, ~(Mine(a, K) /\ Mine(b, K)) PROVE Once(r, K)
  <2>1. 0 + 1 .. Len(r.sq) = {1, 2} /\ r.sq[1] = a /\ r.sq[2] = b /\ 1 .. Len(r.cq) = {}
    BY <1>8
  <2> QED
    BY <1>8, <1>11, <2>1, Zenon DEF Once, OnceAt
<1>12. \A K \in Keys : Once(r, K)
  <2> SUFFICES ASSUME NEW K \in Keys PROVE ~(Mine(a, K) /\ Mine(b, K))
    BY <1>11, Zenon
  <2>1. K = Accepting \/ K = Notified \/ \E op \in {"accept", "read", "write"}, c \in Client : K = Key(op, c)
    BY DEF Keys
  <2> QED
    BY <1>6, <1>7, <2>1, Zenon
<1>13. \A c \in Client : Held(r, conn[c], c)
  BY <1>3, <1>6, <1>10, Zenon DEF Held
<1>14. RingOK(r, conn)
  BY <1>7, <1>10, <1>12, <1>13, Zenon DEF RingOK
<1> QED
  BY <1>1, <1>2, <1>3, <1>4, <1>9, <1>14, Zenon DEF IInv, Types, r

LEMMA NextInv ==
    ASSUME IInv, [Next]_vars
    PROVE  IInv'
<1>1. CASE UNCHANGED vars
  <2>1. UNCHANGED <<build, loop, ring, conn, cause, harm>> /\ files' = files
    BY <1>1, Zenon DEF vars
  <2>2. files' \in [Fds -> File]
    BY <2>1 DEF IInv, Types
  <2> QED
    BY <2>1, <2>2, OtherFiles, Zenon
<1>2. CASE submit_and_wait
  BY <1>2, SubmitStep
<1>3. CASE for_each_cqe
  BY <1>3, BatchStep
<1>4. ASSUME NEW p \in pending, complete_accept_error(p) PROVE IInv'
  BY <1>4, AcceptFailedStep
<1>5. ASSUME NEW p \in pending, NEW c \in Client, complete_accept(p, c) PROVE IInv'
  BY <1>5, AcceptedStep
<1>6. ASSUME NEW p \in pending, NEW res \in {"ok", "error"}, complete(p, res) PROVE IInv'
  BY <1>6, CompleteStep
<1>7. CASE Handle
  <2>1. ASSUME NEW c \in Client, handle_accept(c) \/ handle_read(c) \/ handle_write(c) \/ delete_this(c) PROVE IInv'
    BY <2>1, AcceptStep, ReadStep, WriteStep, DeleteStep, Zenon
  <2> QED
    BY <1>7, <2>1, NotificationStep, AcceptErrorStep, Zenon DEF Handle
<1>8. CASE dispatch_freed \/ command_throws
  BY <1>8, FreedStep, ThrowsStep, Zenon
<1>9. CASE destroy_server \/ close_event_fd \/ close_notify_fd
  BY <1>9, DestroyStep, CloseEventStep, CloseNotifyStep, Zenon
<1>10. CASE other_open \/ notify_core
  BY <1>10, OpenStep, WakeStep
<1>11. ASSUME NEW n \in Fds, other_close(n) PROVE IInv'
  BY <1>11, CloseStep, Zenon
<1> QED
  BY <1>1, <1>2, <1>3, <1>4, <1>5, <1>6, <1>7, <1>8, <1>9, <1>10, <1>11, Zenon DEF Next

LEMMA InvHolds == Spec => []IInv
<1>1. Init => IInv
  BY InitInv, Zenon
<1>2. IInv /\ [Next]_vars => IInv'
  BY NextInv
<1> QED
  BY <1>1, <1>2, PTL DEF Spec

-----------------------------------------------------------------------------
(* How many times an operation is in the ring *)

LEMMA CardOfOne ==
    ASSUME NEW S, \A x, y \in S : x = y
    PROVE  Cardinality(S) = IF S = {} THEN 0 ELSE 1
<1>1. CASE S = {}
  BY <1>1, FS_EmptySet, Zenon
<1>2. CASE S # {}
  <2>1. PICK x \in S : TRUE
    BY <1>2, Zenon
  <2>2. S = {x}
    BY <2>1
  <2> QED
    BY <1>2, <2>2, FS_Singleton, Zenon
<1> QED
  BY <1>1, <1>2, Zenon

\* A key that is in one place at most is counted as often as it is there.
LEMMA TimesOnce ==
    ASSUME Types, NEW ops, NEW whom, Once(Now, ops \X whom)
    PROVE  Times(ops, whom) = IF Some(Now, ops \X whom) THEN 1 ELSE 0
<1> DEFINE K == ops \X whom
           Q == {i \in DOMAIN sq : Mine(sq[i], K)}
           P == {p \in pending : Mine(p, K)}
           C == {i \in DOMAIN cq : Mine(cq[i], K)}
<1>1. \A e : (e.op \in ops /\ e.who \in whom) <=> Mine(e, K)
  BY Zenon DEF Mine
<1>2. Times(ops, whom) = Cardinality(Q) + Cardinality(P) + Cardinality(C)
  <2>1. /\ {i \in DOMAIN sq : sq[i].op \in ops /\ sq[i].who \in whom} = Q
        /\ {p \in pending : p.op \in ops /\ p.who \in whom} = P
        /\ {i \in DOMAIN cq : cq[i].op \in ops /\ cq[i].who \in whom} = C
    <3> HIDE DEF K
    <3> QED
      BY <1>1, Zenon
  <2> HIDE DEF Q, P, C
  <2> QED
    BY <2>1, Zenon DEF Times
<1> HIDE DEF K
<1>3. DOMAIN sq = 0 + 1 .. Len(sq) /\ DOMAIN cq = 1 .. Len(cq)
  <2>1. Now.sq = sq /\ Now.cq = cq /\ Now \in Rings
    BY Zenon DEF Now, Types
  <2>2. sq \in Seq(SqEntry) /\ cq \in Seq(CqEntry)
    BY <2>1, RingFields
  <2> QED
    BY <2>2
<1>4. /\ \A i, j \in Q : i = j
      /\ \A p, q \in P : p = q
      /\ \A i, j \in C : i = j
      /\ (Q = {} /\ P = {}) \/ (Q = {} /\ C = {}) \/ (P = {} /\ C = {})
  <2>1. Now.sq = sq /\ Now.pending = pending /\ Now.cq = cq /\ Once(Now, K)
    BY Zenon DEF Now, K
  <2> QED
    BY <1>3, <2>1, Zenon DEF Once, OnceAt
<1>5. Some(Now, K) <=> Q # {} \/ P # {} \/ C # {}
  <2>1. Now.sq = sq /\ Now.pending = pending /\ Now.cq = cq
    BY Zenon DEF Now
  <2> QED
    BY <1>3, <2>1, Zenon DEF Some, SomeAt
<1> HIDE DEF Q, P, C
<1>6. /\ Cardinality(Q) = IF Q = {} THEN 0 ELSE 1
      /\ Cardinality(P) = IF P = {} THEN 0 ELSE 1
      /\ Cardinality(C) = IF C = {} THEN 0 ELSE 1
  BY <1>4, CardOfOne, Zenon
<1> QED
  BY <1>2, <1>4, <1>5, <1>6 DEF K

\* The one operation that a deleted Connection may have left.
LEMMA TimesLeft ==
    ASSUME IInv, Running, NEW c \in Client, conn[c].state = "freed"
    PROVE  Times({"read", "write"}, {c})
           = IF Some(Now, Key("read", c)) \/ Some(Now, Key("write", c)) THEN 1 ELSE 0
<1> DEFINE rd == Key("read", c)
           wr == Key("write", c)
           K == {"read", "write"} \X {c}
<1>1. \A e : Mine(e, K) <=> Mine(e, rd) \/ Mine(e, wr)
  BY Zenon DEF Mine, Key
<1>2. Once(Now, rd) /\ Once(Now, wr) /\ (~Some(Now, rd) \/ ~Some(Now, wr))
  BY KeysOf, Zenon DEF IInv, RingOK, Held
<1> HIDE DEF rd, wr, K
<1>3. Some(Now, K) <=> Some(Now, rd) \/ Some(Now, wr)
  BY <1>1, Zenon DEF Some, SomeAt
<1>4. Once(Now, K)
  <2>1. ASSUME NEW k, Once(Now, k),
               /\ \A i \in 1 .. Len(sq) : Mine(sq[i], K) => Mine(sq[i], k)
               /\ \A p \in pending : Mine(p, K) => Mine(p, k)
               /\ \A i \in 1 .. Len(cq) : Mine(cq[i], K) => Mine(cq[i], k)
        PROVE  Once(Now, K)
    <3>1. Now.sq = sq /\ Now.pending = pending /\ Now.cq = cq /\ 0 + 1 = 1
      BY DEF Now
    <3> QED
      BY <2>1, <3>1, Zenon DEF Once, OnceAt
  <2>2. CASE ~Some(Now, wr)
    <3>1. /\ \A i \in 1 .. Len(sq) : ~Mine(sq[i], wr)
          /\ \A p \in pending : ~Mine(p, wr)
          /\ \A i \in 1 .. Len(cq) : ~Mine(cq[i], wr)
      BY <2>2 DEF Some, SomeAt, Now
    <3> QED
      BY <1>1, <1>2, <2>1, <3>1, Zenon
  <2>3. CASE ~Some(Now, rd)
    <3>1. /\ \A i \in 1 .. Len(sq) : ~Mine(sq[i], rd)
          /\ \A p \in pending : ~Mine(p, rd)
          /\ \A i \in 1 .. Len(cq) : ~Mine(cq[i], rd)
      BY <2>3 DEF Some, SomeAt, Now
    <3> QED
      BY <1>1, <1>2, <2>1, <3>1, Zenon
  <2> QED
    BY <1>2, <2>2, <2>3, Zenon
<1> QED
  BY <1>3, <1>4, TimesOnce, Zenon DEF K, rd, wr, IInv

LEMMA TimesOfKeys ==
    ASSUME IInv, Running
    PROVE  /\ Times({"accept"}, Client \cup {"listen"}) = 1 /\ Times({"notif"}, {"event"}) = 1
           /\ \A op \in {"read", "write"} : \A c \in Client :
                  Times({op}, {c}) = IF Some(Now, Key(op, c)) THEN 1 ELSE 0
<1>1. /\ Types /\ Some(Now, Accepting) /\ Some(Now, Notified) /\ \A K \in Keys : Once(Now, K)
  BY Zenon DEF IInv, RingOK
<1>2. Times({"accept"}, Client \cup {"listen"}) = 1 /\ Times({"notif"}, {"event"}) = 1
  BY <1>1, KeysOf, TimesOnce, Zenon DEF Accepting, Notified
<1>3. ASSUME NEW op \in {"read", "write"}, NEW c \in Client
      PROVE  Times({op}, {c}) = IF Some(Now, Key(op, c)) THEN 1 ELSE 0
  <2>1. Key(op, c) = {op} \X {c} /\ Once(Now, Key(op, c))
    <3>1. Key(op, c) = {op} \X {c}
      BY DEF Key
    <3> QED
      BY <1>1, <3>1, KeysOf, Zenon
  <2> QED
    BY <1>1, <2>1, TimesOnce
<1> QED
  BY <1>2, <1>3, Zenon

-----------------------------------------------------------------------------
(* Theorems *)

\* The descriptor table, the three places of an operation and the Connections
\* have their types, and get_sqe never overfills the submission queue, however
\* many entries one handler prepares.
THEOREM TypeCorrect == Spec => []TypeOK
<1>1. IInv => TypeOK
  <2> SUFFICES ASSUME IInv PROVE TypeOK
    BY Zenon
  <2>1. Now \in Rings /\ Now.sq = sq /\ Now.pending = pending /\ Now.cq = cq
    BY Zenon DEF IInv, Types, Now
  <2>2. sq \in Seq(SqEntry) /\ pending \in SUBSET PendEntry /\ cq \in Seq(CqEntry) /\ Len(sq) <= SqSize
    BY <2>1, RingFields
  <2>3. \A e \in Range(sq) : e \in SqEntry
    BY <2>2 DEF Range
  <2>4. \A e \in Range(cq) : e \in CqEntry
    BY <2>2 DEF Range
  <2>5. ASSUME NEW e, Names(e), e.fd \in Fds
        PROVE  [op |-> e.op, who |-> e.who] \in Ops /\ e.fd \in Fds
    BY <2>5, Zenon DEF Names, Ops
  <2>6. \A e \in Range(sq) \cup pending : Names(e) /\ e.fd \in Fds
    BY <2>2, <2>3, Zenon DEF SqEntry, PendEntry
  <2>7. \A e \in Range(cq) : [op |-> e.op, who |-> e.who] \in Ops
    BY <2>4, Zenon DEF CqEntry
  <2>8. files \in [Fds -> Client \cup {"event", "listen", "ring", "other", "closed"}]
    BY Zenon DEF IInv, Types, File
  <2>9. \A c \in Client : conn[c].fd \in Fds /\ conn[c].queue \in 0 .. MaxQueue
    BY DEF IInv, Types, Conns, ConnType
  <2> QED
    BY <2>2, <2>5, <2>6, <2>7, <2>8, <2>9, Zenon DEF TypeOK
<1> QED
  BY <1>1, InvHolds, PTL

\* As long as run() goes on, the accept operation, the notification read and
\* the read of every live Connection are in exactly one place of the ring, and
\* its write in one exactly while is_writing_ is set; a deleted Connection has
\* left at most one operation behind.
THEOREM OperationsOnce == Spec => []EachOperationOnce
<1>1. IInv => EachOperationOnce
  <2> SUFFICES ASSUME IInv PROVE EachOperationOnce
    OBVIOUS
  <2>1. cause = "refused" => build = "linux"
    BY Zenon DEF IInv, Types
  <2>2. ASSUME Running, NEW c \in Client, conn[c].state = "live"
        PROVE  /\ Times({"read"}, {c}) = 1
               /\ Times({"write"}, {c}) = IF conn[c].is_writing THEN 1 ELSE 0
               /\ conn[c].is_writing <=> conn[c].queue > 0
    <3>1. Held(Now, conn[c], c)
      BY <2>2, Zenon DEF IInv, RingOK
    <3>2. /\ Times({"read"}, {c}) = IF Some(Now, Key("read", c)) THEN 1 ELSE 0
          /\ Times({"write"}, {c}) = IF Some(Now, Key("write", c)) THEN 1 ELSE 0
      BY <2>2, TimesOfKeys, Zenon
    <3> QED
      BY <2>2, <3>1, <3>2, Zenon DEF Held
  <2>3. ASSUME Running, NEW c \in Client, conn[c].state = "freed"
        PROVE  Times({"read", "write"}, {c}) <= 1
    BY <2>3, TimesLeft
  <2>4. ASSUME Running
        PROVE  Times({"accept"}, Client \cup {"listen"}) = 1 /\ Times({"notif"}, {"event"}) = 1
    BY <2>4, TimesOfKeys, Zenon
  <2> QED
    BY <2>1, <2>2, <2>3, <2>4, Zenon DEF EachOperationOnce
<1> QED
  BY <1>1, InvHolds, PTL

\* A core reads and writes only its own sockets and eventfd while no operation
\* has outlived its Connection; it closes a file of others only on Linux and in
\* ~IoContext, and its number receives the wake-ups of others only after that.
THEOREM FilesOwned == Spec => []OwnFilesOnly
<1>1. IInv => OwnFilesOnly
  <2> SUFFICES ASSUME IInv PROVE OwnFilesOnly
    OBVIOUS
  <2>1. ASSUME Running, {"read", "write", "notif"} \cap harm # {} PROVE Outlived
    <3>1. Leftover(Now, conn)
      BY <2>1, Zenon DEF IInv, Harms
    <3>2. PICK c \in Client : /\ conn[c].state = "freed"
                              /\ Some(Now, Key("read", c)) \/ Some(Now, Key("write", c))
      BY <3>1, Zenon DEF Leftover
    <3>3. Times({"read", "write"}, {c}) = 1
      BY <2>1, <3>2, TimesLeft, Zenon
    <3> QED
      BY <3>2, <3>3 DEF Outlived
  <2> QED
    BY <2>1, Zenon DEF OwnFilesOnly, IInv, Harms
<1> QED
  BY <1>1, InvHolds, PTL
=============================================================================
