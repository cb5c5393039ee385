-------------------------- MODULE CollectionsProofs --------------------------
(***************************************************************************)
(* The collection commands keep their values well formed, the two halves   *)
(* of a sorted set together and their counts exact, for any members,       *)
(* scores and numbers of arguments.                                        *)
(***************************************************************************)
EXTENDS Collections, FiniteSetTheorems, SequenceTheorems, WellFoundedInduction, TLAPS

-----------------------------------------------------------------------------
(* Loops *)

\* Every non-empty set of natural numbers has a least element.
LEMMA LeastNat ==
    ASSUME NEW S \in SUBSET Nat, S # {}
    PROVE  \E x \in S : \A y \in S : x <= y
<1>1. PICK x \in S : \A y \in S : ~(<<y, x>> \in OpToRel(<, Nat))
  BY NatLessThanWellFounded, WFMin, Zenon
<1>2. \A y \in S : <<y, x>> \in OpToRel(<, Nat) <=> y < x
  BY Zenon DEF OpToRel
<1>3. \A y \in S : ~(y < x)
  BY <1>1, <1>2, Zenon
<1> QED
  BY <1>3, SMT

\* What holds before a loop and is kept by every turn holds after all of them:
\* S is the set of the turns after which it holds.
KeptByTurns(S, n) == 0 \in S /\ \A i \in 1 .. n : i - 1 \in S => i \in S

LEMMA Turns ==
    ASSUME NEW n \in Nat, NEW S, KeptByTurns(S, n)
    PROVE  \A i \in 0 .. n : i \in S
<1> DEFINE missing == {i \in 0 .. n : i \notin S}
<1> SUFFICES ASSUME missing # {} PROVE FALSE
  OBVIOUS
<1>0. missing \in SUBSET Nat
  OBVIOUS
<1>1. PICK i \in missing : \A j \in missing : i <= j
  <2> HIDE DEF missing
  <2> QED
    BY <1>0, LeastNat
<1>2. i \in 1 .. n /\ i - 1 \in 0 .. n /\ i - 1 \notin missing
  BY <1>1 DEF KeptByTurns
<1> QED
  BY <1>2 DEF KeptByTurns

\* The recursive definition of a loop of n turns defines a function: step says
\* what turn i makes of what the turn before has left.
IsLoop(f, n, a, step) == f[0] = a /\ \A i \in 1 .. n : f[i] = step[i][f[i - 1]]

LoopInput(n, X, a, step) == n \in Nat /\ a \in X /\ step \in [1 .. n -> [X -> X]]

LEMMA LoopExists ==
    ASSUME NEW n, NEW X, NEW a, NEW step, LoopInput(n, X, a, step)
    PROVE  \E f \in [0 .. n -> X] : IsLoop(f, n, a, step)
<1> USE DEF LoopInput
<1> DEFINE Is(f, k) == /\ f \in [0 .. k -> X] /\ f[0] = a
                       /\ \A i \in 1 .. k : f[i] = step[i][f[i - 1]]
           S == {k \in 0 .. n : \E f : Is(f, k)}
<1>1. 0 \in S
  <2> DEFINE g == [i \in 0 .. 0 |-> a]
  <2>1. g \in [0 .. 0 -> X] /\ g[0] = a /\ 1 .. 0 = {}
    OBVIOUS
  <2>2. Is(g, 0)
    BY <2>1, Zenon
  <2>3. 0 \in 0 .. n
    OBVIOUS
  <2> QED
    BY <2>2, <2>3, Zenon
<1>2. ASSUME NEW k \in 1 .. n, k - 1 \in S PROVE k \in S
  <2>1. PICK f : Is(f, k - 1)
    BY <1>2, Zenon
  <2> DEFINE g == [i \in 0 .. k |-> IF i = k THEN step[k][f[k - 1]] ELSE f[i]]
  <2>2. k - 1 \in 0 .. k - 1 /\ 0 \in 0 .. k - 1 /\ k # 0 /\ 0 \in 0 .. k /\ k \in 0 .. k /\ k - 1 \in 0 .. k
        /\ k - 1 # k /\ k \in 0 .. n
    OBVIOUS
  <2>3. f[k - 1] \in X
    BY <2>1, <2>2, Zenon
  <2>4. step[k][f[k - 1]] \in X
    BY <2>3
  <2>5. \A i \in 0 .. k : i # k => i \in 0 .. k - 1
    OBVIOUS
  <2>6. g \in [0 .. k -> X] /\ g[0] = a
    BY <2>1, <2>2, <2>4, <2>5, Zenon
  <2>7. \A i \in 1 .. k : g[i] = step[i][g[i - 1]]
    <3> TAKE i \in 1 .. k
    <3>1. CASE i = k
      <4>1. g[i] = step[i][f[i - 1]] /\ g[i - 1] = f[i - 1]
        BY <3>1, <2>2, Zenon
      <4> QED
        BY <4>1
    <3>2. CASE i # k
      <4>1. i \in 1 .. k - 1 /\ i - 1 # k /\ i \in 0 .. k /\ i - 1 \in 0 .. k
        BY <3>2
      <4>2. g[i] = f[i] /\ g[i - 1] = f[i - 1]
        BY <3>2, <4>1, Zenon
      <4> QED
        BY <2>1, <4>1, <4>2, Zenon
    <3> QED
      BY <3>1, <3>2
  <2> HIDE DEF g
  <2>8. Is(g, k)
    BY <2>6, <2>7, Zenon
  <2> QED
    BY <2>2, <2>8
<1>3. n \in S
  <2> HIDE DEF S
  <2>1. \A k \in 1 .. n : k - 1 \in S => k \in S
    BY <1>2, Zenon
  <2>2. KeptByTurns(S, n)
    BY <1>1, <2>1, Zenon DEF KeptByTurns
  <2> QED
    BY <2>2, Turns
<1>4. PICK f : Is(f, n)
  BY <1>3, Zenon
<1> QED
  BY <1>4, Zenon DEF IsLoop

\* The numbers that args.size() and the loops count with.
LEMMA SizeFacts ==
    ASSUME NEW S, NEW args \in Seq(S)
    PROVE  Len(args) \in Nat /\ \A i \in 1 .. Len(args) : args[i] \in S
OBVIOUS

\* Partial functions: the entries of a std::map and of the dictionary.
LEMMA PartialDef ==
    ASSUME NEW S, NEW T
    PROVE  \A f : f \in Partial(S, T) <=> /\ f = [x \in DOMAIN f |-> f[x]] /\ DOMAIN f \subseteq S
                                          /\ \A x \in DOMAIN f : f[x] \in T
<1> TAKE f
<1>1. ASSUME f \in Partial(S, T) PROVE /\ f = [x \in DOMAIN f |-> f[x]] /\ DOMAIN f \subseteq S
                                       /\ \A x \in DOMAIN f : f[x] \in T
  <2>1. PICK D \in SUBSET S : f \in [D -> T]
    BY <1>1, Zenon DEF Partial
  <2> QED
    BY <2>1
<1>2. ASSUME f = [x \in DOMAIN f |-> f[x]], DOMAIN f \subseteq S, \A x \in DOMAIN f : f[x] \in T
      PROVE  f \in Partial(S, T)
  <2>1. f \in [DOMAIN f -> T]
    BY <1>2
  <2> QED
    BY <1>2, <2>1, Zenon DEF Partial
<1> QED
  BY <1>1, <1>2, Zenon

\* An entry is added or replaced.
LEMMA WithType ==
    ASSUME NEW S, NEW T, NEW f \in Partial(S, T), NEW k \in S, NEW v \in T
    PROVE  /\ With(f, k, v) \in Partial(S, T)
           /\ DOMAIN With(f, k, v) = DOMAIN f \cup {k}
           /\ With(f, k, v)[k] = v
           /\ \A x \in DOMAIN f : x # k => With(f, k, v)[x] = f[x]
<1> DEFINE g == With(f, k, v)
<1>1. DOMAIN f \subseteq S /\ \A x \in DOMAIN f : f[x] \in T
  BY PartialDef, Zenon
<1>2. g = [x \in DOMAIN f \cup {k} |-> IF x = k THEN v ELSE f[x]]
  BY Zenon DEF With
<1>3. /\ DOMAIN g = DOMAIN f \cup {k} /\ g[k] = v /\ \A x \in DOMAIN f : x # k => g[x] = f[x]
      /\ g = [x \in DOMAIN g |-> g[x]]
  BY <1>2, Zenon
<1>4. DOMAIN g \subseteq S /\ \A x \in DOMAIN g : g[x] \in T
  BY <1>1, <1>3, Zenon
<1> HIDE DEF g
<1>5. g \in Partial(S, T)
  BY <1>3, <1>4, PartialDef, Zenon
<1> QED
  BY <1>3, <1>5 DEF g

\* An entry is taken out.
LEMMA WithoutType ==
    ASSUME NEW S, NEW T, NEW f \in Partial(S, T), NEW k
    PROVE  /\ Without(f, k) \in Partial(S, T)
           /\ DOMAIN Without(f, k) = DOMAIN f \ {k}
           /\ \A x \in DOMAIN f : x # k => Without(f, k)[x] = f[x]
<1> DEFINE g == Without(f, k)
<1>1. DOMAIN f \subseteq S /\ \A x \in DOMAIN f : f[x] \in T
  BY PartialDef, Zenon
<1>2. g = [x \in DOMAIN f \ {k} |-> f[x]]
  BY Zenon DEF Without, Restrict
<1>3. /\ DOMAIN g = DOMAIN f \ {k} /\ \A x \in DOMAIN f : x # k => g[x] = f[x]
      /\ g = [x \in DOMAIN g |-> g[x]]
  BY <1>2, Zenon
<1>4. DOMAIN g \subseteq S /\ \A x \in DOMAIN g : g[x] \in T
  BY <1>1, <1>3, Zenon
<1> HIDE DEF g
<1>5. g \in Partial(S, T)
  BY <1>3, <1>4, PartialDef, Zenon
<1> QED
  BY <1>3, <1>5 DEF g

-----------------------------------------------------------------------------
(* The loops of the set and hash commands *)

SetAcc == [set : SUBSET Member, n : Int]
HashAcc == [hash : Partial(Member, Member), n : Int]

\* One turn of HSET and of HDEL.
LEMMA HashTurns ==
    /\ \A x \in HashAcc, p \in Member \X Member : hset(x, p) \in HashAcc
    /\ \A x \in HashAcc, m \in Member : hdel(x, m) \in HashAcc
<1>1. ASSUME NEW x \in HashAcc, NEW p \in Member \X Member PROVE hset(x, p) \in HashAcc
  <2>1. x.hash \in Partial(Member, Member) /\ x.n \in Int /\ p[1] \in Member /\ p[2] \in Member
    BY DEF HashAcc
  <2>2. With(x.hash, p[1], p[2]) \in Partial(Member, Member)
    BY <2>1, WithType, Zenon
  <2> QED
    BY <2>1, <2>2 DEF HashAcc, hset
<1>2. ASSUME NEW x \in HashAcc, NEW m \in Member PROVE hdel(x, m) \in HashAcc
  <2>1. x.hash \in Partial(Member, Member) /\ x.n \in Int
    BY DEF HashAcc
  <2>2. Without(x.hash, m) \in Partial(Member, Member)
    BY <2>1, WithoutType, Zenon
  <2> QED
    BY <2>1, <2>2 DEF HashAcc, hdel
<1> QED
  BY <1>1, <1>2

\* The loop of SADD, turn by turn.
LEMMA SAddLoop ==
    ASSUME req.args \in Seq(Member), Fresh("set").set \in SUBSET Member
    PROVE  /\ sadd_loop[0] = [set |-> Fresh("set").set, n |-> 0]
           /\ \A i \in 1 .. Len(req.args) : sadd_loop[i] = sadd(sadd_loop[i - 1], req.args[i])
<1> DEFINE n == Len(req.args)
           a == [set |-> Fresh("set").set, n |-> 0]
           step == [i \in 1 .. n |-> [x \in SetAcc |-> sadd(x, req.args[i])]]
           Is(g) == g = [i \in 0 .. n |-> IF i = 0 THEN a ELSE sadd(g[i - 1], req.args[i])]
<1>1. n \in Nat /\ \A i \in 1 .. n : req.args[i] \in Member
  BY SizeFacts, Zenon
<1>2. a \in SetAcc
  BY DEF SetAcc
<1>3. \A x \in SetAcc, i \in 1 .. n : sadd(x, req.args[i]) \in SetAcc
  BY <1>1 DEF SetAcc, sadd
<1>4. sadd_loop = CHOOSE g : Is(g)
  BY DEF sadd_loop
<1> HIDE DEF n, a
<1>5. step \in [1 .. n -> [SetAcc -> SetAcc]]
  BY <1>3, Zenon
<1>6. PICK g \in [0 .. n -> SetAcc] : IsLoop(g, n, a, step)
  <2> HIDE DEF step
  <2>1. LoopInput(n, SetAcc, a, step)
    BY <1>1, <1>2, <1>5, Zenon DEF LoopInput
  <2> QED
    BY <2>1, LoopExists, Zenon
<1>7. 0 \in 0 .. n /\ \A i \in 1 .. n : i \in 0 .. n /\ i - 1 \in 0 .. n /\ i # 0
  BY <1>1
<1>8. \A i \in 0 .. n : i # 0 => i \in 1 .. n
  BY <1>1
<1>9. \A i \in 0 .. n : g[i] = IF i = 0 THEN a ELSE sadd(g[i - 1], req.args[i])
  BY <1>6, <1>7, <1>8, Zenon DEF IsLoop
<1>10. Is(g)
  BY <1>9, Zenon
<1>11. Is(sadd_loop)
  BY <1>4, <1>10, Zenon
<1> HIDE DEF sadd_loop
<1> QED
  BY <1>7, <1>11, Zenon DEF n, a

\* The loop of SREM, turn by turn.
LEMMA SRemLoop ==
    ASSUME req.args \in Seq(Member), val.set \in SUBSET Member
    PROVE  /\ srem_loop[0] = [set |-> val.set, n |-> 0]
           /\ \A i \in 1 .. Len(req.args) : srem_loop[i] = srem(srem_loop[i - 1], req.args[i])
<1> DEFINE n == Len(req.args)
           a == [set |-> val.set, n |-> 0]
           step == [i \in 1 .. n |-> [x \in SetAcc |-> srem(x, req.args[i])]]
           Is(g) == g = [i \in 0 .. n |-> IF i = 0 THEN a ELSE srem(g[i - 1], req.args[i])]
<1>1. n \in Nat /\ \A i \in 1 .. n : req.args[i] \in Member
  BY SizeFacts
<1>2. a \in SetAcc
  BY DEF SetAcc
<1>3. \A x \in SetAcc, i \in 1 .. n : srem(x, req.args[i]) \in SetAcc
  BY <1>1 DEF SetAcc, srem
<1>4. srem_loop = CHOOSE g : Is(g)
  BY DEF srem_loop
<1> HIDE DEF n, a
<1>5. step \in [1 .. n -> [SetAcc -> SetAcc]]
  BY <1>3, Zenon
<1>6. PICK g \in [0 .. n -> SetAcc] : IsLoop(g, n, a, step)
  <2> HIDE DEF step
  <2>1. LoopInput(n, SetAcc, a, step)
    BY <1>1, <1>2, <1>5, Zenon DEF LoopInput
  <2> QED
    BY <2>1, LoopExists, Zenon
<1>7. 0 \in 0 .. n /\ \A i \in 1 .. n : i \in 0 .. n /\ i - 1 \in 0 .. n /\ i # 0
  BY <1>1
<1>8. \A i \in 0 .. n : i # 0 => i \in 1 .. n
  BY <1>1
<1>9. \A i \in 0 .. n : g[i] = IF i = 0 THEN a ELSE srem(g[i - 1], req.args[i])
  BY <1>6, <1>7, <1>8, Zenon DEF IsLoop
<1>10. Is(g)
  BY <1>9, Zenon
<1>11. Is(srem_loop)
  BY <1>4, <1>10, Zenon
<1> HIDE DEF srem_loop
<1> QED
  BY <1>7, <1>11, Zenon DEF n, a

\* The loop of HSET, turn by turn.
LEMMA HSetLoop ==
    ASSUME Pairs \in Seq(Member \X Member), Fresh("hash").hash \in Partial(Member, Member)
    PROVE  /\ hset_loop[0] = [hash |-> Fresh("hash").hash, n |-> 0]
           /\ \A i \in 1 .. Len(Pairs) : hset_loop[i] = hset(hset_loop[i - 1], Pairs[i])
<1> DEFINE n == Len(Pairs)
           a == [hash |-> Fresh("hash").hash, n |-> 0]
           step == [i \in 1 .. n |-> [x \in HashAcc |-> hset(x, Pairs[i])]]
           Is(g) == g = [i \in 0 .. n |-> IF i = 0 THEN a ELSE hset(g[i - 1], Pairs[i])]
<1>1. n \in Nat /\ \A i \in 1 .. n : Pairs[i] \in Member \X Member
  BY SizeFacts
<1>2. a \in HashAcc
  BY DEF HashAcc
<1>3. \A x \in HashAcc, i \in 1 .. n : hset(x, Pairs[i]) \in HashAcc
  BY <1>1, HashTurns, Zenon
<1>4. hset_loop = CHOOSE g : Is(g)
  BY DEF hset_loop
<1> HIDE DEF n, a
<1>5. step \in [1 .. n -> [HashAcc -> HashAcc]]
  BY <1>3, Zenon
<1>6. PICK g \in [0 .. n -> HashAcc] : IsLoop(g, n, a, step)
  <2> HIDE DEF step
  <2>1. LoopInput(n, HashAcc, a, step)
    BY <1>1, <1>2, <1>5, Zenon DEF LoopInput
  <2> QED
    BY <2>1, LoopExists, Zenon
<1>7. 0 \in 0 .. n /\ \A i \in 1 .. n : i \in 0 .. n /\ i - 1 \in 0 .. n /\ i # 0
  BY <1>1
<1>8. \A i \in 0 .. n : i # 0 => i \in 1 .. n
  BY <1>1
<1>9. \A i \in 0 .. n : g[i] = IF i = 0 THEN a ELSE hset(g[i - 1], Pairs[i])
  BY <1>6, <1>7, <1>8, Zenon DEF IsLoop
<1>10. Is(g)
  BY <1>9, Zenon
<1>11. Is(hset_loop)
  BY <1>4, <1>10, Zenon
<1> HIDE DEF hset_loop
<1> QED
  BY <1>7, <1>11 DEF n, a

\* The loop of HDEL, turn by turn.
LEMMA HDelLoop ==
    ASSUME req.args \in Seq(Member), val.hash \in Partial(Member, Member)
    PROVE  /\ hdel_loop[0] = [hash |-> val.hash, n |-> 0]
           /\ \A i \in 1 .. Len(req.args) : hdel_loop[i] = hdel(hdel_loop[i - 1], req.args[i])
<1> DEFINE n == Len(req.args)
           a == [hash |-> val.hash, n |-> 0]
           step == [i \in 1 .. n |-> [x \in HashAcc |-> hdel(x, req.args[i])]]
           Is(g) == g = [i \in 0 .. n |-> IF i = 0 THEN a ELSE hdel(g[i - 1], req.args[i])]
<1>1. n \in Nat /\ \A i \in 1 .. n : req.args[i] \in Member
  BY SizeFacts
<1>2. a \in HashAcc
  BY DEF HashAcc
<1>3. \A x \in HashAcc, i \in 1 .. n : hdel(x, req.args[i]) \in HashAcc
  BY <1>1, HashTurns, Zenon
<1>4. hdel_loop = CHOOSE g : Is(g)
  BY DEF hdel_loop
<1> HIDE DEF n, a
<1>5. step \in [1 .. n -> [HashAcc -> HashAcc]]
  BY <1>3, Zenon
<1>6. PICK g \in [0 .. n -> HashAcc] : IsLoop(g, n, a, step)
  <2> HIDE DEF step
  <2>1. LoopInput(n, HashAcc, a, step)
    BY <1>1, <1>2, <1>5, Zenon DEF LoopInput
  <2> QED
    BY <2>1, LoopExists, Zenon
<1>7. 0 \in 0 .. n /\ \A i \in 1 .. n : i \in 0 .. n /\ i - 1 \in 0 .. n /\ i # 0
  BY <1>1
<1>8. \A i \in 0 .. n : i # 0 => i \in 1 .. n
  BY <1>1
<1>9. \A i \in 0 .. n : g[i] = IF i = 0 THEN a ELSE hdel(g[i - 1], req.args[i])
  BY <1>6, <1>7, <1>8, Zenon DEF IsLoop
<1>10. Is(g)
  BY <1>9, Zenon
<1>11. Is(hdel_loop)
  BY <1>4, <1>10, Zenon
<1> HIDE DEF hdel_loop
<1> QED
  BY <1>7, <1>11, Zenon DEF n, a


\* What the loops of SADD and SREM keep: the count is by how much the set has
\* grown, or shrunk, since they began.
Grown(acc, base) ==
    /\ acc \in SetAcc /\ IsFiniteSet(acc.set)
    /\ acc.n = Cardinality(acc.set) - Cardinality(base)
Shrunk(acc, base) ==
    /\ acc \in SetAcc /\ IsFiniteSet(acc.set)
    /\ acc.n = Cardinality(base) - Cardinality(acc.set)

LEMMA SetTurns ==
    ASSUME NEW base, IsFiniteSet(base), NEW acc, NEW m \in Member
    PROVE  /\ Grown(acc, base) => Grown(sadd(acc, m), base)
           /\ Shrunk(acc, base) => Shrunk(srem(acc, m), base)
<1>1. Cardinality(base) \in Nat
  BY FS_CardinalityType
<1>2. ASSUME Grown(acc, base) PROVE Grown(sadd(acc, m), base)
  <2>1. acc \in SetAcc /\ IsFiniteSet(acc.set) /\ acc.n = Cardinality(acc.set) - Cardinality(base)
    BY <1>2 DEF Grown
  <2>2. /\ IsFiniteSet(acc.set \cup {m}) /\ Cardinality(acc.set) \in Nat
        /\ Cardinality(acc.set \cup {m}) = IF m \in acc.set THEN Cardinality(acc.set) ELSE Cardinality(acc.set) + 1
    BY <2>1, FS_AddElement, FS_CardinalityType
  <2> QED
    BY <1>1, <2>1, <2>2 DEF Grown, SetAcc, sadd
<1>3. ASSUME Shrunk(acc, base) PROVE Shrunk(srem(acc, m), base)
  <2>1. acc \in SetAcc /\ IsFiniteSet(acc.set) /\ acc.n = Cardinality(base) - Cardinality(acc.set)
    BY <1>3 DEF Shrunk
  <2>2. /\ IsFiniteSet(acc.set \ {m}) /\ Cardinality(acc.set) \in Nat
        /\ Cardinality(acc.set \ {m}) = IF m \in acc.set THEN Cardinality(acc.set) - 1 ELSE Cardinality(acc.set)
    BY <2>1, FS_RemoveElement, FS_CardinalityType
  <2> QED
    BY <1>1, <2>1, <2>2 DEF Shrunk, SetAcc, srem
<1> QED
  BY <1>2, <1>3

LEMMA SAddResult ==
    ASSUME req.args \in Seq(Member), Fresh("set").set \in SUBSET Member, IsFiniteSet(Fresh("set").set)
    PROVE  Grown(sadd_loop[Len(req.args)], Fresh("set").set)
<1> DEFINE n == Len(req.args)
           S == {i \in 0 .. n : Grown(sadd_loop[i], Fresh("set").set)}
<1>1. n \in Nat /\ \A i \in 1 .. n : req.args[i] \in Member
  BY SizeFacts
<1>2. 0 \in S
  <2>1. 0 \in 0 .. n
    BY <1>1
  <2>2. Grown(sadd_loop[0], Fresh("set").set)
    BY SAddLoop, FS_CardinalityType DEF Grown, SetAcc
  <2> QED
    BY <2>1, <2>2
<1>3. ASSUME NEW i \in 1 .. n, i - 1 \in S PROVE i \in S
  <2>1. i \in 0 .. n /\ i - 1 \in 0 .. n
    BY <1>1
  <2>2. Grown(sadd_loop[i - 1], Fresh("set").set) /\ req.args[i] \in Member
    BY <1>1, <1>3
  <2>3. sadd_loop[i] = sadd(sadd_loop[i - 1], req.args[i])
    BY SAddLoop
  <2>4. Grown(sadd_loop[i], Fresh("set").set)
    BY <2>2, <2>3, SetTurns, Zenon
  <2> QED
    BY <2>1, <2>4
<1> HIDE DEF S
<1>4. KeptByTurns(S, n)
  BY <1>2, <1>3, Zenon DEF KeptByTurns
<1>5. n \in S
  BY <1>1, <1>4, Turns
<1> QED
  BY <1>5 DEF S

LEMMA SRemResult ==
    ASSUME req.args \in Seq(Member), val.set \in SUBSET Member, IsFiniteSet(val.set)
    PROVE  Shrunk(srem_loop[Len(req.args)], val.set)
<1> DEFINE n == Len(req.args)
           S == {i \in 0 .. n : Shrunk(srem_loop[i], val.set)}
<1>1. n \in Nat /\ \A i \in 1 .. n : req.args[i] \in Member
  BY SizeFacts
<1>2. 0 \in S
  <2>1. 0 \in 0 .. n
    BY <1>1
  <2>2. Shrunk(srem_loop[0], val.set)
    BY SRemLoop, FS_CardinalityType DEF Shrunk, SetAcc
  <2> QED
    BY <2>1, <2>2
<1>3. ASSUME NEW i \in 1 .. n, i - 1 \in S PROVE i \in S
  <2>1. i \in 0 .. n /\ i - 1 \in 0 .. n
    BY <1>1
  <2>2. Shrunk(srem_loop[i - 1], val.set) /\ req.args[i] \in Member
    BY <1>1, <1>3
  <2>3. srem_loop[i] = srem(srem_loop[i - 1], req.args[i])
    BY SRemLoop
  <2>4. Shrunk(srem_loop[i], val.set)
    BY <2>2, <2>3, SetTurns, Zenon
  <2> QED
    BY <2>1, <2>4
<1> HIDE DEF S
<1>4. KeptByTurns(S, n)
  BY <1>2, <1>3, Zenon DEF KeptByTurns
<1>5. n \in S
  BY <1>1, <1>4, Turns
<1> QED
  BY <1>5 DEF S


\* The same for HSET and HDEL.
HGrown(acc, base) ==
    /\ acc \in HashAcc /\ IsFiniteSet(DOMAIN acc.hash)
    /\ acc.n = Cardinality(DOMAIN acc.hash) - Cardinality(base)
HShrunk(acc, base) ==
    /\ acc \in HashAcc /\ IsFiniteSet(DOMAIN acc.hash)
    /\ acc.n = Cardinality(base) - Cardinality(DOMAIN acc.hash)

LEMMA HashCounts ==
    ASSUME NEW base, IsFiniteSet(base), NEW acc
    PROVE  /\ HGrown(acc, base) => \A p \in Member \X Member : HGrown(hset(acc, p), base)
           /\ HShrunk(acc, base) => \A m \in Member : HShrunk(hdel(acc, m), base)
<1>1. Cardinality(base) \in Nat
  BY FS_CardinalityType
<1>2. ASSUME HGrown(acc, base), NEW p \in Member \X Member PROVE HGrown(hset(acc, p), base)
  <2> DEFINE D == DOMAIN acc.hash
  <2>1. /\ acc \in HashAcc /\ acc.hash \in Partial(Member, Member)
        /\ IsFiniteSet(D) /\ acc.n = Cardinality(D) - Cardinality(base)
    BY <1>2 DEF HGrown, HashAcc
  <2>2. p[1] \in Member /\ p[2] \in Member
    OBVIOUS
  <2>3. hset(acc, p) \in HashAcc
    BY <2>1, HashTurns, Zenon
  <2>4. DOMAIN hset(acc, p).hash = D \cup {p[1]}
    <3>1. hset(acc, p).hash = With(acc.hash, p[1], p[2])
      BY DEF hset
    <3>2. DOMAIN With(acc.hash, p[1], p[2]) = D \cup {p[1]}
      BY DEF With
    <3> QED
      BY <3>1, <3>2
  <2>5. hset(acc, p).n = IF p[1] \in D THEN acc.n ELSE acc.n + 1
    BY DEF hset
  <2> HIDE DEF D
  <2>6. /\ IsFiniteSet(D \cup {p[1]}) /\ Cardinality(D) \in Nat
        /\ Cardinality(D \cup {p[1]}) = IF p[1] \in D THEN Cardinality(D) ELSE Cardinality(D) + 1
    BY <2>1, FS_AddElement, FS_CardinalityType
  <2> QED
    BY <1>1, <2>1, <2>3, <2>4, <2>5, <2>6 DEF HGrown
<1>3. ASSUME HShrunk(acc, base), NEW m \in Member PROVE HShrunk(hdel(acc, m), base)
  <2> DEFINE D == DOMAIN acc.hash
  <2>1. /\ acc \in HashAcc /\ acc.hash \in Partial(Member, Member)
        /\ IsFiniteSet(D) /\ acc.n = Cardinality(base) - Cardinality(D)
    BY <1>3 DEF HShrunk, HashAcc
  <2>3. hdel(acc, m) \in HashAcc
    BY <2>1, HashTurns, Zenon
  <2>4. DOMAIN hdel(acc, m).hash = D \ {m}
    <3>1. hdel(acc, m).hash = Without(acc.hash, m)
      BY DEF hdel
    <3>2. DOMAIN Without(acc.hash, m) = D \ {m}
      BY DEF Without, Restrict
    <3> QED
      BY <3>1, <3>2
  <2>5. hdel(acc, m).n = IF m \in D THEN acc.n + 1 ELSE acc.n
    BY DEF hdel
  <2> HIDE DEF D
  <2>6. /\ IsFiniteSet(D \ {m}) /\ Cardinality(D) \in Nat
        /\ Cardinality(D \ {m}) = IF m \in D THEN Cardinality(D) - 1 ELSE Cardinality(D)
    BY <2>1, FS_RemoveElement, FS_CardinalityType
  <2> QED
    BY <1>1, <2>1, <2>3, <2>4, <2>5, <2>6 DEF HShrunk
<1> QED
  BY <1>2, <1>3

LEMMA HSetResult ==
    ASSUME Pairs \in Seq(Member \X Member), Fresh("hash").hash \in Partial(Member, Member), IsFiniteSet(DOMAIN Fresh("hash").hash)
    PROVE  HGrown(hset_loop[Len(Pairs)], DOMAIN Fresh("hash").hash)
<1> DEFINE n == Len(Pairs)
           S == {i \in 0 .. n : HGrown(hset_loop[i], DOMAIN Fresh("hash").hash)}
<1>1. n \in Nat /\ \A i \in 1 .. n : Pairs[i] \in Member \X Member
  BY SizeFacts
<1>2. 0 \in S
  <2>1. 0 \in 0 .. n
    BY <1>1
  <2>2. HGrown(hset_loop[0], DOMAIN Fresh("hash").hash)
    BY HSetLoop, FS_CardinalityType DEF HGrown, HashAcc
  <2> QED
    BY <2>1, <2>2
<1>3. ASSUME NEW i \in 1 .. n, i - 1 \in S PROVE i \in S
  <2>1. i \in 0 .. n /\ i - 1 \in 0 .. n
    BY <1>1
  <2>2. HGrown(hset_loop[i - 1], DOMAIN Fresh("hash").hash) /\ Pairs[i] \in Member \X Member
    BY <1>1, <1>3
  <2>3. hset_loop[i] = hset(hset_loop[i - 1], Pairs[i])
    BY HSetLoop
  <2>4. HGrown(hset_loop[i], DOMAIN Fresh("hash").hash)
    BY <2>2, <2>3, HashCounts, Zenon
  <2> QED
    BY <2>1, <2>4
<1> HIDE DEF S
<1>4. KeptByTurns(S, n)
  BY <1>2, <1>3, Zenon DEF KeptByTurns
<1>5. n \in S
  BY <1>1, <1>4, Turns
<1> QED
  BY <1>5 DEF S

LEMMA HDelResult ==
    ASSUME req.args \in Seq(Member), val.hash \in Partial(Member, Member), IsFiniteSet(DOMAIN val.hash)
    PROVE  HShrunk(hdel_loop[Len(req.args)], DOMAIN val.hash)
<1> DEFINE n == Len(req.args)
           S == {i \in 0 .. n : HShrunk(hdel_loop[i], DOMAIN val.hash)}
<1>1. n \in Nat /\ \A i \in 1 .. n : req.args[i] \in Member
  BY SizeFacts
<1>2. 0 \in S
  <2>1. 0 \in 0 .. n
    BY <1>1
  <2>2. HShrunk(hdel_loop[0], DOMAIN val.hash)
    BY HDelLoop, FS_CardinalityType DEF HShrunk, HashAcc
  <2> QED
    BY <2>1, <2>2
<1>3. ASSUME NEW i \in 1 .. n, i - 1 \in S PROVE i \in S
  <2>1. i \in 0 .. n /\ i - 1 \in 0 .. n
    BY <1>1
  <2>2. HShrunk(hdel_loop[i - 1], DOMAIN val.hash) /\ req.args[i] \in Member
    BY <1>1, <1>3
  <2>3. hdel_loop[i] = hdel(hdel_loop[i - 1], req.args[i])
    BY HDelLoop
  <2>4. HShrunk(hdel_loop[i], DOMAIN val.hash)
    BY <2>2, <2>3, HashCounts, Zenon
  <2> QED
    BY <2>1, <2>4
<1> HIDE DEF S
<1>4. KeptByTurns(S, n)
  BY <1>2, <1>3, Zenon DEF KeptByTurns
<1>5. n \in S
  BY <1>1, <1>4, Turns
<1> QED
  BY <1>5 DEF S


-----------------------------------------------------------------------------
(* The inductive invariant *)

\* A sorted set: members with scores that stod accepts, and tree and dictionary
\* together as long as there was no NaN.
Together(z) ==
    /\ z.tree = {<<z.dict[m], m>> : m \in DOMAIN z.dict}
    /\ \A m \in DOMAIN z.dict : z.dict[m] # NaN

ZSets == [type : {"zset"}, tree : SUBSET (Score \X Member), dict : Partial(Member, Score),
          nan : BOOLEAN]

ZGood(z) ==
    z \in ZSets /\ IsFiniteSet(DOMAIN z.dict) /\ IsFiniteSet(z.tree) /\ (~z.nan => Together(z))

\* A value: one alternative of storage::Value, finite.
ValOK(v) ==
    \/ v = Nothing
    \/ v = String
    \/ v.type = "list" /\ v = [type |-> "list", list |-> v.list] /\ v.list \in Words(Member, 0 .. MaxLen)
    \/ /\ v.type = "set" /\ v = [type |-> "set", set |-> v.set]
       /\ v.set \subseteq Member /\ IsFiniteSet(v.set)
    \/ /\ v.type = "hash" /\ v = [type |-> "hash", hash |-> v.hash]
       /\ v.hash \in Partial(Member, Member) /\ IsFiniteSet(DOMAIN v.hash)
    \/ v.type = "zset" /\ ZGood(v)

\* A command that a client may send, and for which a list has room.
ReqOK(v, r) ==
    /\ r = [op |-> r.op, args |-> r.args, at |-> r.at] /\ r.at \in {"owner", "other"}
    /\ [op |-> r.op, args |-> r.args] \in Command
    /\ r.op \in {"LPUSH", "RPUSH"} /\ v.type = "list" => Len(v.list) + Len(r.args) <= MaxLen

IInv ==
    /\ ValOK(val)
    /\ req = NoRequest \/ ReqOK(val, req)
    /\ req = NoRequest \/ reply = NoReply

-----------------------------------------------------------------------------
(* Sorted sets *)

\* Two entries without NaN that std::set takes for the same are the same.
LEMMA SameEntry ==
    ASSUME NEW T \in SUBSET (Score \X Member), NEW e \in Score \X Member, Ordered(T, e), e \notin T
    PROVE  Same(T, e) = {}
<1> SUFFICES ASSUME NEW x \in T, ~Less(x, e), ~Less(e, x) PROVE FALSE
  BY Zenon DEF Same
<1>1. x[1] # NaN /\ e[1] # NaN
  BY DEF Ordered
<1>2. x[1] \in Score /\ e[1] \in Score /\ x[2] \in Member /\ e[2] \in Member /\ x = <<x[1], x[2]>> /\ e = <<e[1], e[2]>>
  OBVIOUS
<1>3. x[1] \in Int /\ e[1] \in Int /\ x[2] \in Int /\ e[2] \in Int
  BY <1>1, <1>2, ScoreAssumption, MemberAssumption, Zenon
<1>4. x[1] = e[1] /\ x[2] = e[2]
  BY <1>1, <1>3 DEF Less
<1> QED
  BY <1>2, <1>4

\* What is inserted into or erased from a tree without NaN.
LEMMA TreeSteps ==
    ASSUME NEW T \in SUBSET (Score \X Member), NEW e \in Score \X Member
    PROVE  /\ \A t \in tree_insert(T, e) : t \in SUBSET (Score \X Member)
           /\ \A t \in tree_erase(T, e) : t \in SUBSET (Score \X Member)
           /\ Ordered(T, e) => \A t \in tree_erase(T, e) : t = T \ {e}
           /\ Ordered(T, e) /\ e \notin T => \A t \in tree_insert(T, e) : t = T \cup {e}
           /\ IsFiniteSet(T) => \A t \in tree_insert(T, e) \cup tree_erase(T, e) : IsFiniteSet(t)
<1>1. \A t \in tree_insert(T, e) : t = T \/ t = T \cup {e}
  BY Zenon DEF tree_insert
<1>2. \A t \in tree_erase(T, e) : t \subseteq T
  BY Zenon DEF tree_erase
<1>3. Ordered(T, e) => \A t \in tree_erase(T, e) : t = T \ {e}
  BY Zenon DEF tree_erase
<1>4. Ordered(T, e) /\ e \notin T => \A t \in tree_insert(T, e) : t = T \cup {e}
  BY SameEntry, Zenon DEF tree_insert
<1>5. IsFiniteSet(T) => \A t \in tree_insert(T, e) \cup tree_erase(T, e) : IsFiniteSet(t)
  BY <1>1, <1>2, FS_AddElement, FS_Subset
<1> QED
  BY <1>1, <1>2, <1>3, <1>4, <1>5

\* ZSet::insert replaces the entry of the member, in both halves.
LEMMA ZInsert ==
    ASSUME NEW z, ZGood(z), NEW score \in Score, NEW m \in Member, NEW r \in zset_insert(z, score, m)
    PROVE  /\ ZGood(r) /\ r.dict = With(z.dict, m, score)
           /\ DOMAIN r.dict = DOMAIN z.dict \cup {m}
<1> DEFINE e == <<score, m>>
           d == <<z.dict[m], m>>
           trees == IF m \in DOMAIN z.dict THEN tree_erase(z.tree, d) ELSE {z.tree}
<1>1. /\ z \in ZSets /\ z.tree \in SUBSET (Score \X Member) /\ z.dict \in Partial(Member, Score)
      /\ z.nan \in BOOLEAN /\ IsFiniteSet(DOMAIN z.dict) /\ IsFiniteSet(z.tree)
      /\ (~z.nan => Together(z))
  BY DEF ZGood, ZSets
<1>2. PICK u, t : /\ u \in trees /\ t \in tree_insert(u, e)
                  /\ r = [z EXCEPT !.tree = t, !.dict = With(@, m, score), !.nan = @ \/ score = NaN]
  <2>1. PICK t \in UNION {tree_insert(u, e) : u \in trees} :
            r = [z EXCEPT !.tree = t, !.dict = With(@, m, score), !.nan = @ \/ score = NaN]
    BY Zenon DEF zset_insert
  <2>2. PICK u \in trees : t \in tree_insert(u, e)
    BY Zenon
  <2> QED
    BY <2>1, <2>2, Zenon
<1>3. e \in Score \X Member /\ (m \in DOMAIN z.dict => d \in Score \X Member)
  BY <1>1, PartialDef
<1> HIDE DEF e, d
<1>4. u \in SUBSET (Score \X Member)
  BY <1>1, <1>2, <1>3, TreeSteps
<1>5. t \in SUBSET (Score \X Member)
  BY <1>2, <1>3, <1>4, TreeSteps, Zenon
<1>6. /\ With(z.dict, m, score) \in Partial(Member, Score)
      /\ DOMAIN With(z.dict, m, score) = DOMAIN z.dict \cup {m}
      /\ With(z.dict, m, score)[m] = score
      /\ \A x \in DOMAIN z.dict : x # m => With(z.dict, m, score)[x] = z.dict[x]
  <2>1. With(z.dict, m, score) \in Partial(Member, Score)
    BY <1>1, WithType, Zenon
  <2> QED
    BY <2>1, Zenon DEF With
<1>7. /\ r \in ZSets /\ r.tree = t /\ r.dict = With(z.dict, m, score)
      /\ r.nan = (z.nan \/ score = NaN)
  <2> DEFINE b == z.nan \/ score = NaN
  <2>1. r = [z EXCEPT !.tree = t, !.dict = With(z.dict, m, score), !.nan = b]
    BY <1>1, <1>2 DEF ZSets
  <2>2. b \in BOOLEAN
    BY <1>1
  <2> HIDE DEF b
  <2>3. r \in ZSets /\ r.tree = t /\ r.dict = With(z.dict, m, score) /\ r.nan = b
    BY <1>1, <1>5, <1>6, <2>1, <2>2, Zenon DEF ZSets
  <2> QED
    BY <2>3 DEF b
<1>8. IsFiniteSet(DOMAIN r.dict) /\ IsFiniteSet(r.tree)
  <2>1. IsFiniteSet(DOMAIN r.dict)
    <3>1. IsFiniteSet(DOMAIN z.dict \cup {m})
      BY <1>1, FS_AddElement, Zenon
    <3> QED
      BY <1>6, <1>7, <3>1, Zenon
  <2>2. IsFiniteSet(u)
    <3>1. \A x \in trees : x = z.tree \/ (m \in DOMAIN z.dict /\ x \in tree_erase(z.tree, d))
      BY Zenon
    <3> QED
      BY <1>1, <1>2, <1>3, <3>1, TreeSteps
  <2>3. IsFiniteSet(t)
    BY <1>2, <1>3, <1>4, <2>2, TreeSteps
  <2> QED
    BY <1>7, <2>1, <2>3, Zenon
<1>9. ASSUME ~r.nan PROVE Together(r)
  <2>1. ~z.nan /\ score # NaN /\ Together(z)
    BY <1>1, <1>7, <1>9, Zenon
  <2>2. Ordered(z.tree, e) /\ (m \in DOMAIN z.dict => Ordered(z.tree, d))
    BY <2>1 DEF Ordered, Together, e, d
  <2>3. u = {<<z.dict[k], k>> : k \in DOMAIN z.dict \ {m}}
    <3>1. CASE m \in DOMAIN z.dict
      <4>1. u = z.tree \ {d}
        BY <1>1, <1>2, <1>3, <2>2, <3>1, TreeSteps
      <4> QED
        BY <2>1, <4>1 DEF Together, d
    <3>2. CASE m \notin DOMAIN z.dict
      <4>1. u = z.tree /\ DOMAIN z.dict \ {m} = DOMAIN z.dict
        BY <1>2, <3>2
      <4> QED
        BY <2>1, <4>1, Zenon DEF Together
    <3> QED
      BY <3>1, <3>2
  <2>4. e \notin u /\ Ordered(u, e)
    BY <2>1, <2>3 DEF Ordered, Together, e
  <2>5. t = u \cup {e}
    BY <1>2, <1>3, <1>4, <2>4, TreeSteps, Zenon
  <2> QED
    BY <1>6, <1>7, <2>1, <2>3, <2>5 DEF Together, e
<1> QED
  BY <1>6, <1>7, <1>8, <1>9 DEF ZGood

\* ZSet::erase takes the entry out of both halves.
LEMMA ZErase ==
    ASSUME NEW z, ZGood(z), NEW m \in DOMAIN z.dict, NEW r \in zset_erase(z, m)
    PROVE  ZGood(r) /\ DOMAIN r.dict = DOMAIN z.dict \ {m}
<1> DEFINE d == <<z.dict[m], m>>
<1>1. /\ z \in ZSets /\ z.tree \in SUBSET (Score \X Member) /\ z.dict \in Partial(Member, Score)
      /\ z.nan \in BOOLEAN /\ IsFiniteSet(DOMAIN z.dict) /\ IsFiniteSet(z.tree)
      /\ (~z.nan => Together(z))
  BY DEF ZGood, ZSets
<1>2. PICK t \in tree_erase(z.tree, d) : r = [z EXCEPT !.tree = t, !.dict = Without(@, m)]
  BY Zenon DEF zset_erase
<1>3. d \in Score \X Member
  BY <1>1, PartialDef
<1> HIDE DEF d
<1>4. t \in SUBSET (Score \X Member)
  BY <1>1, <1>2, <1>3, TreeSteps
<1>5. /\ Without(z.dict, m) \in Partial(Member, Score)
      /\ DOMAIN Without(z.dict, m) = DOMAIN z.dict \ {m}
      /\ \A x \in DOMAIN z.dict : x # m => Without(z.dict, m)[x] = z.dict[x]
  <2>1. Without(z.dict, m) \in Partial(Member, Score)
    BY <1>1, WithoutType, Zenon
  <2> QED
    BY <2>1, Zenon DEF Without, Restrict
<1>6. /\ r \in ZSets /\ r.tree = t /\ r.dict = Without(z.dict, m) /\ r.nan = z.nan
  BY <1>1, <1>2, <1>4, <1>5, Zenon DEF ZSets
<1>7. IsFiniteSet(DOMAIN r.dict) /\ IsFiniteSet(r.tree)
  <2>1. IsFiniteSet(DOMAIN r.dict)
    BY <1>1, <1>5, <1>6, FS_RemoveElement
  <2>2. IsFiniteSet(t)
    BY <1>1, <1>2, <1>3, TreeSteps
  <2> QED
    BY <1>6, <2>1, <2>2
<1>8. ASSUME ~r.nan PROVE Together(r)
  <2>1. Together(z)
    BY <1>1, <1>6, <1>8
  <2>2. Ordered(z.tree, d)
    BY <2>1 DEF Ordered, Together, d
  <2>3. t = z.tree \ {d}
    BY <1>1, <1>2, <1>3, <2>2, TreeSteps
  <2> QED
    BY <1>5, <1>6, <2>1, <2>3 DEF Together, d
<1> QED
  BY <1>5, <1>6, <1>7, <1>8 DEF ZGood

\* What the loops of ZADD and ZREM carry from turn to turn.
GoodZSets == {z \in ZSets : ZGood(z)}
ZAdded == [z : GoodZSets, n : Int, ok : BOOLEAN]
ZRemoved == [z : GoodZSets, n : Int]
ZAddAcc == SUBSET ZAdded
ZRemAcc == SUBSET ZRemoved
ScoredPair == (Score \cup {Bad}) \X Member

\* One turn of ZADD from o to r.
ZTurn(o, p, r) ==
    \/ ~o.ok /\ r = o
    \/ o.ok /\ p[1] = Bad /\ r = [o EXCEPT !.ok = FALSE]
    \/ /\ o.ok /\ p[1] # Bad /\ p[2] \notin DOMAIN o.z.dict
       /\ \E z \in zset_insert(o.z, p[1], p[2]) : r = [z |-> z, n |-> o.n + 1, ok |-> TRUE]
    \/ o.ok /\ p[1] # Bad /\ p[2] \in DOMAIN o.z.dict /\ o.z.dict[p[2]] = p[1] /\ r = o
    \/ /\ o.ok /\ p[1] # Bad /\ p[2] \in DOMAIN o.z.dict
       /\ \E z \in zset_insert(o.z, p[1], p[2]) : r = [o EXCEPT !.z = z]

LEMMA ZAddTurn ==
    ASSUME NEW outs, NEW p, NEW r \in zadd(outs, p)
    PROVE  \E o \in outs : ZTurn(o, p, r)
<1> DEFINE Turn(o) ==
            IF ~o.ok THEN {o}
            ELSE IF p[1] = Bad THEN {[o EXCEPT !.ok = FALSE]}
            ELSE IF p[2] \notin DOMAIN o.z.dict
            THEN {[z |-> z, n |-> o.n + 1, ok |-> TRUE] : z \in zset_insert(o.z, p[1], p[2])}
            ELSE IF NaN \notin {p[1], o.z.dict[p[2]]} /\ o.z.dict[p[2]] = p[1] THEN {o}
            ELSE {[o EXCEPT !.z = z] : z \in zset_insert(o.z, p[1], p[2])}
<1>1. zadd(outs, p) = UNION {Turn(o) : o \in outs}
  BY DEF zadd
<1>2. PICK o \in outs : r \in Turn(o)
  BY <1>1, Zenon
<1> QED
  BY <1>2 DEF ZTurn

\* A turn keeps tree and dictionary together, and counts what is new.
LEMMA ZTurnKeeps ==
    ASSUME NEW o \in ZAdded, NEW p \in ScoredPair, NEW r, ZTurn(o, p, r)
    PROVE  /\ r \in ZAdded
           /\ o.ok /\ p[1] # Bad => /\ r.ok /\ DOMAIN r.z.dict = DOMAIN o.z.dict \cup {p[2]}
                                    /\ r.z.dict[p[2]] = p[1]
                                    /\ \A x \in DOMAIN o.z.dict : x # p[2] => r.z.dict[x] = o.z.dict[x]
                                    /\ r.n = IF p[2] \in DOMAIN o.z.dict THEN o.n ELSE o.n + 1
           /\ o.ok /\ p[1] = Bad => ~r.ok /\ r.z = o.z /\ r.n = o.n
           /\ ~o.ok => r = o
<1>1. /\ o.z \in ZSets /\ ZGood(o.z) /\ o.n \in Int /\ o.ok \in BOOLEAN
      /\ p[1] \in Score \cup {Bad} /\ p[2] \in Member
      /\ o = [z |-> o.z, n |-> o.n, ok |-> o.ok]
  BY Zenon DEF ZAdded, GoodZSets, ScoredPair
<1>2. CASE ~o.ok /\ r = o
  BY <1>2
<1>3. CASE o.ok /\ p[1] = Bad /\ r = [o EXCEPT !.ok = FALSE]
  BY <1>1, <1>3, Zenon DEF ZAdded
<1>4. ASSUME o.ok, p[1] # Bad, NEW z \in zset_insert(o.z, p[1], p[2])
      PROVE  /\ z \in GoodZSets /\ DOMAIN z.dict = DOMAIN o.z.dict \cup {p[2]} /\ z.dict[p[2]] = p[1]
             /\ \A x \in DOMAIN o.z.dict : x # p[2] => z.dict[x] = o.z.dict[x]
  <2> DEFINE y == o.z
             score == p[1]
             m == p[2]
  <2>1. ZGood(y) /\ score \in Score /\ m \in Member /\ z \in zset_insert(y, score, m)
    BY <1>1, <1>4
  <2> HIDE DEF y, score, m
  <2>2. ZGood(z) /\ z.dict = With(y.dict, m, score) /\ DOMAIN z.dict = DOMAIN y.dict \cup {m}
    BY <2>1, ZInsert
  <2>3. z.dict[m] = score /\ \A x \in DOMAIN y.dict : x # m => z.dict[x] = y.dict[x]
    BY <2>2, Zenon DEF With
  <2>4. z \in GoodZSets
    BY <2>2 DEF GoodZSets, ZGood
  <2> QED
    BY <2>2, <2>3, <2>4, Zenon DEF y, score, m
<1>5. CASE o.ok /\ p[1] # Bad /\ p[2] \notin DOMAIN o.z.dict
  <2>1. PICK z \in zset_insert(o.z, p[1], p[2]) : r = [z |-> z, n |-> o.n + 1, ok |-> TRUE]
    BY <1>5 DEF ZTurn
  <2> QED
    BY <1>1, <1>4, <1>5, <2>1 DEF ZAdded
<1>6. CASE o.ok /\ p[1] # Bad /\ p[2] \in DOMAIN o.z.dict /\ o.z.dict[p[2]] = p[1] /\ r = o
  BY <1>1, <1>6
<1>7. CASE /\ o.ok /\ p[1] # Bad /\ p[2] \in DOMAIN o.z.dict
           /\ \E z \in zset_insert(o.z, p[1], p[2]) : r = [o EXCEPT !.z = z]
  <2>1. PICK z \in zset_insert(o.z, p[1], p[2]) : r = [o EXCEPT !.z = z]
    BY <1>7
  <2>2. r = [z |-> z, n |-> o.n, ok |-> o.ok]
    BY <1>1, <2>1
  <2> QED
    BY <1>1, <1>4, <1>7, <2>2 DEF ZAdded
<1> QED
  BY <1>2, <1>3, <1>5, <1>6, <1>7, Zenon DEF ZTurn

\* The same for ZREM.
ZRemTurn(o, m, r) ==
    IF m \in DOMAIN o.z.dict THEN \E z \in zset_erase(o.z, m) : r = [z |-> z, n |-> o.n + 1]
    ELSE r = o

LEMMA ZRemTurns ==
    ASSUME NEW outs, NEW m, NEW r \in zrem(outs, m)
    PROVE  \E o \in outs : ZRemTurn(o, m, r)
<1> DEFINE Turn(o) == IF m \in DOMAIN o.z.dict
                      THEN {[z |-> z, n |-> o.n + 1] : z \in zset_erase(o.z, m)}
                      ELSE {o}
<1>1. zrem(outs, m) = UNION {Turn(o) : o \in outs}
  BY DEF zrem
<1>2. PICK o \in outs : r \in Turn(o)
  BY <1>1, Zenon
<1> QED
  BY <1>2 DEF ZRemTurn

LEMMA ZRemKeeps ==
    ASSUME NEW o \in ZRemoved, NEW m \in Member, NEW r, ZRemTurn(o, m, r)
    PROVE  /\ r \in ZRemoved
           /\ DOMAIN r.z.dict = DOMAIN o.z.dict \ {m}
           /\ r.n = IF m \in DOMAIN o.z.dict THEN o.n + 1 ELSE o.n
<1>1. o.z \in ZSets /\ ZGood(o.z) /\ o.n \in Int
  BY DEF ZRemoved, GoodZSets
<1>2. CASE m \notin DOMAIN o.z.dict
  BY <1>2 DEF ZRemTurn
<1>3. CASE m \in DOMAIN o.z.dict
  <2> DEFINE y == o.z
  <2>1. PICK z \in zset_erase(y, m) : r = [z |-> z, n |-> o.n + 1]
    BY <1>3, Zenon DEF ZRemTurn
  <2>2. ZGood(y) /\ m \in DOMAIN y.dict
    BY <1>1, <1>3
  <2> HIDE DEF y
  <2>3. ZGood(z) /\ DOMAIN z.dict = DOMAIN y.dict \ {m}
    BY <2>1, <2>2, ZErase
  <2>4. z \in GoodZSets
    BY <2>3 DEF GoodZSets, ZGood
  <2> QED
    BY <1>1, <1>3, <2>1, <2>3, <2>4 DEF ZRemoved, y
<1> QED
  BY <1>2, <1>3

LEMMA ZTurns ==
    /\ \A x \in ZAddAcc, p \in ScoredPair : zadd(x, p) \in ZAddAcc
    /\ \A x \in ZRemAcc, m \in Member : zrem(x, m) \in ZRemAcc
<1>1. ASSUME NEW x \in ZAddAcc, NEW p \in ScoredPair, NEW r \in zadd(x, p) PROVE r \in ZAdded
  <2>1. PICK o \in x : ZTurn(o, p, r)
    BY ZAddTurn
  <2>2. o \in ZAdded
    BY DEF ZAddAcc
  <2> QED
    BY <2>1, <2>2, ZTurnKeeps
<1>2. ASSUME NEW x \in ZRemAcc, NEW m \in Member, NEW r \in zrem(x, m) PROVE r \in ZRemoved
  <2>1. PICK o \in x : ZRemTurn(o, m, r)
    BY ZRemTurns
  <2>2. o \in ZRemoved
    BY DEF ZRemAcc
  <2> QED
    BY <2>1, <2>2, ZRemKeeps
<1> QED
  BY <1>1, <1>2, Zenon DEF ZAddAcc, ZRemAcc

\* The loop of ZADD, turn by turn.
LEMMA ZAddLoop ==
    ASSUME Pairs \in Seq(ScoredPair), Fresh("zset") \in GoodZSets
    PROVE  /\ zadd_loop[0] = {[z |-> Fresh("zset"), n |-> 0, ok |-> TRUE]}
           /\ \A i \in 1 .. Len(Pairs) : zadd_loop[i] = zadd(zadd_loop[i - 1], Pairs[i])
<1> DEFINE n == Len(Pairs)
           a == {[z |-> Fresh("zset"), n |-> 0, ok |-> TRUE]}
           step == [i \in 1 .. n |-> [x \in ZAddAcc |-> zadd(x, Pairs[i])]]
           Is(g) == g = [i \in 0 .. n |-> IF i = 0 THEN a ELSE zadd(g[i - 1], Pairs[i])]
<1>1. n \in Nat /\ \A i \in 1 .. n : Pairs[i] \in ScoredPair
  BY SizeFacts
<1>2. a \in ZAddAcc
  BY DEF ZAddAcc, ZAdded
<1>3. \A x \in ZAddAcc, i \in 1 .. n : zadd(x, Pairs[i]) \in ZAddAcc
  BY <1>1, ZTurns
<1>4. zadd_loop = CHOOSE g : Is(g)
  BY DEF zadd_loop
<1> HIDE DEF n, a
<1>5. step \in [1 .. n -> [ZAddAcc -> ZAddAcc]]
  BY <1>3, Zenon
<1>6. PICK g \in [0 .. n -> ZAddAcc] : IsLoop(g, n, a, step)
  <2> HIDE DEF step
  <2>1. LoopInput(n, ZAddAcc, a, step)
    BY <1>1, <1>2, <1>5, Zenon DEF LoopInput
  <2> QED
    BY <2>1, LoopExists, Zenon
<1>7. 0 \in 0 .. n /\ \A i \in 1 .. n : i \in 0 .. n /\ i - 1 \in 0 .. n /\ i # 0
  BY <1>1
<1>8. \A i \in 0 .. n : i # 0 => i \in 1 .. n
  BY <1>1
<1>9. \A i \in 0 .. n : g[i] = IF i = 0 THEN a ELSE zadd(g[i - 1], Pairs[i])
  BY <1>6, <1>7, <1>8, Zenon DEF IsLoop
<1>10. Is(g)
  BY <1>9, Zenon
<1>11. Is(zadd_loop)
  BY <1>4, <1>10, Zenon
<1> HIDE DEF zadd_loop
<1> QED
  BY <1>7, <1>11 DEF n, a

\* The loop of ZREM, turn by turn.
LEMMA ZRemLoop ==
    ASSUME req.args \in Seq(Member), val \in GoodZSets
    PROVE  /\ zrem_loop[0] = {[z |-> val, n |-> 0]}
           /\ \A i \in 1 .. Len(req.args) : zrem_loop[i] = zrem(zrem_loop[i - 1], req.args[i])
<1> DEFINE n == Len(req.args)
           a == {[z |-> val, n |-> 0]}
           step == [i \in 1 .. n |-> [x \in ZRemAcc |-> zrem(x, req.args[i])]]
           Is(g) == g = [i \in 0 .. n |-> IF i = 0 THEN a ELSE zrem(g[i - 1], req.args[i])]
<1>1. n \in Nat /\ \A i \in 1 .. n : req.args[i] \in Member
  BY SizeFacts
<1>2. a \in ZRemAcc
  BY DEF ZRemAcc, ZRemoved
<1>3. \A x \in ZRemAcc, i \in 1 .. n : zrem(x, req.args[i]) \in ZRemAcc
  BY <1>1, ZTurns
<1>4. zrem_loop = CHOOSE g : Is(g)
  BY Zenon DEF zrem_loop
<1> HIDE DEF n, a
<1>5. step \in [1 .. n -> [ZRemAcc -> ZRemAcc]]
  BY <1>3, Zenon
<1>6. PICK g \in [0 .. n -> ZRemAcc] : IsLoop(g, n, a, step)
  <2> HIDE DEF step
  <2>1. LoopInput(n, ZRemAcc, a, step)
    BY <1>1, <1>2, <1>5, Zenon DEF LoopInput
  <2> QED
    BY <2>1, LoopExists, Zenon
<1>7. 0 \in 0 .. n /\ \A i \in 1 .. n : i \in 0 .. n /\ i - 1 \in 0 .. n /\ i # 0
  BY <1>1
<1>8. \A i \in 0 .. n : i # 0 => i \in 1 .. n
  BY <1>1
<1>9. \A i \in 0 .. n : g[i] = IF i = 0 THEN a ELSE zrem(g[i - 1], req.args[i])
  BY <1>6, <1>7, <1>8, Zenon DEF IsLoop
<1>10. Is(g)
  BY <1>9, Zenon
<1>11. Is(zrem_loop)
  BY <1>4, <1>10, Zenon
<1> HIDE DEF zrem_loop
<1> QED
  BY <1>7, <1>11, Zenon DEF n, a


\* ZREM counts what it has taken out, in every outcome.
ZRemDone(o, base) ==
    /\ o \in ZRemoved
    /\ o.n = Cardinality(base) - Cardinality(DOMAIN o.z.dict)

LEMMA ZRemCounts ==
    ASSUME NEW base, IsFiniteSet(base), NEW o, ZRemDone(o, base), NEW m \in Member, NEW r, ZRemTurn(o, m, r)
    PROVE  ZRemDone(r, base)
<1> DEFINE D == DOMAIN o.z.dict
<1>1. o \in ZRemoved /\ IsFiniteSet(D) /\ o.n = Cardinality(base) - Cardinality(D)
  BY Zenon DEF ZRemDone, ZRemoved, GoodZSets, ZGood
<1>2. r \in ZRemoved /\ DOMAIN r.z.dict = D \ {m} /\ r.n = IF m \in D THEN o.n + 1 ELSE o.n
  BY <1>1, ZRemKeeps
<1> HIDE DEF D
<1>3. /\ Cardinality(base) \in Nat /\ Cardinality(D) \in Nat
      /\ Cardinality(D \ {m}) = IF m \in D THEN Cardinality(D) - 1 ELSE Cardinality(D)
  BY <1>1, FS_CardinalityType, FS_RemoveElement
<1> QED
  BY <1>1, <1>2, <1>3 DEF ZRemDone

LEMMA ZRemResult ==
    ASSUME req.args \in Seq(Member), val \in GoodZSets
    PROVE  \A o \in zrem_loop[Len(req.args)] : ZRemDone(o, DOMAIN val.dict)
<1> DEFINE n == Len(req.args)
           base == DOMAIN val.dict
           S == {i \in 0 .. n : \A o \in zrem_loop[i] : ZRemDone(o, base)}
<1>1. n \in Nat /\ \A i \in 1 .. n : req.args[i] \in Member
  BY SizeFacts
<1>2. IsFiniteSet(base) /\ Cardinality(base) \in Nat
  BY FS_CardinalityType DEF GoodZSets, ZGood
<1>3. 0 \in S
  <2>1. 0 \in 0 .. n
    BY <1>1
  <2>2. \A o \in zrem_loop[0] : ZRemDone(o, base)
    BY <1>2, ZRemLoop DEF ZRemDone, ZRemoved
  <2> QED
    BY <2>1, <2>2
<1>4. ASSUME NEW i \in 1 .. n, i - 1 \in S PROVE i \in S
  <2>1. i \in 0 .. n /\ i - 1 \in 0 .. n /\ req.args[i] \in Member
    BY <1>1
  <2>2. zrem_loop[i] = zrem(zrem_loop[i - 1], req.args[i])
    BY ZRemLoop
  <2>3. ASSUME NEW r \in zrem_loop[i] PROVE ZRemDone(r, base)
    <3>1. PICK o \in zrem_loop[i - 1] : ZRemTurn(o, req.args[i], r)
      BY <2>2, ZRemTurns, Zenon
    <3>2. ZRemDone(o, base)
      BY <1>4, <3>1, Zenon
    <3> HIDE DEF base
    <3> QED
      BY <1>2, <2>1, <3>1, <3>2, ZRemCounts
  <2> QED
    BY <2>1, <2>3, Zenon
<1> HIDE DEF S
<1>5. KeptByTurns(S, n)
  BY <1>3, <1>4, Zenon DEF KeptByTurns
<1>6. n \in S
  BY <1>1, <1>5, Turns
<1> QED
  BY <1>6 DEF S

\* The dictionary d has what the first k pairs of a ZADD give, over b: the last
\* score for each member.
ZLast(b, k, m, s) ==
    \/ \E j \in 1 .. k : /\ Pairs[j][2] = m /\ s = Pairs[j][1]
                         /\ \A l \in 1 .. k : Pairs[l][2] = m => l <= j
    \/ (\A j \in 1 .. k : Pairs[j][2] # m) /\ s = b[m]
ZApplied(b, d, k) ==
    /\ DOMAIN d = DOMAIN b \cup {Pairs[j][2] : j \in 1 .. k}
    /\ \A m \in DOMAIN d : ZLast(b, k, m, d[m])

\* After i turns: the pairs are applied, all of them or those before the first
\* score that cannot be read, and the new members are counted.
ZAddDone(o, b, i) ==
    /\ o \in ZAdded
    /\ o.n = Cardinality(DOMAIN o.z.dict) - Cardinality(DOMAIN b)
    /\ o.ok => ZApplied(b, o.z.dict, i) /\ \A j \in 1 .. i : Pairs[j][1] # Bad
    /\ ~o.ok => \E k \in 1 .. i : /\ Pairs[k][1] = Bad /\ \A j \in 1 .. k - 1 : Pairs[j][1] # Bad
                                  /\ ZApplied(b, o.z.dict, k - 1)

LEMMA ApplyNext ==
    ASSUME NEW b, NEW d, NEW e, NEW i \in Nat \ {0}, ZApplied(b, d, i - 1),
           DOMAIN e = DOMAIN d \cup {Pairs[i][2]}, e[Pairs[i][2]] = Pairs[i][1],
           \A x \in DOMAIN d : x # Pairs[i][2] => e[x] = d[x]
    PROVE  ZApplied(b, e, i)
<1>1. \A j : j \in 1 .. i <=> j \in 1 .. i - 1 \/ j = i
  OBVIOUS
<1>2. DOMAIN e = DOMAIN b \cup {Pairs[j][2] : j \in 1 .. i}
  BY <1>1, Zenon DEF ZApplied
<1>3. ASSUME NEW m \in DOMAIN e PROVE ZLast(b, i, m, e[m])
  <2>1. CASE m = Pairs[i][2]
    <3>1. i \in 1 .. i /\ \A l \in 1 .. i : l <= i
      OBVIOUS
    <3> QED
      BY <2>1, <3>1, Zenon DEF ZLast
  <2>2. CASE m # Pairs[i][2]
    <3>1. m \in DOMAIN d /\ ZLast(b, i - 1, m, d[m]) /\ e[m] = d[m]
      BY <2>2, Zenon DEF ZApplied
    <3> QED
      BY <1>1, <2>2, <3>1, Zenon DEF ZLast
  <2> QED
    BY <2>1, <2>2
<1> QED
  BY <1>2, <1>3, Zenon DEF ZApplied

LEMMA ZAddKeeps ==
    ASSUME NEW b, IsFiniteSet(DOMAIN b), NEW i \in Nat \ {0}, Pairs[i] \in ScoredPair,
           NEW o, ZAddDone(o, b, i - 1), NEW r, ZTurn(o, Pairs[i], r)
    PROVE  ZAddDone(r, b, i)
<1> DEFINE p == Pairs[i]
           D == DOMAIN o.z.dict
           C == Cardinality(DOMAIN b)
<1>1. /\ o \in ZAdded /\ IsFiniteSet(D) /\ o.n = Cardinality(D) - C
      /\ (o.ok => ZApplied(b, o.z.dict, i - 1) /\ \A j \in 1 .. i - 1 : Pairs[j][1] # Bad)
  BY Zenon DEF ZAddDone, ZAdded, GoodZSets, ZGood
<1>2. /\ r \in ZAdded
      /\ o.ok /\ p[1] # Bad => /\ r.ok /\ DOMAIN r.z.dict = D \cup {p[2]}
                               /\ r.z.dict[p[2]] = p[1]
                               /\ \A x \in D : x # p[2] => r.z.dict[x] = o.z.dict[x]
                               /\ r.n = IF p[2] \in D THEN o.n ELSE o.n + 1
      /\ o.ok /\ p[1] = Bad => ~r.ok /\ r.z = o.z /\ r.n = o.n
      /\ ~o.ok => r = o
  BY <1>1, ZTurnKeeps
<1>3. /\ C \in Nat /\ Cardinality(D) \in Nat
      /\ Cardinality(D \cup {p[2]}) = IF p[2] \in D THEN Cardinality(D) ELSE Cardinality(D) + 1
  BY <1>1, FS_CardinalityType, FS_AddElement, Zenon
<1>4. \A j : j \in 1 .. i <=> j \in 1 .. i - 1 \/ j = i
  OBVIOUS
<1>5. CASE ~o.ok
  <2>1. PICK k \in 1 .. i - 1 : /\ Pairs[k][1] = Bad /\ \A j \in 1 .. k - 1 : Pairs[j][1] # Bad
                                /\ ZApplied(b, o.z.dict, k - 1)
    BY <1>5, Zenon DEF ZAddDone
  <2>2. k \in 1 .. i /\ r = o
    BY <1>2, <1>4, <1>5, Zenon
  <2> QED
    BY <1>1, <1>5, <2>1, <2>2, Zenon DEF ZAddDone
<1>6. CASE o.ok /\ p[1] = Bad
  <2>1. i \in 1 .. i /\ r \in ZAdded /\ ~r.ok /\ r.z = o.z /\ r.n = Cardinality(DOMAIN r.z.dict) - C
    BY <1>1, <1>2, <1>6
  <2>2. /\ Pairs[i][1] = Bad /\ \A j \in 1 .. i - 1 : Pairs[j][1] # Bad
        /\ ZApplied(b, r.z.dict, i - 1)
    BY <1>1, <1>6, <2>1, Zenon
  <2> QED
    BY <2>1, <2>2, Zenon DEF ZAddDone
<1>7. CASE o.ok /\ p[1] # Bad
  <2>1. ZApplied(b, r.z.dict, i)
    <3> DEFINE d == o.z.dict
               e == r.z.dict
    <3>1. /\ ZApplied(b, d, i - 1) /\ DOMAIN e = DOMAIN d \cup {Pairs[i][2]} /\ e[Pairs[i][2]] = Pairs[i][1]
          /\ \A x \in DOMAIN d : x # Pairs[i][2] => e[x] = d[x]
      BY <1>1, <1>2, <1>7, Zenon
    <3> HIDE DEF d, e
    <3>2. ZApplied(b, e, i)
      BY <3>1, ApplyNext, Zenon
    <3> QED
      BY <3>2, Zenon DEF e
  <2>2. \A j \in 1 .. i : Pairs[j][1] # Bad
    BY <1>1, <1>4, <1>7, Zenon
  <2>3. r \in ZAdded /\ r.ok /\ r.n = Cardinality(DOMAIN r.z.dict) - C
    <3>1. DOMAIN r.z.dict = D \cup {p[2]} /\ r.n = IF p[2] \in D THEN o.n ELSE o.n + 1
      BY <1>2, <1>7, Zenon
    <3> HIDE DEF D, C
    <3>2. CASE p[2] \in D
      BY <1>1, <1>2, <1>3, <1>7, <3>1, <3>2, Zenon
    <3>3. CASE p[2] \notin D
      BY <1>1, <1>2, <1>3, <1>7, <3>1, <3>3
    <3> QED
      BY <3>2, <3>3, Zenon
  <2> QED
    BY <2>1, <2>2, <2>3, Zenon DEF ZAddDone
<1>8. o.ok \in BOOLEAN
  BY <1>1, Zenon DEF ZAdded
<1> QED
  BY <1>5, <1>6, <1>7, <1>8, Zenon

LEMMA ZAddResult ==
    ASSUME Pairs \in Seq(ScoredPair), Fresh("zset") \in GoodZSets
    PROVE  \A o \in zadd_loop[Len(Pairs)] : ZAddDone(o, Fresh("zset").dict, Len(Pairs))
<1> DEFINE n == Len(Pairs)
           b == Fresh("zset").dict
           S == {i \in 0 .. n : \A o \in zadd_loop[i] : ZAddDone(o, b, i)}
<1>1. n \in Nat /\ \A i \in 1 .. n : Pairs[i] \in ScoredPair
  BY SizeFacts
<1>2. IsFiniteSet(DOMAIN b) /\ Cardinality(DOMAIN b) \in Nat
  BY FS_CardinalityType DEF GoodZSets, ZGood
<1>3. 0 \in S
  <2>1. 0 \in 0 .. n
    BY <1>1
  <2>2. ASSUME NEW o \in zadd_loop[0] PROVE ZAddDone(o, b, 0)
    <3>1. o = [z |-> Fresh("zset"), n |-> 0, ok |-> TRUE]
      BY ZAddLoop, Zenon
    <3>2. o \in ZAdded /\ o.z.dict = b /\ o.ok /\ o.n = Cardinality(DOMAIN o.z.dict) - Cardinality(DOMAIN b)
      BY <1>2, <3>1 DEF ZAdded
    <3>3. 1 .. 0 = {}
      OBVIOUS
    <3>4. ZApplied(b, b, 0)
      BY <3>3, Zenon DEF ZApplied, ZLast
    <3> HIDE DEF b
    <3> QED
      BY <3>2, <3>3, <3>4 DEF ZAddDone
  <2> QED
    BY <2>1, <2>2
<1>4. ASSUME NEW i \in 1 .. n, i - 1 \in S PROVE i \in S
  <2>1. i \in 0 .. n /\ i - 1 \in 0 .. n /\ Pairs[i] \in ScoredPair /\ i \in Nat \ {0}
    BY <1>1
  <2>2. zadd_loop[i] = zadd(zadd_loop[i - 1], Pairs[i])
    BY ZAddLoop
  <2>3. ASSUME NEW r \in zadd_loop[i] PROVE ZAddDone(r, b, i)
    <3>1. PICK o \in zadd_loop[i - 1] : ZTurn(o, Pairs[i], r)
      BY <2>2, ZAddTurn, Zenon
    <3>2. ZAddDone(o, b, i - 1)
      BY <1>4, <3>1, Zenon
    <3> HIDE DEF b
    <3> QED
      BY <1>2, <2>1, <3>1, <3>2, ZAddKeeps
  <2> QED
    BY <2>1, <2>3, Zenon
<1> HIDE DEF S
<1>5. KeptByTurns(S, n)
  BY <1>3, <1>4, Zenon DEF KeptByTurns
<1>6. n \in S
  BY <1>1, <1>5, Turns
<1> QED
  BY <1>6 DEF S

-----------------------------------------------------------------------------
(* The arguments of the commands *)

LEMMA WordType ==
    ASSUME NEW S, NEW k \in Nat, NEW w \in Words(S, 0 .. k)
    PROVE  w \in Seq(S) /\ Len(w) <= k
<1>1. PICK n \in 0 .. k : w \in [1 .. n -> S]
  BY Zenon DEF Words
<1>2. n \in Nat
  OBVIOUS
<1> QED
  BY <1>1, <1>2

LEMMA AlternatingType ==
    ASSUME NEW S, NEW T, NEW k \in Nat, NEW w \in Alternating(S, T, 0 .. k)
    PROVE  w \in Seq(S \cup T) /\ \A i \in 1 .. Len(w) : w[i] \in IF i % 2 = 1 THEN S ELSE T
<1>1. PICK n \in 0 .. k : /\ w \in [1 .. n -> S \cup T]
                          /\ \A i \in 1 .. n : w[i] \in IF i % 2 = 1 THEN S ELSE T
  BY Zenon DEF Alternating
<1>2. n \in Nat
  OBVIOUS
<1>3. w \in Seq(S \cup T) /\ Len(w) = n
  BY <1>1, <1>2
<1> QED
  BY <1>1, <1>3

\* What the parser hands to the commands that change something.
ArgsOK(r) ==
    /\ r.op # "none"
    /\ r.op \in {"LPUSH", "RPUSH"} => r.args \in Seq(Member) /\ Len(r.args) <= MaxArgs
    /\ r.op \in {"SADD", "SREM", "HSET", "HDEL", "ZREM"} => r.args \in Seq(Member)
    /\ r.op = "ZADD" =>
        /\ r.args \in Seq(Score \cup {Bad} \cup Member)
        /\ \A i \in 1 .. Len(r.args) : r.args[i] \in IF i % 2 = 1 THEN Score \cup {Bad} ELSE Member

LEMMA CommandArgs ==
    ASSUME NEW c \in Command
    PROVE  ArgsOK(c)
<1>0. MaxArgs \in Nat /\ 2 * MaxArgs \in Nat
  BY BoundAssumption
<1>1. CASE c \in [op : {"LPUSH", "RPUSH", "SADD", "SREM", "HDEL", "ZREM"}, args : Words(Member, 0 .. MaxArgs)]
  <2>1. c.args \in Words(Member, 0 .. MaxArgs) /\ c.op \in {"LPUSH", "RPUSH", "SADD", "SREM", "HDEL", "ZREM"}
    BY <1>1
  <2>2. c.args \in Seq(Member) /\ Len(c.args) <= MaxArgs
    BY <1>0, <2>1, WordType
  <2> QED
    BY <2>1, <2>2 DEF ArgsOK
<1>2. CASE c \in [op : {"HSET"}, args : Words(Member, 0 .. 2 * MaxArgs)]
  <2> DEFINE k == 2 * MaxArgs
  <2>1. c.args \in Words(Member, 0 .. k) /\ c.op = "HSET" /\ k \in Nat
    BY <1>0, <1>2
  <2> HIDE DEF k
  <2>2. c.args \in Seq(Member)
    BY <2>1, WordType
  <2> QED
    BY <2>1, <2>2, Zenon DEF ArgsOK
<1>3. CASE c \in [op : {"ZADD"}, args : Alternating(Score \cup {Bad}, Member, 0 .. 2 * MaxArgs)]
  <2> DEFINE k == 2 * MaxArgs
             T == Score \cup {Bad}
  <2>1. c.args \in Alternating(T, Member, 0 .. k) /\ c.op = "ZADD" /\ k \in Nat
    BY <1>0, <1>3
  <2> HIDE DEF k, T
  <2>2. c.args \in Seq(T \cup Member) /\ \A i \in 1 .. Len(c.args) : c.args[i] \in IF i % 2 = 1 THEN T ELSE Member
    BY <2>1, AlternatingType, Zenon
  <2> QED
    BY <2>1, <2>2 DEF ArgsOK, T
<1>4. CASE c.op \in {"LPOP", "RPOP", "LLEN", "SMEMBERS", "SCARD", "HGETALL", "HLEN", "ZCARD", "GET", "DEL",
                     "HGET", "ZSCORE", "SET", "LRANGE", "ZRANGE"}
  BY <1>4 DEF ArgsOK
<1> QED
  BY <1>1, <1>2, <1>3, <1>4 DEF Command

LEMMA RequestArgs ==
    ASSUME ReqOK(val, req)
    PROVE  ArgsOK(req)
<1>1. ArgsOK([op |-> req.op, args |-> req.args])
  BY CommandArgs DEF ReqOK
<1> QED
  BY <1>1, Zenon DEF ArgsOK

\* Two by two, the arguments of HSET and of ZADD.
LEMMA PairsType ==
    ASSUME ArgsOK(req)
    PROVE  /\ req.op = "HSET" => Pairs \in Seq(Member \X Member)
           /\ req.op = "ZADD" => Pairs \in Seq(ScoredPair)
<1> DEFINE n == Len(req.args)
           k == n \div 2
<1>1. ASSUME n \in Nat PROVE k \in Nat /\ \A i \in 1 .. k : 2 * i - 1 \in 1 .. n /\ 2 * i \in 1 .. n
  <2> HIDE DEF n
  <2>1. k \in Nat /\ 2 * k <= n
    BY <1>1
  <2> HIDE DEF k
  <2> QED
    BY <1>1, <2>1
<1>2. \A i \in Nat : (2 * i - 1) % 2 = 1 /\ (2 * i) % 2 # 1
  OBVIOUS
<1>3. Pairs = [i \in 1 .. k |-> <<req.args[2 * i - 1], req.args[2 * i]>>]
  BY DEF Pairs
<1> HIDE DEF k
<1>4. CASE req.op = "HSET"
  <2>1. n \in Nat /\ \A i \in 1 .. n : req.args[i] \in Member
    BY <1>4 DEF ArgsOK
  <2>2. Pairs \in [1 .. k -> Member \X Member]
    BY <1>1, <1>3, <2>1, Zenon
  <2> HIDE DEF n
  <2> QED
    BY <1>1, <1>4, <2>1, <2>2
<1>5. CASE req.op = "ZADD"
  <2>1. n \in Nat /\ \A i \in 1 .. n : req.args[i] \in IF i % 2 = 1 THEN Score \cup {Bad} ELSE Member
    BY <1>5 DEF ArgsOK
  <2>2. \A i \in 1 .. k : i \in Nat
    OBVIOUS
  <2>3. Pairs \in [1 .. k -> ScoredPair]
    BY <1>1, <1>2, <1>3, <2>1, <2>2, Zenon DEF ScoredPair
  <2> HIDE DEF n
  <2> QED
    BY <1>1, <1>5, <2>1, <2>3
<1> QED
  BY <1>4, <1>5

-----------------------------------------------------------------------------
(* The steps *)

Counters == {"SADD", "SREM", "HSET", "HDEL", "ZADD", "ZREM"}

\* What every step of a command does: the value stays well formed, the command
\* is over or goes to the owner as it is, counts and errors are as promised.
StepOK ==
    /\ ValOK(val')
    /\ \/ req' = NoRequest
       \/ val' = val /\ forward_request
    /\ Counted
    /\ Refused

\* Refused for its number of arguments, or forwarded.
Elsewhere == (Answer("-ERR wrong number", 0, <<>>) /\ UNCHANGED val) \/ forward_request

\* Answered without a change.
Answered == req' = NoRequest /\ UNCHANGED val /\ reply'.kind # "-ERR not a float"

LEMMA ElsewhereOK ==
    ASSUME IInv, req # NoRequest, Elsewhere
    PROVE  StepOK
<1>1. CASE Answer("-ERR wrong number", 0, <<>>) /\ UNCHANGED val
  BY <1>1, Zenon DEF StepOK, IInv, Counted, Refused, Answer
<1>2. CASE forward_request
  <2>1. reply'.kind = "none" /\ val' = val
    BY <1>2 DEF IInv, forward_request, NoReply
  <2> QED
    BY <1>2, <2>1 DEF StepOK, IInv, Counted, Refused
<1> QED
  BY <1>1, <1>2, Zenon DEF Elsewhere

LEMMA AnsweredOK ==
    ASSUME IInv, Answered, req.op \notin Counters \/ reply'.kind # ":"
    PROVE  StepOK
BY Zenon DEF StepOK, IInv, Answered, Counters, Counted, Refused

\* A reply ends the command.
LEMMA Answers ==
    \A kind, n, items : Answer(kind, n, items) => reply'.kind = kind /\ reply'.n = n /\ req' = NoRequest
BY DEF Answer

\* The commands that only read.
LEMMA Reads ==
    /\ LRANGE => req.op = "LRANGE" /\ (Elsewhere \/ Answered)
    /\ LLEN => req.op = "LLEN" /\ (Elsewhere \/ Answered)
    /\ SMEMBERS => req.op = "SMEMBERS" /\ (Elsewhere \/ Answered)
    /\ SCARD => req.op = "SCARD" /\ (Elsewhere \/ Answered)
    /\ HGET => req.op = "HGET" /\ (Elsewhere \/ Answered)
    /\ HGETALL => req.op = "HGETALL" /\ (Elsewhere \/ Answered)
    /\ HLEN => req.op = "HLEN" /\ (Elsewhere \/ Answered)
    /\ ZRANGE => req.op = "ZRANGE" /\ (Elsewhere \/ Answered)
    /\ ZCARD => req.op = "ZCARD" /\ (Elsewhere \/ Answered)
    /\ ZSCORE => req.op = "ZSCORE" /\ (Elsewhere \/ Answered)
    /\ GET => req.op = "GET" /\ (Elsewhere \/ Answered)
<1> USE Answers DEF execute, Missing, WrongType, NotAnInteger, Array, Count, Null, Bulk, Elsewhere, Answered
<1>1. LRANGE => req.op = "LRANGE" /\ (Elsewhere \/ Answered)
  BY Zenon DEF LRANGE
<1>2. LLEN => req.op = "LLEN" /\ (Elsewhere \/ Answered)
  BY Zenon DEF LLEN
<1>3. SMEMBERS => req.op = "SMEMBERS" /\ (Elsewhere \/ Answered)
  BY Zenon DEF SMEMBERS
<1>4. SCARD => req.op = "SCARD" /\ (Elsewhere \/ Answered)
  BY Zenon DEF SCARD
<1>5. HGET => req.op = "HGET" /\ (Elsewhere \/ Answered)
  BY Zenon DEF HGET
<1>6. HGETALL => req.op = "HGETALL" /\ (Elsewhere \/ Answered)
  BY Zenon DEF HGETALL
<1>7. HLEN => req.op = "HLEN" /\ (Elsewhere \/ Answered)
  BY Zenon DEF HLEN
<1>8. ZRANGE => req.op = "ZRANGE" /\ (Elsewhere \/ Answered)
  BY Zenon DEF ZRANGE
<1>9. ZCARD => req.op = "ZCARD" /\ (Elsewhere \/ Answered)
  BY Zenon DEF ZCARD
<1>10. ZSCORE => req.op = "ZSCORE" /\ (Elsewhere \/ Answered)
  BY Zenon DEF ZSCORE
<1>11. GET => req.op = "GET" /\ (Elsewhere \/ Answered)
  BY Zenon DEF GET
<1> QED
  BY <1>1, <1>2, <1>3, <1>4, <1>5, <1>6, <1>7, <1>8, <1>9, <1>10, <1>11, Zenon

\* Refused for the type of what is under the key.
LEMMA WrongTypeOK ==
    ASSUME IInv, NEW type, WrongType(type)
    PROVE  StepOK
<1>1. val' = val /\ req' = NoRequest /\ reply'.kind = "-ERR WRONGTYPE"
  BY Answers, Zenon DEF WrongType
<1>2. Answered /\ reply'.kind # ":"
  BY <1>1, Zenon DEF Answered
<1> QED
  BY <1>2, AnsweredOK

\* An answer that is no error, to a command that changed the value.
LEMMA ChangedOK ==
    ASSUME ValOK(val'), req' = NoRequest, reply'.kind \in {":", "$", "+OK"}, Counted
    PROVE  StepOK
BY Zenon DEF StepOK, Refused

\* What is under the key has the type that its tag says.
LEMMA ValTypes ==
    ASSUME NEW v, ValOK(v)
    PROVE  /\ v.type \in {"none", "string", "list", "set", "hash", "zset"}
           /\ v.type = "none" => v = Nothing
           /\ v.type = "list" => v.list \in Words(Member, 0 .. MaxLen)
           /\ v.type = "set" => v.set \in SUBSET Member /\ IsFiniteSet(v.set)
           /\ v.type = "hash" => v.hash \in Partial(Member, Member) /\ IsFiniteSet(DOMAIN v.hash)
           /\ v.type = "zset" => ZGood(v)
BY DEF ValOK, Nothing, String

LEMMA ElementsOf ==
    ASSUME NEW v
    PROVE  /\ v.type = "none" => Elements(v) = 0
           /\ v.type = "set" => Elements(v) = Cardinality(v.set)
           /\ v.type = "hash" => Elements(v) = Cardinality(DOMAIN v.hash)
           /\ v.type = "zset" => Elements(v) = Cardinality(DOMAIN v.dict)
<1>1. ASSUME v.type = "none" PROVE Elements(v) = 0
  BY <1>1, Zenon DEF Elements
<1>2. ASSUME v.type = "set" PROVE Elements(v) = Cardinality(v.set)
  BY <1>2 DEF Elements
<1>3. ASSUME v.type = "hash" PROVE Elements(v) = Cardinality(DOMAIN v.hash)
  BY <1>3 DEF Elements
<1>4. ASSUME v.type = "zset" PROVE Elements(v) = Cardinality(DOMAIN v.dict)
  BY <1>4 DEF Elements
<1> QED
  BY <1>1, <1>2, <1>3, <1>4

\* A list: a sequence of bounded length.
LEMMA ListType ==
    \A s : s \in Words(Member, 0 .. MaxLen) <=> s \in Seq(Member) /\ Len(s) <= MaxLen
<1> TAKE s
<1>1. ASSUME s \in Words(Member, 0 .. MaxLen) PROVE s \in Seq(Member) /\ Len(s) <= MaxLen
  <2>1. PICK m \in 0 .. MaxLen : s \in [1 .. m -> Member]
    BY <1>1, Zenon DEF Words
  <2>2. m \in Nat /\ m <= MaxLen
    BY BoundAssumption
  <2> QED
    BY <2>1, <2>2
<1>2. ASSUME s \in Seq(Member), Len(s) <= MaxLen PROVE s \in Words(Member, 0 .. MaxLen)
  <2>1. Len(s) \in 0 .. MaxLen /\ s \in [1 .. Len(s) -> Member]
    BY <1>2, BoundAssumption
  <2> QED
    BY <2>1, Zenon DEF Words
<1> QED
  BY <1>1, <1>2, Zenon

\* The collection that an adding command works on.
LEMMA FreshOK ==
    ASSUME ValOK(val)
    PROVE  /\ Mine("list") => Fresh("list").list \in Words(Member, 0 .. MaxLen)
           /\ Mine("set") => /\ Fresh("set").set \in SUBSET Member /\ IsFiniteSet(Fresh("set").set)
                             /\ Cardinality(Fresh("set").set) = Elements(val)
           /\ Mine("hash") => /\ Fresh("hash").hash \in Partial(Member, Member)
                              /\ IsFiniteSet(DOMAIN Fresh("hash").hash)
                              /\ Cardinality(DOMAIN Fresh("hash").hash) = Elements(val)
           /\ Mine("zset") => /\ Fresh("zset") \in GoodZSets
                              /\ Cardinality(DOMAIN Fresh("zset").dict) = Elements(val)
<1>0. Nothing.type = "none"
  BY Zenon DEF Nothing
<1>1. CASE val = Nothing
  <2>1. Fresh("list").list = <<>> /\ Fresh("set").set = {}
    BY <1>1, Zenon DEF Fresh, Empty
  <2>2. /\ Fresh("hash").hash = [f \in {} |-> 0]
        /\ Fresh("zset") = [type |-> "zset", tree |-> {}, dict |-> [m \in {} |-> 0], nan |-> FALSE]
    BY <1>1 DEF Fresh, Empty
  <2>3. IsFiniteSet({}) /\ Cardinality({}) = 0 /\ Elements(val) = 0
    BY <1>0, <1>1, FS_EmptySet, ElementsOf, Zenon
  <2>4. <<>> \in Words(Member, 0 .. MaxLen)
    <3>1. <<>> \in Seq(Member) /\ Len(<<>>) <= MaxLen
      BY BoundAssumption
    <3> QED
      BY <3>1, ListType, Zenon
  <2>5. \A S, T : [f \in {} |-> 0] \in Partial(S, T)
    <3> TAKE S, T
    <3>1. [f \in {} |-> 0] \in [{} -> T] /\ {} \in SUBSET S
      OBVIOUS
    <3> QED
      BY <3>1, Zenon DEF Partial
  <2>6. Fresh("zset") \in GoodZSets
    <3> DEFINE d == [m \in {} |-> 0]
               z == [type |-> "zset", tree |-> {}, dict |-> d, nan |-> FALSE]
    <3>1. DOMAIN d = {} /\ d \in Partial(Member, Score)
      BY <2>5, Zenon
    <3> HIDE DEF d
    <3>2. z \in ZSets /\ DOMAIN z.dict = {} /\ z.tree = {}
      BY <3>1, Zenon DEF ZSets
    <3>3. Together(z)
      BY <3>2, Zenon DEF Together
    <3>4. z \in GoodZSets
      BY <2>3, <3>2, <3>3, Zenon DEF GoodZSets, ZGood
    <3> QED
      BY <2>2, <3>4, Zenon DEF d
  <2>7. DOMAIN Fresh("hash").hash = {} /\ DOMAIN Fresh("zset").dict = {}
    BY <2>2
  <2> QED
    BY <2>1, <2>2, <2>3, <2>4, <2>5, <2>6, <2>7, Zenon
<1>2. CASE val # Nothing
  <2>1. \A type : Fresh(type) = val
    BY <1>2, Zenon DEF Fresh
  <2>2. ZGood(val) => val \in GoodZSets
    BY DEF GoodZSets, ZGood
  <2>3. val.type # "none"
    BY <1>2, ValTypes
  <2> QED
    BY <2>1, <2>2, <2>3, ValTypes, ElementsOf, Zenon DEF Mine
<1> QED
  BY <1>1, <1>2, Zenon

\* LPUSH and RPUSH: the command was received only if the list has room.
LEMMA PushesOK ==
    ASSUME ValOK(val), ReqOK(val, req), req.op \in {"LPUSH", "RPUSH"}, Mine("list")
    PROVE  push_front \in Words(Member, 0 .. MaxLen) /\ push_back \in Words(Member, 0 .. MaxLen)
<1> DEFINE old == Fresh("list").list
           args == req.args
           back == [i \in 1 .. Len(args) |-> args[Len(args) + 1 - i]]
<1>1. args \in Seq(Member) /\ Len(args) <= MaxArgs
  BY RequestArgs, Zenon DEF ArgsOK
<1>2. old \in Seq(Member) /\ Len(old) + Len(args) <= MaxLen
  <2>1. CASE val = Nothing
    <3>1. old = <<>>
      BY <2>1, Zenon DEF Fresh, Empty
    <3> HIDE DEF old, args
    <3>2. old \in Seq(Member) /\ Len(old) = 0 /\ Len(args) \in Nat
      BY <1>1, <3>1
    <3> QED
      BY <1>1, <3>2, BoundAssumption
  <2>2. CASE val # Nothing
    <3>1. old = val.list /\ val.type = "list"
      BY <2>2, ValTypes, Zenon DEF Fresh, Mine
    <3>2. old \in Seq(Member)
      BY <3>1, ValTypes, ListType, Zenon
    <3>3. Len(val.list) + Len(req.args) <= MaxLen
      BY <3>1 DEF ReqOK
    <3> QED
      BY <3>1, <3>2, <3>3, Zenon
  <2> QED
    BY <2>1, <2>2, Zenon
<1> HIDE DEF old, args
<1>3. back \in Seq(Member) /\ Len(back) = Len(args)
  BY <1>1
<1> HIDE DEF back
<1>4. back \o old \in Seq(Member) /\ Len(back \o old) <= MaxLen
  BY <1>1, <1>2, <1>3, BoundAssumption
<1>5. old \o args \in Seq(Member) /\ Len(old \o args) <= MaxLen
  BY <1>1, <1>2, BoundAssumption
<1>6. push_front = back \o old /\ push_back = old \o args
  BY Zenon DEF push_front, push_back, back, old, args
<1> QED
  BY <1>4, <1>5, <1>6, ListType, Zenon

LEMMA PushStep ==
    ASSUME IInv, req # NoRequest, LPUSH \/ RPUSH
    PROVE  StepOK
<1>1. ValOK(val) /\ ReqOK(val, req)
  BY Zenon DEF IInv
<1>2. req.op \in {"LPUSH", "RPUSH"}
  BY Zenon DEF LPUSH, RPUSH, execute
<1>3. \/ Elsewhere \/ WrongType("list")
      \/ \E l \in {push_front, push_back} :
            /\ Mine("list") /\ val' = [type |-> "list", list |-> l] /\ Count(Len(val'.list))
  BY Zenon DEF LPUSH, RPUSH, execute, Elsewhere, Pushes
<1>4. CASE WrongType("list")
  BY <1>4, WrongTypeOK
<1>5. ASSUME NEW l \in {push_front, push_back}, Mine("list"), val' = [type |-> "list", list |-> l],
             Count(Len(val'.list))
      PROVE  StepOK
  <2>1. l \in Words(Member, 0 .. MaxLen)
    BY <1>1, <1>2, <1>5, PushesOK, Zenon
  <2>2. ValOK(val')
    BY <1>5, <2>1, Zenon DEF ValOK
  <2>3. req' = NoRequest /\ reply'.kind = ":"
    BY <1>5, Answers, Zenon DEF Count
  <2>4. Counted
    BY <1>2, Zenon DEF Counted
  <2> QED
    BY <2>2, <2>3, <2>4, ChangedOK
<1> QED
  BY <1>3, <1>4, <1>5, ElsewhereOK

LEMMA PopStep ==
    ASSUME IInv, req # NoRequest, LPOP \/ RPOP
    PROVE  StepOK
<1>1. ValOK(val)
  BY Zenon DEF IInv
<1>2. req.op \in {"LPOP", "RPOP"}
  BY Zenon DEF LPOP, RPOP, execute
<1>3. \/ Elsewhere
      \/ Answered
      \/ \E l \in {Tail(val.list), SubSeq(val.list, 1, Len(val.list) - 1)} : \E x :
            val.type = "list" /\ val.list # <<>> /\ Bulk(x) /\ val' = [val EXCEPT !.list = l]
  BY Answers, Zenon DEF LPOP, RPOP, execute, Elsewhere, Pops, Answered, Missing, Null, WrongType
<1>4. CASE Answered
  BY <1>2, <1>4, AnsweredOK DEF Counters
<1>5. ASSUME NEW l \in {Tail(val.list), SubSeq(val.list, 1, Len(val.list) - 1)}, NEW x,
             val.type = "list", val.list # <<>>, Bulk(x), val' = [val EXCEPT !.list = l]
      PROVE  StepOK
  <2> DEFINE s == val.list
  <2>1. s \in Seq(Member) /\ Len(s) <= MaxLen /\ s # <<>> /\ l \in {Tail(s), SubSeq(s, 1, Len(s) - 1)}
    BY <1>1, <1>5, ValTypes, ListType, Zenon
  <2> HIDE DEF s
  <2>2. Tail(s) \in Seq(Member) /\ Len(Tail(s)) <= MaxLen
    BY <2>1, BoundAssumption
  <2>3. SubSeq(s, 1, Len(s) - 1) \in Seq(Member) /\ Len(SubSeq(s, 1, Len(s) - 1)) <= MaxLen
    BY <2>1, BoundAssumption
  <2>4. l \in Words(Member, 0 .. MaxLen)
    BY <2>1, <2>2, <2>3, ListType, Zenon
  <2>5. val = [type |-> "list", list |-> val.list]
    BY <1>1, <1>5 DEF ValOK, Nothing, String, ZGood, ZSets
  <2>6. val' = [type |-> "list", list |-> l]
    BY <1>5, <2>5
  <2>7. ValOK(val')
    BY <2>4, <2>6, Zenon DEF ValOK
  <2>8. req' = NoRequest /\ reply'.kind = "$"
    BY <1>5, Answers DEF Bulk
  <2>9. Counted
    BY <1>2 DEF Counted
  <2> QED
    BY <2>7, <2>8, <2>9, ChangedOK
<1> QED
  BY <1>3, <1>4, <1>5, ElsewhereOK

\* Nothing is removed from a missing collection.
LEMMA MissingOK ==
    ASSUME ValOK(val), req.op \in {"SREM", "HDEL", "ZREM"}, Missing, Count(0)
    PROVE  StepOK
<1>1. val' = val /\ req' = NoRequest /\ reply'.kind = ":" /\ reply'.n = 0
  BY Answers DEF Missing, Count
<1>2. Elements(val) = 0
  BY ElementsOf DEF Missing, Nothing
<1>3. Counted
  BY <1>1, <1>2 DEF Counted
<1> QED
  BY <1>1, <1>3, ChangedOK

LEMMA SAddStep ==
    ASSUME IInv, req # NoRequest, SADD
    PROVE  StepOK
<1> DEFINE r == sadd_loop[Len(req.args)]
<1>1. ValOK(val) /\ req.op = "SADD" /\ ArgsOK(req)
  BY RequestArgs, Zenon DEF IInv, SADD, execute
<1>2. \/ Elsewhere \/ WrongType("set")
      \/ Mine("set") /\ val' = [type |-> "set", set |-> r.set] /\ Count(r.n)
  BY Zenon DEF SADD, execute, Elsewhere
<1> HIDE DEF r
<1>3. CASE WrongType("set")
  BY <1>3, WrongTypeOK
<1>4. CASE Mine("set") /\ val' = [type |-> "set", set |-> r.set] /\ Count(r.n)
  <2>1. Grown(r, Fresh("set").set)
    BY <1>1, <1>4, FreshOK, SAddResult, Zenon DEF r, ArgsOK
  <2>2. /\ Cardinality(Fresh("set").set) = Elements(val)
        /\ r.n = Cardinality(r.set) - Elements(val)
    BY <1>1, <1>4, <2>1, FreshOK, Zenon DEF Grown
  <2>3. ValOK(val') /\ Elements(val') = Cardinality(r.set)
    BY <1>4, <2>1, ElementsOf DEF ValOK, Grown, SetAcc
  <2>4. req' = NoRequest /\ reply'.kind = ":" /\ reply'.n = r.n
    BY <1>4, Answers, Zenon DEF Count
  <2>5. Counted
    BY <1>1, <2>2, <2>3, <2>4, Zenon DEF Counted
  <2> QED
    BY <2>3, <2>4, <2>5, ChangedOK, Zenon
<1> QED
  BY <1>2, <1>3, <1>4, ElsewhereOK, Zenon

LEMMA SRemStep ==
    ASSUME IInv, req # NoRequest, SREM
    PROVE  StepOK
<1> DEFINE r == srem_loop[Len(req.args)]
<1>1. ValOK(val) /\ req.op = "SREM" /\ ArgsOK(req)
  BY RequestArgs, Zenon DEF IInv, SREM, execute
<1>2. \/ Elsewhere \/ WrongType("set")
      \/ Missing /\ Count(0)
      \/ val.type = "set" /\ val' = [type |-> "set", set |-> r.set] /\ Count(r.n)
  BY Zenon DEF SREM, execute, Elsewhere
<1> HIDE DEF r
<1>3. CASE WrongType("set")
  BY <1>3, WrongTypeOK
<1>4. CASE Missing /\ Count(0)
  BY <1>1, <1>4, MissingOK
<1>5. CASE val.type = "set" /\ val' = [type |-> "set", set |-> r.set] /\ Count(r.n)
  <2>1. Shrunk(r, val.set)
    BY <1>1, <1>5, ValTypes, SRemResult, Zenon DEF r, ArgsOK
  <2>2. Elements(val) = Cardinality(val.set) /\ r.n = Elements(val) - Cardinality(r.set)
    BY <1>5, <2>1, ElementsOf, Zenon DEF Shrunk
  <2>3. ValOK(val') /\ Elements(val') = Cardinality(r.set)
    BY <1>5, <2>1, ElementsOf DEF ValOK, Shrunk, SetAcc
  <2>4. req' = NoRequest /\ reply'.kind = ":" /\ reply'.n = r.n
    BY <1>5, Answers, Zenon DEF Count
  <2>5. Counted
    BY <1>1, <2>2, <2>3, <2>4, Zenon DEF Counted
  <2> QED
    BY <2>3, <2>4, <2>5, ChangedOK
<1> QED
  BY <1>2, <1>3, <1>4, <1>5, ElsewhereOK, Zenon

LEMMA HSetStep ==
    ASSUME IInv, req # NoRequest, HSET
    PROVE  StepOK
<1> DEFINE r == hset_loop[Len(Pairs)]
<1>1. ValOK(val) /\ req.op = "HSET" /\ ArgsOK(req)
  BY RequestArgs, Zenon DEF IInv, HSET, execute
<1>2. \/ Elsewhere \/ WrongType("hash")
      \/ Mine("hash") /\ val' = [type |-> "hash", hash |-> r.hash] /\ Count(r.n)
  BY Zenon DEF HSET, execute, Elsewhere
<1> HIDE DEF r
<1>3. CASE WrongType("hash")
  BY <1>3, WrongTypeOK
<1>4. CASE Mine("hash") /\ val' = [type |-> "hash", hash |-> r.hash] /\ Count(r.n)
  <2>1. HGrown(r, DOMAIN Fresh("hash").hash)
    BY <1>1, <1>4, FreshOK, HSetResult, PairsType, Zenon DEF r, ArgsOK
  <2>2. /\ Cardinality(DOMAIN Fresh("hash").hash) = Elements(val)
        /\ r.n = Cardinality(DOMAIN r.hash) - Elements(val)
    BY <1>1, <1>4, <2>1, FreshOK, Zenon DEF HGrown
  <2>3. ValOK(val') /\ Elements(val') = Cardinality(DOMAIN r.hash)
    BY <1>4, <2>1, ElementsOf DEF ValOK, HGrown, HashAcc
  <2>4. req' = NoRequest /\ reply'.kind = ":" /\ reply'.n = r.n
    BY <1>4, Answers, Zenon DEF Count
  <2>5. Counted
    BY <1>1, <2>2, <2>3, <2>4, Zenon DEF Counted
  <2> QED
    BY <2>3, <2>4, <2>5, ChangedOK, Zenon
<1> QED
  BY <1>2, <1>3, <1>4, ElsewhereOK, Zenon

LEMMA HDelStep ==
    ASSUME IInv, req # NoRequest, HDEL
    PROVE  StepOK
<1> DEFINE r == hdel_loop[Len(req.args)]
<1>1. ValOK(val) /\ req.op = "HDEL" /\ ArgsOK(req)
  BY RequestArgs, Zenon DEF IInv, HDEL, execute
<1>2. \/ Elsewhere \/ WrongType("hash")
      \/ Missing /\ Count(0)
      \/ val.type = "hash" /\ val' = [type |-> "hash", hash |-> r.hash] /\ Count(r.n)
  BY Zenon DEF HDEL, execute, Elsewhere
<1> HIDE DEF r
<1>3. CASE WrongType("hash")
  BY <1>3, WrongTypeOK
<1>4. CASE Missing /\ Count(0)
  BY <1>1, <1>4, MissingOK, Zenon
<1>5. CASE val.type = "hash" /\ val' = [type |-> "hash", hash |-> r.hash] /\ Count(r.n)
  <2>1. HShrunk(r, DOMAIN val.hash)
    BY <1>1, <1>5, ValTypes, HDelResult, Zenon DEF r, ArgsOK
  <2>2. Elements(val) = Cardinality(DOMAIN val.hash) /\ r.n = Elements(val) - Cardinality(DOMAIN r.hash)
    BY <1>5, <2>1, ElementsOf, Zenon DEF HShrunk
  <2>3. ValOK(val') /\ Elements(val') = Cardinality(DOMAIN r.hash)
    BY <1>5, <2>1, ElementsOf DEF ValOK, HShrunk, HashAcc
  <2>4. req' = NoRequest /\ reply'.kind = ":" /\ reply'.n = r.n
    BY <1>5, Answers, Zenon DEF Count
  <2>5. Counted
    BY <1>1, <2>2, <2>3, <2>4, Zenon DEF Counted
  <2> QED
    BY <2>3, <2>4, <2>5, ChangedOK
<1> QED
  BY <1>2, <1>3, <1>4, <1>5, ElsewhereOK, Zenon

\* The dictionary that a refused ZADD leaves.
LEMMA UpToBadIs ==
    ASSUME Pairs \in Seq(ScoredPair), NEW d \in Partial(Member, Score), NEW k \in 1 .. Len(Pairs),
           Pairs[k][1] = Bad, \A j \in 1 .. k - 1 : Pairs[j][1] # Bad,
           ZApplied(Fresh("zset").dict, d, k - 1)
    PROVE  d = UpToBad
<1> DEFINE b == Fresh("zset").dict
           bad == {i \in DOMAIN Pairs : Pairs[i][1] = Bad}
           before == Min(bad) - 1
           Given(m) == {i \in 1 .. before : Pairs[i][2] = m}
           old == IF val = Nothing THEN {} ELSE DOMAIN val.dict
           Of(m) == IF Given(m) # {} THEN Pairs[Max(Given(m))][1] ELSE val.dict[m]
<1>1. UpToBad = [m \in old \cup {Pairs[i][2] : i \in 1 .. before} |-> Of(m)]
  BY Zenon DEF UpToBad
<1>2. before = k - 1
  <2>1. DOMAIN Pairs = 1 .. Len(Pairs) /\ Len(Pairs) \in Nat
    OBVIOUS
  <2>2. k \in bad
    BY <2>1
  <2>3. \A y \in bad : k <= y
    BY <2>1
  <2>4. \A y \in bad : y \in Int
    BY <2>1
  <2> HIDE DEF bad
  <2>5. Min(bad) = k
    BY <2>2, <2>3, <2>4 DEF Min
  <2> QED
    BY <2>5, Zenon
<1>3. old = DOMAIN b /\ (val # Nothing => b = val.dict)
  BY Zenon DEF Fresh, Empty
<1> HIDE DEF before, old, b
<1>4. DOMAIN d = old \cup {Pairs[i][2] : i \in 1 .. before} /\ \A m \in DOMAIN d : ZLast(b, before, m, d[m])
  BY <1>2, <1>3, Zenon DEF ZApplied, b
<1>5. ASSUME NEW m \in DOMAIN d PROVE d[m] = Of(m)
  <2>1. CASE \E j \in 1 .. before : /\ Pairs[j][2] = m /\ d[m] = Pairs[j][1]
                                    /\ \A l \in 1 .. before : Pairs[l][2] = m => l <= j
    <3>1. PICK j \in 1 .. before : /\ Pairs[j][2] = m /\ d[m] = Pairs[j][1]
                                   /\ \A l \in 1 .. before : Pairs[l][2] = m => l <= j
      BY <2>1, Zenon
    <3>2. j \in Given(m) /\ Given(m) # {} /\ \A y \in Given(m) : j >= y /\ y \in Int
      BY <1>2, <3>1
    <3>3. Max(Given(m)) = j
      <4> DEFINE G == Given(m)
      <4>1. j \in G /\ \A y \in G : j >= y /\ y \in Int
        BY <3>2
      <4> HIDE DEF G
      <4>2. Max(G) \in G /\ \A y \in G : Max(G) >= y
        BY <4>1, Zenon DEF Max
      <4>3. Max(G) = j
        <5> DEFINE x == Max(G)
        <5>1. x \in Int /\ j \in Int /\ x >= j /\ j >= x
          BY <4>1, <4>2, Zenon
        <5> HIDE DEF x
        <5>2. x = j
          BY <5>1
        <5> QED
          BY <5>2 DEF x
      <4> QED
        BY <4>3, Zenon DEF G
    <3> QED
      BY <3>1, <3>2, <3>3, Zenon
  <2>2. CASE (\A j \in 1 .. before : Pairs[j][2] # m) /\ d[m] = b[m]
    <3>1. Given(m) = {} /\ m \in old
      BY <1>4, <2>2, Zenon
    <3>2. val # Nothing
      BY <3>1 DEF old
    <3> QED
      BY <1>3, <2>2, <3>1, <3>2
  <2> QED
    BY <1>4, <2>1, <2>2, Zenon DEF ZLast
<1>6. d = [m \in DOMAIN d |-> d[m]]
  BY PartialDef
<1> HIDE DEF Of
<1> QED
  BY <1>1, <1>4, <1>5, <1>6, Zenon

LEMMA ZAddStep ==
    ASSUME IInv, req # NoRequest, ZADD
    PROVE  StepOK
<1> DEFINE n == Len(Pairs)
           b == Fresh("zset").dict
<1>1. ValOK(val) /\ req.op = "ZADD" /\ ArgsOK(req)
  BY RequestArgs, Zenon DEF IInv, ZADD, execute
<1>2. Pairs \in Seq(ScoredPair)
  BY <1>1, PairsType
<1>3. \/ Elsewhere \/ WrongType("zset")
      \/ Mine("zset") /\ \E o \in zadd_loop[n] :
            val' = o.z /\ IF o.ok THEN Count(o.n) ELSE Answer("-ERR not a float", 0, <<>>)
  BY Zenon DEF ZADD, execute, Elsewhere
<1>4. CASE WrongType("zset")
  BY <1>4, WrongTypeOK
<1>5. ASSUME Mine("zset"), NEW o \in zadd_loop[n], val' = o.z,
             IF o.ok THEN Count(o.n) ELSE Answer("-ERR not a float", 0, <<>>)
      PROVE  StepOK
  <2>1. /\ Fresh("zset") \in GoodZSets
        /\ Cardinality(DOMAIN b) = Elements(val)
    BY <1>1, <1>5, FreshOK, Zenon
  <2>2. ZAddDone(o, b, n)
    BY <1>2, <1>5, <2>1, ZAddResult, Zenon
  <2> HIDE DEF b, n
  <2>3. /\ ZGood(val') /\ val'.type = "zset" /\ val'.dict \in Partial(Member, Score)
        /\ o.n = Cardinality(DOMAIN val'.dict) - Elements(val)
    BY <1>5, <2>1, <2>2, Zenon DEF ZAddDone, ZAdded, GoodZSets, ZGood, ZSets
  <2>4. ValOK(val') /\ Elements(val') = Cardinality(DOMAIN val'.dict)
    BY <2>3, ElementsOf, Zenon DEF ValOK
  <2>5. CASE o.ok
    <3>1. req' = NoRequest /\ reply'.kind = ":" /\ reply'.n = o.n
      BY <1>5, <2>5, Answers, Zenon DEF Count
    <3>2. Counted
      BY <1>1, <2>3, <2>4, <3>1, Zenon DEF Counted
    <3> QED
      BY <2>4, <3>1, <3>2, ChangedOK, Zenon
  <2>6. CASE ~o.ok
    <3>1. req' = NoRequest /\ reply'.kind = "-ERR not a float"
      BY <1>5, <2>6, Answers, Zenon
    <3>2. PICK k \in 1 .. n : /\ Pairs[k][1] = Bad /\ \A j \in 1 .. k - 1 : Pairs[j][1] # Bad
                              /\ ZApplied(b, o.z.dict, k - 1)
      BY <2>2, <2>6, Zenon DEF ZAddDone
    <3>3. o.z.dict = UpToBad
      <4> DEFINE d == o.z.dict
      <4>1. d \in Partial(Member, Score)
        BY <1>5, <2>3, Zenon
      <4> HIDE DEF d
      <4>2. /\ k \in 1 .. Len(Pairs) /\ Pairs[k][1] = Bad /\ \A j \in 1 .. k - 1 : Pairs[j][1] # Bad
            /\ ZApplied(Fresh("zset").dict, d, k - 1)
        BY <3>2, Zenon DEF d, b, n
      <4>3. d = UpToBad
        BY <1>2, <4>1, <4>2, UpToBadIs
      <4> QED
        BY <4>3 DEF d
    <3> QED
      BY <1>5, <2>4, <3>1, <3>3, Zenon DEF StepOK, Counted, Refused
  <2> QED
    BY <2>5, <2>6
<1> QED
  BY <1>3, <1>4, <1>5, ElsewhereOK, Zenon

LEMMA ZRemStep ==
    ASSUME IInv, req # NoRequest, ZREM
    PROVE  StepOK
<1> DEFINE n == Len(req.args)
<1>1. ValOK(val) /\ req.op = "ZREM" /\ ArgsOK(req)
  BY RequestArgs, Zenon DEF IInv, ZREM, execute
<1>2. \/ Elsewhere \/ WrongType("zset")
      \/ Missing /\ Count(0)
      \/ val.type = "zset" /\ \E o \in zrem_loop[n] : val' = o.z /\ Count(o.n)
  BY Zenon DEF ZREM, execute, Elsewhere
<1>3. CASE WrongType("zset")
  BY <1>3, WrongTypeOK
<1>4. CASE Missing /\ Count(0)
  BY <1>1, <1>4, MissingOK
<1>5. ASSUME val.type = "zset", NEW o \in zrem_loop[n], val' = o.z, Count(o.n)
      PROVE  StepOK
  <2>1. val \in GoodZSets /\ Elements(val) = Cardinality(DOMAIN val.dict)
    BY <1>1, <1>5, ValTypes, ElementsOf, Zenon DEF GoodZSets, ZGood
  <2>2. ZRemDone(o, DOMAIN val.dict)
    BY <1>1, <1>5, <2>1, ZRemResult, Zenon DEF ArgsOK
  <2>3. /\ ZGood(val') /\ val'.type = "zset"
        /\ o.n = Elements(val) - Cardinality(DOMAIN val'.dict)
    BY <1>5, <2>1, <2>2, Zenon DEF ZRemDone, ZRemoved, GoodZSets, ZGood, ZSets
  <2>4. ValOK(val') /\ Elements(val') = Cardinality(DOMAIN val'.dict)
    BY <2>3, ElementsOf, Zenon DEF ValOK
  <2>5. req' = NoRequest /\ reply'.kind = ":" /\ reply'.n = o.n
    BY <1>5, Answers DEF Count
  <2>6. Counted
    BY <1>1, <2>3, <2>4, <2>5, Zenon DEF Counted
  <2> QED
    BY <2>4, <2>5, <2>6, ChangedOK, Zenon
<1> QED
  BY <1>2, <1>3, <1>4, <1>5, ElsewhereOK, Zenon

\* SET and DEL replace what is there, of whatever type.
LEMMA StringStep ==
    ASSUME IInv, req # NoRequest, SET \/ DEL
    PROVE  StepOK
<1>1. /\ req.op \in {"SET", "DEL"}
      /\ \/ Elsewhere
         \/ val' = String /\ Answer("+OK", 0, <<>>)
         \/ val' = Nothing /\ Count(IF val = Nothing THEN 0 ELSE 1)
  BY Zenon DEF SET, DEL, execute, Elsewhere
<1>2. CASE val' \in {String, Nothing} /\ req' = NoRequest /\ reply'.kind \in {":", "+OK"}
  <2>1. ValOK(val')
    BY <1>2, Zenon DEF ValOK
  <2>2. Counted
    BY <1>1 DEF Counted
  <2> QED
    BY <1>2, <2>1, <2>2, ChangedOK
<1> QED
  BY <1>1, <1>2, Answers, ElsewhereOK, Zenon DEF Count

\* Every command.
Commands ==
    \/ LPUSH \/ RPUSH \/ LPOP \/ RPOP \/ LRANGE \/ LLEN
    \/ SADD \/ SREM \/ SMEMBERS \/ SCARD
    \/ HSET \/ HGET \/ HGETALL \/ HDEL \/ HLEN
    \/ ZADD \/ ZREM \/ ZRANGE \/ ZCARD \/ ZSCORE
    \/ SET \/ GET \/ DEL

LEMMA CommandStep ==
    ASSUME IInv, Commands
    PROVE  req # NoRequest /\ StepOK
<1>1. req # NoRequest
  <2>1. NoRequest.op = "none"
    BY DEF NoRequest
  <2>2. req.op # "none"
    <3>1. CASE LPUSH \/ RPUSH \/ LPOP \/ RPOP
      BY <3>1, Zenon DEF LPUSH, RPUSH, LPOP, RPOP, execute
    <3>2. CASE SADD \/ SREM \/ HSET \/ HDEL
      BY <3>2, Zenon DEF SADD, SREM, HSET, HDEL, execute
    <3>3. CASE ZADD \/ ZREM \/ SET \/ DEL
      BY <3>3, Zenon DEF ZADD, ZREM, SET, DEL, execute
    <3>4. CASE \/ LRANGE \/ LLEN \/ SMEMBERS \/ SCARD \/ HGET \/ HGETALL \/ HLEN
               \/ ZRANGE \/ ZCARD \/ ZSCORE \/ GET
      BY <3>4, Reads
    <3> QED
      BY <3>1, <3>2, <3>3, <3>4 DEF Commands
  <2> QED
    BY <2>1, <2>2, Zenon
<1>2. CASE \/ LRANGE \/ LLEN \/ SMEMBERS \/ SCARD \/ HGET \/ HGETALL \/ HLEN
           \/ ZRANGE \/ ZCARD \/ ZSCORE \/ GET
  <2>1. req.op \notin Counters /\ (Elsewhere \/ Answered)
    BY <1>2, Reads, Zenon DEF Counters
  <2> QED
    BY <1>1, <2>1, ElsewhereOK, AnsweredOK
<1> QED
  BY <1>1, <1>2, PushStep, PopStep, SAddStep, SRemStep, HSetStep, HDelStep, ZAddStep, ZRemStep,
     StringStep DEF Commands

\* The invariant holds at the start, and every step keeps it, counts what it
\* says and leaves what an error says.
LEMMA InitInv == Init => IInv
BY Zenon DEF Init, IInv, ValOK

LEMMA NextInv ==
    ASSUME IInv, [Next]_vars
    PROVE  IInv' /\ [Counted /\ Refused]_vars
<1>1. CASE UNCHANGED vars
  <2>1. IInv' = IInv
    BY <1>1 DEF vars, IInv
  <2> QED
    BY <1>1, <2>1, Zenon
<1>2. CASE \E c \in Command, at \in {"owner", "other"} : receive(c, at)
  <2>1. PICK c \in Command, at \in {"owner", "other"} : receive(c, at)
    BY <1>2
  <2>2. /\ val' = val /\ reply' = NoReply
        /\ req' = [op |-> c.op, args |-> c.args, at |-> at]
        /\ c.op \in {"LPUSH", "RPUSH"} /\ val.type = "list" => Len(val.list) + Len(c.args) <= MaxLen
    BY <2>1, Zenon DEF receive
  <2>3. c = [op |-> c.op, args |-> c.args]
    BY DEF Command
  <2>4. ReqOK(val', req')
    BY <2>2, <2>3 DEF ReqOK
  <2>5. IInv'
    BY <2>2, <2>4 DEF IInv
  <2>6. reply'.kind = "none"
    BY <2>2, Zenon DEF NoReply
  <2> QED
    BY <2>5, <2>6 DEF Counted, Refused
<1>3. CASE deliver
  <2>1. val' = val /\ req' = req /\ reply' = NoReply
    BY <1>3 DEF deliver
  <2>2. IInv'
    BY <2>1 DEF IInv
  <2>3. reply'.kind = "none"
    BY <2>1 DEF NoReply
  <2> QED
    BY <2>2, <2>3 DEF Counted, Refused
<1>4. CASE Commands
  <2>1. req # NoRequest /\ StepOK
    BY <1>4, CommandStep
  <2>2. CASE req' = NoRequest
    BY <2>1, <2>2 DEF StepOK, IInv
  <2>3. CASE val' = val /\ forward_request
    <3>1. reply' = NoReply /\ ReqOK(val, req) /\ req' = [req EXCEPT !.at = "owner"]
      BY <2>1, <2>3, Zenon DEF IInv, forward_request
    <3>2. ReqOK(val', req')
      BY <2>3, <3>1 DEF ReqOK
    <3> QED
      BY <2>1, <2>3, <3>1, <3>2 DEF StepOK, IInv
  <2> QED
    BY <2>1, <2>2, <2>3 DEF StepOK
<1> QED
  BY <1>1, <1>2, <1>3, <1>4 DEF Next, Commands

LEMMA InvHolds == Spec => []IInv
<1>1. IInv /\ [Next]_vars => IInv'
  BY NextInv, Zenon
<1> QED
  BY InitInv, <1>1, PTL DEF Spec

-----------------------------------------------------------------------------
(* Theorems *)

\* The commands leave under the key a value of one of the alternatives of
\* storage::Value, with members and scores that a client gave, and a list
\* within its bound; there is a command or a reply, not both.
THEOREM TypeCorrect == Spec => []TypeOK
<1>1. IInv => TypeOK
  BY Zenon DEF IInv, ValOK, TypeOK, ZGood, ZSets
<1> QED
  BY InvHolds, <1>1, PTL

\* Tree and dictionary of a sorted set agree after any commands, for any
\* members and scores, as long as no NaN was given: ZSet::insert() finds the old
\* entry by the score in the dictionary, and std::set compares it with no other.
THEOREM HalvesAgree == Spec => []TreeMatchesDict
<1>1. IInv => TreeMatchesDict
  <2> SUFFICES ASSUME IInv, val.type = "zset", ~val.nan
               PROVE  val.tree = {<<val.dict[m], m>> : m \in DOMAIN val.dict}
    BY Zenon DEF TreeMatchesDict
  <2>1. ZGood(val)
    BY ValTypes, Zenon DEF IInv
  <2> QED
    BY <2>1, Zenon DEF ZGood, Together
<1> QED
  BY InvHolds, <1>1, PTL

\* SADD, SREM, HSET, HDEL, ZADD and ZREM answer with the number of elements by
\* which the collection grew or shrank, with any number of arguments, repeated
\* ones included, and when a NaN has broken the order of the tree too.
THEOREM CountsCorrect == Spec => CountsExact
<1>1. IInv /\ [Next]_vars => [Counted]_vars
  BY NextInv, Zenon
<1> QED
  BY InvHolds, <1>1, PTL DEF Spec, CountsExact

\* A refused command leaves the value as it was, and a ZADD refused for a score
\* leaves the pairs before that score, the last one for each member.
THEOREM RefusalsCorrect == Spec => ErrorsChangeNothing
<1>1. IInv /\ [Next]_vars => [Refused]_vars
  BY NextInv, Zenon
<1> QED
  BY InvHolds, <1>1, PTL DEF Spec, ErrorsChangeNothing

-----------------------------------------------------------------------------
(* Ranges *)

LEMMA Extremes ==
    ASSUME NEW a \in Int, NEW b \in Int
    PROVE  /\ Max({a, b}) = IF a >= b THEN a ELSE b
           /\ Min({a, b}) = IF a <= b THEN a ELSE b
<1>1. Max({a, b}) = IF a >= b THEN a ELSE b
  BY DEF Max
<1>2. Min({a, b}) = IF a <= b THEN a ELSE b
  BY DEF Min
<1> QED
  BY <1>1, <1>2

LEMMA LeastOfInterval ==
    ASSUME NEW a \in Int, NEW b \in Int, a <= b
    PROVE  Min(a .. b) = a
<1>1. a \in a .. b /\ \A y \in a .. b : a <= y
  OBVIOUS
<1>2. \A x \in a .. b : (\A y \in a .. b : x <= y) => x = a
  BY <1>1
<1> DEFINE S == a .. b
<1> HIDE DEF S
<1>3. Min(S) = a
  BY <1>1, <1>2 DEF Min, S
<1> QED
  BY <1>3 DEF S

\* The indexes of LRANGE and ZRANGE, brought within the sequence as the code
\* does it.
First(i, size) == IF i < 0 THEN Max({size + i, 0}) ELSE i
Last(i, size) == Min({First(i, size), size - 1})

\* They are the first and the last of the positions that are wanted.
LEMMA WantedIs ==
    ASSUME NEW size \in Nat, NEW a \in Int, NEW b \in Int
    PROVE  /\ First(a, size) \in Nat /\ Last(b, size) \in Int /\ Last(b, size) < size
           /\ Wanted(a, b, size) = First(a, size) .. Last(b, size)
<1> DEFINE start == First(a, size)
           end == First(b, size)
           stop == Last(b, size)
<1>1. /\ start = IF a < 0 THEN (IF size + a >= 0 THEN size + a ELSE 0) ELSE a
      /\ end = IF b < 0 THEN (IF size + b >= 0 THEN size + b ELSE 0) ELSE b
  BY Extremes DEF First
<1>2. start \in Nat /\ end \in Nat
  BY <1>1
<1>3. Max({Position(b, size), 0}) = end
  <2>1. Position(b, size) \in Int
    BY DEF Position
  <2>2. Max({Position(b, size), 0}) = IF Position(b, size) >= 0 THEN Position(b, size) ELSE 0
    BY <2>1, Extremes
  <2> QED
    BY <1>1, <2>2 DEF Position
<1>4. stop = IF end <= size - 1 THEN end ELSE size - 1
  <2> DEFINE l == size - 1
  <2>1. end \in Int /\ l \in Int /\ stop = Min({end, l})
    BY <1>2 DEF Last
  <2> HIDE DEF end, stop, l
  <2>2. Min({end, l}) = IF end <= l THEN end ELSE l
    BY <2>1, Extremes, Zenon
  <2> QED
    BY <2>1, <2>2 DEF l
<1>5. \A i \in 0 .. size - 1 : Position(a, size) <= i <=> start <= i
  BY <1>1 DEF Position
<1> HIDE DEF start, end, stop
<1>6. stop \in Int /\ stop < size
  BY <1>2, <1>4
<1>7. Wanted(a, b, size) = {i \in 0 .. size - 1 : start <= i /\ i <= end}
  BY <1>3, <1>5 DEF Wanted
<1>8. {i \in 0 .. size - 1 : start <= i /\ i <= end} = start .. stop
  BY <1>2, <1>4, <1>6
<1> QED
  BY <1>2, <1>6, <1>7, <1>8, Zenon DEF start, stop

LEMMA SubSeqIs ==
    ASSUME NEW S, NEW s \in Seq(S), NEW x \in 1 .. Len(s), NEW y \in x .. Len(s)
    PROVE  /\ SubSeq(s, x, y) \in Seq(S) /\ Len(SubSeq(s, x, y)) = y - x + 1
           /\ \A i \in 1 .. y - x + 1 : SubSeq(s, x, y)[i] = s[x + i - 1]
<1>1. x \in Int /\ y \in Int /\ x <= y /\ \A i \in x .. y : s[i] \in S
  OBVIOUS
<1>2. /\ SubSeq(s, x, y) \in Seq(S)
      /\ Len(SubSeq(s, x, y)) = IF x <= y THEN y - x + 1 ELSE 0
      /\ \A i \in 1 .. y - x + 1 : SubSeq(s, x, y)[i] = s[x + i - 1]
  BY <1>1, SubSeqProperties
<1> QED
  BY <1>1, <1>2, Zenon

\* What LRANGE and ZRANGE take from a sequence.
Taken(r, s, W) ==
    /\ DOMAIN r = 1 .. Len(r) /\ r = [n \in 1 .. Len(r) |-> r[n]] /\ Len(r) = Cardinality(W)
    /\ \A n \in 1 .. Len(r) : n + Min(W) \in 1 .. Len(s) /\ r[n] = s[n + Min(W)] /\ Min(W) \in Int

LEMMA RangeIs ==
    ASSUME NEW S, NEW s \in Seq(S), NEW a \in Int, NEW b \in Int
    PROVE  Taken(Range_(s, a, b), s, Wanted(a, b, Len(s)))
<1> DEFINE r == Range_(s, a, b)
           W == Wanted(a, b, Len(s))
<1> SUFFICES /\ r \in Seq(S) /\ Len(r) = Cardinality(W)
             /\ \A n \in 1 .. Len(r) : /\ n + Min(W) \in 1 .. Len(s) /\ r[n] = s[n + Min(W)]
                                       /\ Min(W) \in Int
  <2> HIDE DEF r, W
  <2>1. ASSUME r \in Seq(S) PROVE DOMAIN r = 1 .. Len(r) /\ r = [n \in 1 .. Len(r) |-> r[n]]
    BY <2>1
  <2> QED
    BY <2>1, Zenon DEF Taken, r, W
<1> DEFINE size == Len(s)
           start == First(a, size)
           stop == Last(b, size)
<1>1. size \in Nat
  OBVIOUS
<1>2. r = IF start >= size \/ start > stop THEN <<>> ELSE SubSeq(s, start + 1, stop + 1)
  BY DEF Range_, First, Last
<1>3. start \in Nat /\ stop \in Int /\ stop < size /\ W = start .. stop
  BY <1>1, WantedIs, Zenon
<1> HIDE DEF start, stop, r, W
<1>4. Cardinality(W) = IF start > stop THEN 0 ELSE stop - start + 1
  BY <1>3, FS_Interval
<1>5. CASE start > stop
  BY <1>2, <1>3, <1>4, <1>5
<1>6. CASE start <= stop
  <2> DEFINE x == start + 1
             y == stop + 1
  <2>1. r = SubSeq(s, x, y) /\ x \in 1 .. Len(s) /\ y \in x .. Len(s)
    BY <1>1, <1>2, <1>3, <1>6
  <2>2. r \in Seq(S) /\ Len(r) = y - x + 1 /\ \A n \in 1 .. y - x + 1 : r[n] = s[x + n - 1]
    <3> HIDE DEF x, y
    <3> QED
      BY <2>1, SubSeqIs, Zenon
  <2>3. y - x + 1 = stop - start + 1 /\ \A n \in Int : x + n - 1 = n + start
    BY <1>3
  <2>4. Min(W) = start
    BY <1>3, <1>6, LeastOfInterval
  <2>5. ASSUME NEW n \in 1 .. Len(r) PROVE n + start \in 1 .. Len(s) /\ r[n] = s[n + start]
    <3>1. n \in 1 .. y - x + 1 /\ n \in Int /\ n \in 1 .. stop - start + 1
      BY <1>3, <2>2, <2>3
    <3>2. n + start \in 1 .. Len(s)
      BY <1>1, <1>3, <3>1
    <3>3. x + n - 1 = n + start
      BY <2>3, <3>1, Zenon
    <3>4. r[n] = s[x + n - 1]
      BY <2>2, <3>1, Zenon
    <3> QED
      BY <3>2, <3>3, <3>4, Zenon
  <2> QED
    BY <1>3, <1>4, <1>6, <2>2, <2>3, <2>4, <2>5
<1> QED
  BY <1>3, <1>5, <1>6

-----------------------------------------------------------------------------
(* The order of a tree *)

\* R orders the elements of S.
Orders(R, S) ==
    /\ \A x \in S : <<x, x>> \notin R
    /\ \A x, y \in S : x # y => <<x, y>> \in R \/ <<y, x>> \in R
    /\ \A x, y, z \in S : <<x, y>> \in R /\ <<y, z>> \in R => <<x, z>> \in R

\* How many come before x.
Rank(S, R, x) == Cardinality({y \in S : <<y, x>> \in R})

LEMMA Ranks ==
    ASSUME NEW S, IsFiniteSet(S), NEW R, Orders(R, S)
    PROVE  /\ \A x \in S : Rank(S, R, x) \in 0 .. Cardinality(S) - 1
           /\ \A x, y \in S : <<x, y>> \in R => Rank(S, R, x) < Rank(S, R, y)
<1> DEFINE B(x) == {y \in S : <<y, x>> \in R}
<1>1. \A x : Rank(S, R, x) = Cardinality(B(x)) /\ B(x) \in SUBSET S
  BY Zenon DEF Rank
<1>2. \A x \in S : x \notin B(x)
  BY Zenon DEF Orders
<1>3. \A x, y \in S : <<x, y>> \in R => B(x) \in SUBSET B(y) /\ x \in B(y)
  BY Zenon DEF Orders
<1> HIDE DEF B
<1>4. Cardinality(S) \in Nat /\ \A x : IsFiniteSet(B(x)) /\ Cardinality(B(x)) \in Nat
  BY <1>1, FS_CardinalityType, FS_Subset
<1>5. ASSUME NEW x \in S PROVE Rank(S, R, x) \in 0 .. Cardinality(S) - 1
  <2>1. B(x) # S /\ B(x) \in SUBSET S
    BY <1>1, <1>2, Zenon
  <2>2. Cardinality(B(x)) <= Cardinality(S) /\ Cardinality(B(x)) # Cardinality(S)
    BY <2>1, FS_Subset
  <2> QED
    BY <1>1, <1>4, <2>2
<1>6. ASSUME NEW x \in S, NEW y \in S, <<x, y>> \in R PROVE Rank(S, R, x) < Rank(S, R, y)
  <2>1. B(x) # B(y) /\ B(x) \in SUBSET B(y) /\ IsFiniteSet(B(y))
    BY <1>2, <1>3, <1>4, <1>6, Zenon
  <2>2. Cardinality(B(x)) <= Cardinality(B(y)) /\ Cardinality(B(x)) # Cardinality(B(y))
    BY <2>1, FS_Subset, Zenon
  <2> QED
    BY <1>1, <1>4, <2>2
<1> QED
  BY <1>5, <1>6, Zenon

\* As many numbers in ascending order as there are below n.
LEMMA AllInOrder ==
    ASSUME NEW n \in Nat, NEW f \in [1 .. n -> 0 .. n - 1],
           \A i, j \in 1 .. n : i < j => f[i] < f[j]
    PROVE  \A k \in 1 .. n : f[k] = k - 1
<1>0. \A k \in 1 .. n : f[k] \in 0 .. n - 1
  BY Zenon
<1>1. \A k \in 1 .. n : f[k] >= k - 1
  <2> DEFINE low == {k \in 1 .. n : f[k] < k - 1}
  <2> SUFFICES ASSUME low # {} PROVE FALSE
    <3>1. ASSUME NEW k \in 1 .. n, ~(f[k] >= k - 1) PROVE k \in low
      BY <1>0, <3>1
    <3> QED
      BY <3>1, Zenon
  <2>1. low \in SUBSET Nat
    OBVIOUS
  <2>2. PICK k \in low : \A j \in low : k <= j
    <3> HIDE DEF low
    <3> QED
      BY <2>1, LeastNat
  <2>3. k - 1 \in 1 .. n /\ f[k - 1] < f[k]
    BY <1>0, <2>2
  <2>4. f[k - 1] \in Int /\ f[k] \in Int /\ f[k] < k - 1
    BY <1>0, <2>2, <2>3
  <2>5. f[k - 1] < (k - 1) - 1
    BY <2>3, <2>4
  <2>6. k - 1 \in low
    BY <2>3, <2>5, Zenon
  <2> QED
    BY <2>2, <2>6
<1>2. \A k \in 1 .. n : f[k] <= k - 1
  <2> DEFINE high == {j \in 0 .. n - 1 : f[n - j] > n - j - 1}
  <2> SUFFICES ASSUME high # {} PROVE FALSE
    <3>1. ASSUME NEW k \in 1 .. n, ~(f[k] <= k - 1) PROVE n - k \in high
      <4>1. n - k \in 0 .. n - 1 /\ n - (n - k) = k /\ f[k] > k - 1
        BY <1>0, <3>1
      <4> QED
        BY <4>1
    <3> QED
      BY <3>1, Zenon
  <2>1. high \in SUBSET Nat
    OBVIOUS
  <2>2. PICK j \in high : \A i \in high : j <= i
    <3> HIDE DEF high
    <3> QED
      BY <2>1, LeastNat
  <2> DEFINE k == n - j
  <2>3. k \in 1 .. n /\ f[k] > k - 1 /\ f[k] \in 0 .. n - 1
    BY <1>0, <2>2
  <2>4. k + 1 \in 1 .. n /\ f[k] < f[k + 1] /\ f[k + 1] \in 0 .. n - 1
    BY <1>0, <2>3
  <2>5. j - 1 \in 0 .. n - 1 /\ n - (j - 1) = k + 1 /\ f[k + 1] > (k + 1) - 1
    BY <2>2, <2>3, <2>4
  <2>6. j - 1 \in high
    BY <2>5, Zenon
  <2> HIDE DEF high
  <2> QED
    BY <2>1, <2>2, <2>6
<1> QED
  BY <1>0, <1>1, <1>2

\* InOrder puts every element where as many come before it as there are.
ByRank(s, S, R) ==
    /\ s \in [1 .. Cardinality(S) -> S]
    /\ \A k \in 1 .. Cardinality(S) : Rank(S, R, s[k]) = k - 1
    /\ \A x, y \in S : Rank(S, R, x) = Rank(S, R, y) => x = y

LEMMA Sorted ==
    ASSUME NEW S, IsFiniteSet(S), NEW R, Orders(R, S)
    PROVE  ByRank(InOrder(S, R), S, R)
<1> DEFINE s == InOrder(S, R)
           n == Cardinality(S)
           T == 0 .. n - 1
           rank == [x \in S |-> Rank(S, R, x)]
<1>1. /\ n \in Nat /\ rank \in [S -> T]
      /\ \A x, y \in S : <<x, y>> \in R => Rank(S, R, x) < Rank(S, R, y)
  BY FS_CardinalityType, Ranks, Zenon
<1>2. \A x \in S : rank[x] = Rank(S, R, x) /\ rank[x] \in Int
  BY <1>1
<1>3. \A x, y \in S : rank[x] = rank[y] => x = y
  <2> SUFFICES ASSUME NEW x \in S, NEW y \in S, rank[x] = rank[y], x # y PROVE FALSE
    BY Zenon
  <2>1. <<x, y>> \in R \/ <<y, x>> \in R
    BY Zenon DEF Orders
  <2>2. rank[x] < rank[y] \/ rank[y] < rank[x]
    BY <1>1, <1>2, <2>1, Zenon
  <2> HIDE DEF rank
  <2> QED
    BY <1>2, <2>2
<1>4. \A x, y \in S : <<x, y>> \in R => rank[x] < rank[y]
  BY <1>1, <1>2, Zenon
<1>5. IsFiniteSet(T) /\ Cardinality(T) = n
  BY <1>1, FS_Interval
<1> HIDE DEF n, rank, T
<1>6. \A k \in T : \E x \in S : rank[x] = k
  <2>1. rank \in Injection(S, T)
    BY <1>1, <1>3, Zenon DEF Injection, IsInjective
  <2>2. rank \in Surjection(S, T)
    BY <1>5, <2>1, FS_Injection, Zenon DEF n
  <2> QED
    BY <2>2, Zenon DEF Surjection
<1> HIDE DEF s
<1>7. \E t \in [1 .. n -> S] : \A i, j \in DOMAIN t : i < j => <<t[i], t[j]>> \in R
  <2> DEFINE t == [k \in 1 .. n |-> CHOOSE x \in S : rank[x] = k - 1]
  <2>1. \A k \in 1 .. n : k - 1 \in T
    BY <1>1 DEF T
  <2>2. \A k \in 1 .. n : t[k] \in S /\ rank[t[k]] = k - 1
    BY <1>6, <2>1, Zenon
  <2>3. t \in [1 .. n -> S] /\ DOMAIN t = 1 .. n
    BY <2>2, Zenon
  <2> HIDE DEF t
  <2>4. ASSUME NEW i \in 1 .. n, NEW j \in 1 .. n, i < j PROVE <<t[i], t[j]>> \in R
    <3>1. t[i] \in S /\ t[j] \in S /\ rank[t[i]] = i - 1 /\ rank[t[j]] = j - 1
      BY <2>2, Zenon
    <3>2. t[i] # t[j] /\ ~(rank[t[j]] < rank[t[i]])
      BY <2>4, <3>1
    <3> QED
      BY <1>4, <3>1, <3>2, Zenon DEF Orders
  <2> QED
    BY <2>3, <2>4, Zenon
<1>8. s \in [1 .. n -> S] /\ \A i, j \in 1 .. n : i < j => <<s[i], s[j]>> \in R
  <2>1. s = CHOOSE t \in [1 .. n -> S] : \A i, j \in DOMAIN t : i < j => <<t[i], t[j]>> \in R
    BY Zenon DEF InOrder, n, s
  <2>2. s \in [1 .. n -> S] /\ \A i, j \in DOMAIN s : i < j => <<s[i], s[j]>> \in R
    BY <1>7, <2>1, Zenon
  <2>3. DOMAIN s = 1 .. n
    BY <2>2, Zenon
  <2> QED
    BY <2>2, <2>3, Zenon
<1>9. \A k \in 1 .. n : rank[s[k]] = k - 1
  <2> DEFINE f == [k \in 1 .. n |-> rank[s[k]]]
  <2>1. f \in [1 .. n -> 0 .. n - 1]
    BY <1>1, <1>8, Zenon DEF T
  <2>2. \A i, j \in 1 .. n : i < j => f[i] < f[j]
    BY <1>4, <1>8, Zenon
  <2>3. \A k \in 1 .. n : f[k] = rank[s[k]]
    BY Zenon
  <2> HIDE DEF f
  <2>4. \A k \in 1 .. n : f[k] = k - 1
    BY <1>1, <2>1, <2>2, AllInOrder, Zenon
  <2> QED
    BY <2>3, <2>4, Zenon
<1> QED
  BY <1>2, <1>3, <1>8, <1>9, Zenon DEF ByRank, n, s

\* ZSetEntry::operator< orders a tree without NaN.
Before(z) == {p \in z.tree \X z.tree : Less(p[1], p[2])}

LEMMA TreeOrdered ==
    ASSUME NEW z, ZGood(z), ~z.nan
    PROVE  /\ Orders(Before(z), z.tree)
           /\ \A x, y \in z.tree : <<x, y>> \in Before(z) <=> Less(x, y)
<1> DEFINE T == z.tree
<1>1. T \in SUBSET (Score \X Member) /\ \A x \in T : x[1] # NaN
  BY DEF ZGood, ZSets, Together
<1>2. \A x \in T : x[1] \in Int /\ x[2] \in Int /\ x[1] # NaN /\ x = <<x[1], x[2]>>
  BY <1>1, ScoreAssumption, MemberAssumption
<1>3. \A x, y \in T : <<x, y>> \in Before(z) <=> Less(x, y)
  BY Zenon DEF Before
<1>4. \A x, y \in T : Less(x, y) <=> x[1] < y[1] \/ (x[1] = y[1] /\ x[2] < y[2])
  BY <1>2 DEF Less
<1> HIDE DEF T
<1>5. \A x \in T : ~Less(x, x)
  BY <1>2, <1>4
<1>6. \A x, y \in T : x # y => Less(x, y) \/ Less(y, x)
  <2> SUFFICES ASSUME NEW x \in T, NEW y \in T, ~Less(x, y), ~Less(y, x) PROVE x = y
    BY Zenon
  <2>1. x[1] = y[1] /\ x[2] = y[2]
    BY <1>2, <1>4
  <2> QED
    BY <1>2, <2>1
<1>7. \A x, y, w \in T : Less(x, y) /\ Less(y, w) => Less(x, w)
  <2> SUFFICES ASSUME NEW x \in T, NEW y \in T, NEW w \in T, Less(x, y), Less(y, w)
               PROVE  Less(x, w)
    BY Zenon
  <2>1. /\ x[1] < y[1] \/ (x[1] = y[1] /\ x[2] < y[2])
        /\ y[1] < w[1] \/ (y[1] = w[1] /\ y[2] < w[2])
    BY <1>4, Zenon
  <2>2. x[1] < w[1] \/ (x[1] = w[1] /\ x[2] < w[2])
    BY <1>2, <2>1
  <2> QED
    BY <1>4, <2>2, Zenon
<1> QED
  BY <1>3, <1>5, <1>6, <1>7, Zenon DEF Orders, T

\* A walk through a tree meets every element, and without NaN each of them after
\* all the smaller ones.
LEMMA WalkIs ==
    ASSUME NEW z, ZGood(z), NEW s, s = Walk(z)
    PROVE  /\ Cardinality(z.tree) \in Nat /\ Len(s) = Cardinality(z.tree)
           /\ s \in Seq(z.tree \cup {NaN})
           /\ ~z.nan => \A k \in 1 .. Len(s) : ElementAt(z, k - 1) = s[k]
<1> DEFINE T == z.tree
           n == Cardinality(T)
<1>1. z.type = "zset" /\ z.nan \in BOOLEAN /\ IsFiniteSet(T) /\ n \in Nat
  BY FS_CardinalityType, Zenon DEF ZGood, ZSets
<1>2. CASE z.nan
  <2>1. s = [i \in 1 .. n |-> NaN]
    BY <1>2, Zenon DEF Walk
  <2>2. s \in [1 .. n -> T \cup {NaN}]
    BY <2>1
  <2> HIDE DEF n
  <2>3. Len(s) = n /\ s \in Seq(T \cup {NaN})
    BY <1>1, <2>2
  <2>4. ~z.nan => \A k \in 1 .. Len(s) : ElementAt(z, k - 1) = s[k]
    BY <1>2
  <2> QED
    BY <1>1, <2>3, <2>4, Zenon DEF n
<1>3. CASE ~z.nan
  <2>1. s = InOrder(T, Before(z))
    BY <1>3, Zenon DEF Walk, Before
  <2>2. Orders(Before(z), T) /\ \A x, y \in T : <<x, y>> \in Before(z) <=> Less(x, y)
    BY <1>3, TreeOrdered, Zenon
  <2>3. /\ s \in [1 .. n -> T] /\ \A k \in 1 .. n : Rank(T, Before(z), s[k]) = k - 1
        /\ \A x, y \in T : Rank(T, Before(z), x) = Rank(T, Before(z), y) => x = y
    <3>1. ByRank(s, T, Before(z))
      BY <1>1, <2>1, <2>2, Sorted, Zenon
    <3> QED
      BY <3>1, Zenon DEF ByRank
  <2>4. \A e \in T : Cardinality({x \in T : Less(x, e)}) = Rank(T, Before(z), e)
    <3> TAKE e \in T
    <3>1. {x \in T : Less(x, e)} = {x \in T : <<x, e>> \in Before(z)}
      BY <2>2, Zenon
    <3> QED
      BY <3>1, Zenon DEF Rank
  <2>5. ASSUME NEW k \in 1 .. n PROVE ElementAt(z, k - 1) = s[k]
    <3>1. s[k] \in T /\ Rank(T, Before(z), s[k]) = k - 1
      BY <2>3, Zenon
    <3>2. ElementAt(z, k - 1) = CHOOSE e \in T : Cardinality({x \in T : Less(x, e)}) = k - 1
      BY <1>1, Zenon DEF ElementAt
    <3>3. \A e \in T : Cardinality({x \in T : Less(x, e)}) = k - 1 <=> e = s[k]
      BY <2>3, <2>4, <3>1, Zenon
    <3> QED
      BY <3>1, <3>2, <3>3, Zenon
  <2> HIDE DEF n
  <2>6. s \in [1 .. n -> T \cup {NaN}]
    BY <2>3, Zenon
  <2>7. Len(s) = n /\ s \in Seq(T \cup {NaN})
    BY <1>1, <2>6
  <2> QED
    BY <1>1, <2>5, <2>7, Zenon DEF n
<1> QED
  BY <1>1, <1>2, <1>3, Zenon

\* The indexes that LRANGE and ZRANGE are given, if they can be read.
LEMMA RangeArgs ==
    ASSUME ReqOK(val, req), req.op \in {"LRANGE", "ZRANGE"}, Len(req.args) >= 2,
           Bad \notin {req.args[1], req.args[2]}
    PROVE  req.args[1] \in Int /\ req.args[2] \in Int
<1> DEFINE S == Indexes \cup {Bad}
           A == {<<i, j, o>> : i, j \in Indexes, o \in {"WITHSCORES", "?"}}
<1>1. req.args \in Words(S, {0, 1, 2}) \cup A
  BY DEF ReqOK, Command
<1>2. CASE req.args \in Words(S, {0, 1, 2})
  <2>1. PICK n \in {0, 1, 2} : req.args \in [1 .. n -> S]
    BY <1>2, Zenon DEF Words
  <2>2. n = 2
    BY <2>1
  <2>3. req.args[1] \in S /\ req.args[2] \in S
    BY <2>1, <2>2
  <2> QED
    BY <2>3, IndexAssumption, Zenon
<1>3. CASE req.args \in A
  <2>1. req.args[1] \in Indexes /\ req.args[2] \in Indexes
    BY <1>3
  <2> QED
    BY <2>1, IndexAssumption, Zenon
<1> QED
  BY <1>1, <1>2, <1>3

\* How an array with elements is not answered.
LEMMA Starred ==
    ASSUME reply = NoReply, val # Nothing, reply'.kind = "*"
    PROVE  /\ ~forward_request /\ ~NotAnInteger /\ ~Missing /\ (\A type : ~WrongType(type))
           /\ ~Answer("-ERR wrong number", 0, <<>>)
<1>1. \A kind, n, items : Answer(kind, n, items) => kind = "*"
  BY Answers, Zenon
<1>2. ~forward_request
  BY DEF forward_request, NoReply
<1>3. ~NotAnInteger /\ ~Answer("-ERR wrong number", 0, <<>>)
  BY <1>1, Zenon DEF NotAnInteger
<1>4. \A type : ~WrongType(type)
  BY <1>1, Zenon DEF WrongType
<1> QED
  BY <1>2, <1>3, <1>4, Zenon DEF Missing

LEMMA LRangeStep ==
    ASSUME IInv, LRANGE
    PROVE  Ranged
<1> DEFINE s == val.list
           a == req.args[1]
           b == req.args[2]
           W == Wanted(a, b, Len(s))
           r == reply'.items
<1> SUFFICES ASSUME reply'.kind = "*", val # Nothing PROVE Ranged
  BY Zenon DEF Ranged
<1>1. req.op = "LRANGE" /\ ReqOK(val, req) /\ ValOK(val) /\ reply = NoReply
  <2>1. req.op = "LRANGE" /\ NoRequest.op = "none"
    BY Reads, Zenon DEF NoRequest
  <2> QED
    BY <2>1 DEF IInv
<1>2. /\ val.type = "list" /\ Size = 4 /\ Bad \notin {a, b} /\ r = Range_(s, a, b)
  <2>1. /\ val.type = "list" /\ Size = 4 /\ Bad \notin {a, b} /\ Array(Range_(s, a, b))
    BY <1>1, Starred, Zenon DEF LRANGE, execute
  <2> QED
    BY <2>1, Zenon DEF Array, Answer
<1>3. s \in Seq(Member)
  BY <1>1, <1>2, ValTypes, ListType, Zenon
<1>4. a \in Int /\ b \in Int
  <2>1. Len(req.args) >= 2
    BY <1>2 DEF Size
  <2> QED
    BY <1>1, <1>2, <2>1, RangeArgs, Zenon
<1> HIDE DEF a, b, s, r
<1>5. Taken(r, s, W)
  BY <1>2, <1>3, <1>4, RangeIs, Zenon
<1> HIDE DEF W
<1>6. /\ DOMAIN r = 1 .. Len(r) /\ r = [n \in 1 .. Len(r) |-> r[n]] /\ Len(r) = Cardinality(W)
      /\ \A n \in 1 .. Len(r) : r[n] = s[n + Min(W)] /\ Min(W) \in Int
  BY <1>5, Zenon DEF Taken
<1>7. ASSUME NEW n \in 1 .. Len(r) PROVE r[n] = ElementAt(val, n - 1 + Min(W))
  <2>1. n - 1 + Min(W) + 1 = n + Min(W)
    BY <1>6
  <2>2. ElementAt(val, n - 1 + Min(W)) = s[n - 1 + Min(W) + 1]
    BY <1>2, Zenon DEF ElementAt, s
  <2> QED
    BY <1>6, <2>1, <2>2, Zenon
<1>8. r = [n \in 1 .. Len(r) |-> ElementAt(val, n - 1 + Min(W))]
  BY <1>6, <1>7, Zenon
<1> QED
  BY <1>2, <1>6, <1>8, Zenon DEF Ranged, W, a, b, s, r

LEMMA ZRangeStep ==
    ASSUME IInv, ZRANGE
    PROVE  Ranged
<1> DEFINE s == Walk(val)
           size == Cardinality(val.tree)
           a == req.args[1]
           b == req.args[2]
           W == Wanted(a, b, size)
           r == reply'.items
<1> SUFFICES ASSUME reply'.kind = "*", val # Nothing PROVE Ranged
  BY Zenon DEF Ranged
<1>1. req.op = "ZRANGE" /\ ReqOK(val, req) /\ ValOK(val) /\ reply = NoReply
  <2>1. req.op = "ZRANGE" /\ NoRequest.op = "none"
    BY Reads, Zenon DEF NoRequest
  <2> QED
    BY <2>1, Zenon DEF IInv
<1>2. /\ val.type = "zset" /\ Size >= 4 /\ Bad \notin {a, b} /\ r = Range_(s, a, b)
  <2>1. /\ val.type = "zset" /\ Size >= 4 /\ Bad \notin {a, b}
        /\ \E n : Answer("*", n, Range_(s, a, b))
    BY <1>1, Starred, Zenon DEF ZRANGE, execute
  <2> QED
    BY <2>1 DEF Answer
<1>3. ZGood(val)
  BY <1>1, <1>2, ValTypes, Zenon
<1>4. a \in Int /\ b \in Int
  <2>1. Len(req.args) >= 2
    <3>1. ArgsOK(req)
      BY <1>1, RequestArgs, Zenon
    <3> QED
      BY <1>1, <1>2, <3>1 DEF Size, ReqOK, Command
  <2> QED
    BY <1>1, <1>2, <2>1, RangeArgs, Zenon
<1> HIDE DEF a, b, s, r
<1>5. /\ size \in Nat /\ Len(s) = size /\ s \in Seq(val.tree \cup {NaN})
      /\ ~val.nan => \A k \in 1 .. Len(s) : ElementAt(val, k - 1) = s[k]
  BY <1>3, WalkIs, Zenon DEF s
<1>6. Taken(r, s, W)
  BY <1>2, <1>4, <1>5, RangeIs, Zenon
<1> HIDE DEF W, size
<1>7. /\ DOMAIN r = 1 .. Len(r) /\ r = [n \in 1 .. Len(r) |-> r[n]] /\ Len(r) = Cardinality(W)
      /\ \A n \in 1 .. Len(r) : n + Min(W) \in 1 .. Len(s) /\ r[n] = s[n + Min(W)] /\ Min(W) \in Int
  BY <1>6, Zenon DEF Taken
<1>8. ASSUME ~val.nan PROVE r = [n \in 1 .. Len(r) |-> ElementAt(val, n - 1 + Min(W))]
  <2>1. ASSUME NEW n \in 1 .. Len(r) PROVE r[n] = ElementAt(val, n - 1 + Min(W))
    <3>1. n - 1 + Min(W) = (n + Min(W)) - 1
      BY <1>7
    <3> QED
      BY <1>5, <1>7, <1>8, <3>1, Zenon
  <2> QED
    BY <1>7, <2>1, Zenon
<1>9. val.type # "list"
  BY <1>2, Zenon
<1> QED
  BY <1>7, <1>8, <1>9, Zenon DEF Ranged, W, a, b, r, size

\* No other step answers LRANGE or ZRANGE.
LEMMA NextRanged ==
    ASSUME IInv, [Next]_vars
    PROVE  [Ranged]_vars
<1> SUFFICES ASSUME Next, reply'.kind = "*", req.op \in {"LRANGE", "ZRANGE"} PROVE Ranged
  BY Zenon DEF Ranged
<1>1. \A c, at : ~receive(c, at)
  <2>1. NoRequest.op = "none"
    BY Zenon DEF NoRequest
  <2> QED
    BY <2>1, Zenon DEF receive
<1>2. ~deliver
  BY DEF deliver, NoReply
<1>3. ~(LPUSH \/ RPUSH \/ LPOP \/ RPOP \/ SADD \/ SREM \/ HSET \/ HDEL \/ ZADD \/ ZREM \/ SET \/ DEL)
  BY Zenon DEF LPUSH, RPUSH, LPOP, RPOP, SADD, SREM, HSET, HDEL, ZADD, ZREM, SET, DEL, execute
<1>4. ~(LLEN \/ SMEMBERS \/ SCARD \/ HGET \/ HGETALL \/ HLEN \/ ZCARD \/ ZSCORE \/ GET)
  BY Reads
<1>5. LRANGE \/ ZRANGE
  BY <1>1, <1>2, <1>3, <1>4, Zenon DEF Next
<1> QED
  BY <1>5, LRangeStep, ZRangeStep, Zenon

\* LRANGE and ZRANGE answer, for any value and any two indexes, with exactly the
\* elements at the positions from the one to the other, negative ones counted
\* from the end; those of a sorted set without NaN by score and then by member.
THEOREM RangesCorrect == Spec => RangeReference
<1>1. IInv /\ [Next]_vars => [Ranged]_vars
  BY NextRanged, Zenon
<1> QED
  BY InvHolds, <1>1, PTL DEF Spec, RangeReference

=============================================================================
