----------------------------- MODULE RouterProofs -----------------------------
(***************************************************************************)
(* Proofs about Router for every hash function, number of shards, number   *)
(* of virtual nodes and width of the hash.                                 *)
(***************************************************************************)
EXTENDS Router, WellFoundedInduction, TLAPS

-----------------------------------------------------------------------------
(* The lookup *)

\* Every non-empty set of natural numbers has a least element: the entry
\* that lower_bound returns.
LEMMA LeastNat ==
    ASSUME NEW S \in SUBSET Nat, S # {}
    PROVE  \E x \in S : \A y \in S : x <= y
<1>1. PICK x \in S : \A y \in S : ~(<<y, x>> \in OpToRel(<, Nat))
  BY NatLessThanWellFounded, WFMin, Zenon
<1>2. \A y \in S : <<y, x>> \in OpToRel(<, Nat) <=> y < x
  BY Zenon DEF OpToRel
<1>3. \A y \in S : ~(y < x)
  BY <1>1, <1>2, Zenon
<1> QED
  BY <1>3, SMT

\* Least picks a least element, and there is only one.
LEMMA LeastFacts ==
    ASSUME NEW S \in SUBSET Nat, S # {}
    PROVE  /\ Least(S) \in S
           /\ \A y \in S : Least(S) <= y
           /\ \A x \in S : (\A y \in S : x <= y) => x = Least(S)
<1>1. \E x \in S : \A y \in S : x <= y
  BY LeastNat
<1>2. Least(S) \in S /\ \A y \in S : Least(S) <= y
  BY <1>1 DEF Least
<1>3. ASSUME NEW x \in S, \A y \in S : x <= y PROVE x = Least(S)
  <2>1. x <= Least(S) /\ Least(S) <= x /\ x \in Nat /\ Least(S) \in Nat
    BY <1>2, <1>3
  <2> QED
    BY <2>1
<1> QED
  BY <1>2, <1>3

\* lower_bound with wrap-around lands on an entry of a non-empty ring.
LEMMA LowerBoundIn ==
    ASSUME NEW r, NEW h \in Nat, DOMAIN r \in SUBSET Nat, DOMAIN r # {}
    PROVE  LowerBound(r, h) \in DOMAIN r
<1> DEFINE after == {x \in DOMAIN r : x >= h}
<1>1. CASE after # {}
  <2>1. Least(after) \in after
    BY <1>1, LeastFacts
  <2> QED
    BY <1>1, <2>1 DEF LowerBound
<1>2. CASE after = {}
  <2>1. Least(DOMAIN r) \in DOMAIN r
    BY LeastFacts
  <2> QED
    BY <1>2, <2>1 DEF LowerBound
<1> QED
  BY <1>1, <1>2

\* One more virtual node, of shard s, takes hashes over or leaves them alone.
LEMMA PlacedMoves ==
    ASSUME NEW r, NEW h \in Nat, NEW n \in Nat, NEW s,
           DOMAIN r \in SUBSET Nat, DOMAIN r # {}, num_shards # 0
    PROVE  get_shard_id(Placed(r, n, s), h) \in {get_shard_id(r, h), s}
<1> DEFINE q == Placed(r, n, s)
           after(f) == {x \in DOMAIN f : x >= h}
<1>1. /\ DOMAIN q = DOMAIN r \cup {n}
      /\ q[n] = s
      /\ \A x \in DOMAIN r : x # n => q[x] = r[x]
  BY DEF Placed
<1> HIDE DEF q
<1>2. LowerBound(q, h) \in DOMAIN r \cup {n}
  BY <1>1, LowerBoundIn
<1>3. CASE LowerBound(q, h) = n
  BY <1>1, <1>3 DEF get_shard_id, q
<1>4. CASE LowerBound(q, h) # n
  <2> SUFFICES LowerBound(q, h) = LowerBound(r, h)
    BY <1>1, <1>2, <1>4 DEF get_shard_id, q
  <2>1. CASE after(q) # {}
    <3>1. LowerBound(q, h) = Least(after(q))
      BY <2>1 DEF LowerBound
    <3>2. after(q) \in SUBSET Nat
      BY <1>1
    <3>3. Least(after(q)) \in after(q) /\ \A y \in after(q) : Least(after(q)) <= y
      BY <2>1, <3>2, LeastFacts
    <3>4. Least(after(q)) \in after(r) /\ after(r) \subseteq after(q)
      BY <1>1, <1>4, <3>1, <3>3
    <3>5. after(r) \in SUBSET Nat /\ after(r) # {}
      BY <3>4
    <3>6. \A y \in after(r) : Least(after(q)) <= y
      BY <3>3, <3>4
    <3>7. Least(after(q)) = Least(after(r))
      BY <3>4, <3>5, <3>6, LeastFacts
    <3> QED
      BY <3>1, <3>5, <3>7 DEF LowerBound
  <2>2. CASE after(q) = {}
    <3>1. after(r) = {}
      BY <1>1, <2>2
    <3>2. LowerBound(q, h) = Least(DOMAIN q) /\ LowerBound(r, h) = Least(DOMAIN r)
      BY <2>2, <3>1 DEF LowerBound
    <3>3. DOMAIN q \in SUBSET Nat /\ DOMAIN q # {}
      BY <1>1
    <3>4. Least(DOMAIN q) \in DOMAIN q /\ \A y \in DOMAIN q : Least(DOMAIN q) <= y
      BY <3>3, LeastFacts
    <3>5. Least(DOMAIN q) \in DOMAIN r /\ \A y \in DOMAIN r : Least(DOMAIN q) <= y
      BY <1>1, <1>4, <3>2, <3>4
    <3>6. Least(DOMAIN q) = Least(DOMAIN r)
      BY <3>5, LeastFacts
    <3> QED
      BY <3>2, <3>6
  <2> QED
    BY <2>1, <2>2
<1> QED
  BY <1>3, <1>4

-----------------------------------------------------------------------------
(* The construction of the ring *)

\* Between iterations only the shards whose turn has come are on the ring.
RangeInv ==
    /\ v > 0 => shard_id < num_shards
    /\ v > 0 \/ shard_id > 0 => DOMAIN ring # {}
    /\ \A h \in DOMAIN ring : ring[h] <= shard_id /\ (v = 0 => ring[h] < shard_id)

IInv == TypeOK /\ RangeInv /\ GrowthMovesOnlyToNewShard

\* The empty ring satisfies the invariant.
LEMMA InitIInv == Init => IInv
<1> SUFFICES ASSUME Init PROVE IInv
  OBVIOUS
<1> USE HashMaxAssumption, ShardsAssumption, VnodesAssumption
<1>1. DOMAIN ring = {}
  BY DEF Init
<1>2. TypeOK
  BY <1>1 DEF Init, TypeOK, VnodeNr
<1>3. RangeInv
  BY <1>1 DEF Init, RangeInv
<1>4. GrowthMovesOnlyToNewShard
  BY DEF Init, GrowthMovesOnlyToNewShard
<1> QED
  BY <1>2, <1>3, <1>4 DEF IInv

\* What one iteration leaves on the ring.
LEMMA PlaceFacts ==
    ASSUME TypeOK, place
    PROVE  /\ vnode[<<shard_id, v>>] \in Hash
           /\ shard_id \in Shard
           /\ DOMAIN ring' = DOMAIN ring \cup {vnode[<<shard_id, v>>]}
           /\ \A h \in DOMAIN ring' : ring'[h] = shard_id \/ (h \in DOMAIN ring /\ ring'[h] = ring[h])
<1>1. shard_id \in Shard /\ v \in VnodeNr
  BY ShardsAssumption DEF TypeOK, place, Shard
<1>2. vnode[<<shard_id, v>>] \in Hash
  BY <1>1 DEF TypeOK
<1> QED
  BY <1>1, <1>2 DEF place, Placed

\* A lookup on the new ring, before and after the step.
LEMMA LookupPrime ==
    ASSUME place, NEW h
    PROVE  get_shard_id(ring, h)' = get_shard_id(ring', h')
BY DEF place, get_shard_id, LowerBound, Least

\* An iteration of initialize_ring only adds the current shard to the ring.
LEMMA PlaceRange == TypeOK /\ RangeInv /\ place => RangeInv'
<1> SUFFICES ASSUME TypeOK, RangeInv, place PROVE RangeInv'
  OBVIOUS
<1> USE HashMaxAssumption, ShardsAssumption, VnodesAssumption
<1>1. v \in 0 .. Vnodes - 1 /\ shard_id \in Nat /\ num_shards \in Nat
  BY DEF TypeOK, VnodeNr
<1>2. v' > 0 => shard_id' < num_shards'
  BY <1>1 DEF place
<1>3. DOMAIN ring' # {}
  BY PlaceFacts
<1>4. ASSUME NEW h \in DOMAIN ring'
      PROVE  ring'[h] <= shard_id' /\ (v' = 0 => ring'[h] < shard_id')
  <2>1. ring'[h] \in Nat /\ ring'[h] <= shard_id
    BY <1>1, <1>4, PlaceFacts DEF TypeOK, RangeInv, Shard
  <2> QED
    BY <1>1, <2>1 DEF place
<1> QED
  BY <1>2, <1>3, <1>4 DEF RangeInv

\* An iteration of initialize_ring preserves the types.
LEMMA PlaceType == TypeOK /\ RangeInv /\ place => TypeOK'
<1> SUFFICES ASSUME TypeOK, RangeInv, place PROVE TypeOK'
  OBVIOUS
<1> USE HashMaxAssumption, ShardsAssumption, VnodesAssumption
<1>1. v \in 0 .. Vnodes - 1 /\ shard_id \in Nat /\ num_shards \in Nat
  BY DEF TypeOK, VnodeNr
<1>2. DOMAIN ring' \subseteq Hash /\ \A h \in DOMAIN ring' : ring'[h] \in Shard
  BY PlaceFacts DEF TypeOK
<1>3. shard_id' \in 0 .. num_shards' /\ v' \in VnodeNr
  BY <1>1 DEF place, VnodeNr
<1>4. before' \in [Hash -> Nat]
  <2>1. CASE v + 1 < Vnodes
    BY <2>1 DEF place, TypeOK
  <2>2. CASE ~ (v + 1 < Vnodes)
    <3>1. before' = [h \in Hash |-> get_shard_id(ring', h)]
      BY <2>2 DEF place, Owners
    <3>2. ASSUME NEW h \in Hash PROVE get_shard_id(ring', h) \in Nat
      <4>1. DOMAIN ring' \in SUBSET Nat /\ DOMAIN ring' # {} /\ h \in Nat
        BY <1>2, PlaceFacts DEF Hash
      <4>2. LowerBound(ring', h) \in DOMAIN ring'
        BY <4>1, LowerBoundIn
      <4> QED
        BY <1>2, <4>1, <4>2 DEF get_shard_id, Shard
    <3> QED
      BY <3>1, <3>2
  <2> QED
    BY <2>1, <2>2
<1>5. vnode' = vnode /\ num_shards' = num_shards
  BY DEF place
<1> QED
  BY <1>2, <1>3, <1>4, <1>5 DEF TypeOK

\* An iteration of initialize_ring moves hashes to the current shard only.
LEMMA PlaceGrowth == IInv /\ place => GrowthMovesOnlyToNewShard'
<1> SUFFICES ASSUME IInv, place, shard_id' > 0, NEW h \in Hash
             PROVE  get_shard_id(ring', h) \in {before'[h], shard_id'}
  BY LookupPrime DEF GrowthMovesOnlyToNewShard, Hash
<1> USE HashMaxAssumption, ShardsAssumption, VnodesAssumption
<1>1. TypeOK
  BY DEF IInv
<1>2. v \in 0 .. Vnodes - 1 /\ shard_id \in Nat /\ num_shards \in Nat /\ num_shards # 0
  BY <1>1 DEF TypeOK, VnodeNr, place
<1>3. CASE v + 1 < Vnodes
  <2>1. shard_id > 0 /\ shard_id' = shard_id /\ before' = before
    BY <1>3 DEF place
  <2>2. DOMAIN ring # {} /\ DOMAIN ring \in SUBSET Nat /\ h \in Nat
    BY <1>1, <2>1 DEF IInv, RangeInv, TypeOK, Hash
  <2>3. ring' = Placed(ring, vnode[<<shard_id, v>>], shard_id) /\ vnode[<<shard_id, v>>] \in Nat
    BY <1>1, PlaceFacts DEF place, Hash
  <2>4. get_shard_id(ring', h) \in {get_shard_id(ring, h), shard_id}
    BY <1>2, <2>2, <2>3, PlacedMoves
  <2>5. get_shard_id(ring, h) \in {before[h], shard_id}
    BY <2>1 DEF IInv, GrowthMovesOnlyToNewShard
  <2> QED
    BY <2>1, <2>4, <2>5
<1>4. CASE ~ (v + 1 < Vnodes)
  BY <1>4 DEF place, Owners
<1> QED
  BY <1>3, <1>4

\* The inductive invariant of initialize_ring.
THEOREM IInvInvariant == Spec => []IInv
<1>1. Init => IInv
  BY InitIInv
<1>2. IInv /\ [Next]_vars => IInv'
  <2> SUFFICES ASSUME IInv, [Next]_vars PROVE IInv'
    OBVIOUS
  <2>1. CASE place
    BY <2>1, PlaceType, PlaceRange, PlaceGrowth DEF IInv
  <2>2. CASE UNCHANGED vars
    <3>1. TypeOK' /\ RangeInv'
      BY <2>2 DEF IInv, TypeOK, RangeInv, vars
    <3>2. GrowthMovesOnlyToNewShard'
      <4>1. ASSUME NEW h \in Hash PROVE get_shard_id(ring, h)' = get_shard_id(ring, h)
        BY <2>2 DEF get_shard_id, LowerBound, Least, vars
      <4> QED
        BY <2>2, <4>1 DEF IInv, GrowthMovesOnlyToNewShard, Hash, vars
    <3> QED
      BY <3>1, <3>2 DEF IInv
  <2> QED
    BY <2>1, <2>2 DEF Next
<1> QED
  BY <1>1, <1>2, PTL DEF Spec

\* A finished ring has an owner in range for every hash.
LEMMA IInvOwner == IInv => OwnerInRange
<1> SUFFICES ASSUME IInv, Ready, num_shards > 0
             PROVE  /\ DOMAIN ring # {}
                    /\ \A h \in Hash : get_shard_id(ring, h) \in 0 .. num_shards - 1
  BY DEF OwnerInRange
<1> USE HashMaxAssumption, ShardsAssumption, VnodesAssumption
<1>1. /\ shard_id = num_shards /\ num_shards \in Nat /\ v \in Nat
      /\ DOMAIN ring \in SUBSET Nat
      /\ \A h \in DOMAIN ring : ring[h] \in Nat
  BY DEF IInv, TypeOK, Ready, VnodeNr, Hash, Shard
<1>2. v = 0 /\ DOMAIN ring # {} /\ \A h \in DOMAIN ring : ring[h] < num_shards
  BY <1>1 DEF IInv, RangeInv
<1>3. ASSUME NEW h \in Hash PROVE get_shard_id(ring, h) \in 0 .. num_shards - 1
  <2>1. LowerBound(ring, h) \in DOMAIN ring
    BY <1>1, <1>2, LowerBoundIn DEF Hash
  <2> QED
    BY <1>1, <1>2, <2>1 DEF get_shard_id
<1> QED
  BY <1>2, <1>3

\* Whatever FNV-1a does with the names of the virtual nodes, get_shard_id
\* answers a shard that exists and never takes the crc16 fallback.
THEOREM OwnerCorrect == Spec => []OwnerInRange
BY IInvInvariant, IInvOwner, PTL

\* Consistent hashing: adding a shard moves keys to that shard only.
THEOREM GrowthCorrect == Spec => []GrowthMovesOnlyToNewShard
<1>1. IInv => GrowthMovesOnlyToNewShard
  BY DEF IInv
<1> QED
  BY <1>1, IInvInvariant, PTL

-----------------------------------------------------------------------------
(* The closest virtual node *)

\* The virtual nodes placed before node w of shard s.
PlacedNodes(s, w) == {x \in Shard \X VnodeNr : x[1] < s \/ (x[1] = s /\ x[2] < w)}

\* Every node placed so far is on the ring, as far as no later shard has taken its
\* hash, and nothing else is.
RingInv ==
    /\ \A x \in PlacedNodes(shard_id, v) : vnode[x] \in DOMAIN ring /\ x[1] <= ring[vnode[x]]
    /\ \A h \in DOMAIN ring :
        \E x \in PlacedNodes(shard_id, v) : vnode[x] = h /\ x[1] = ring[h]

\* An iteration places one node more.
LEMMA PlacesOneMore ==
    ASSUME TypeOK, place
    PROVE  /\ <<shard_id, v>> \in Shard \X VnodeNr
           /\ \A x : x \in PlacedNodes(shard_id', v')
                     <=> x \in PlacedNodes(shard_id, v) \/ x = <<shard_id, v>>
<1> USE ShardsAssumption, VnodesAssumption
<1>1. /\ shard_id \in Shard /\ v \in VnodeNr /\ shard_id \in Nat
      /\ v' = IF v + 1 < Vnodes THEN v + 1 ELSE 0
      /\ shard_id' = IF v + 1 < Vnodes THEN shard_id ELSE shard_id + 1
  BY DEF TypeOK, place, Shard
<1>2. ASSUME NEW a \in Shard, NEW b \in VnodeNr
      PROVE  (a < shard_id' \/ (a = shard_id' /\ b < v'))
             <=> (a < shard_id \/ (a = shard_id /\ b < v)) \/ (a = shard_id /\ b = v)
  BY <1>1 DEF Shard, VnodeNr
<1>3. ASSUME NEW x \in Shard \X VnodeNr
      PROVE  /\ x[1] \in Shard /\ x[2] \in VnodeNr
             /\ x = <<shard_id, v>> <=> x[1] = shard_id /\ x[2] = v
  BY <1>3
<1> QED
  BY <1>1, <1>2, <1>3 DEF PlacedNodes

LEMMA PlaceRing == TypeOK /\ RangeInv /\ RingInv /\ place => RingInv'
<1> SUFFICES ASSUME TypeOK, RangeInv, RingInv, place PROVE RingInv'
  OBVIOUS
<1> DEFINE e == <<shard_id, v>>
           n == vnode[e]
<1>1. /\ e \in Shard \X VnodeNr /\ e[1] = shard_id
      /\ \A x : x \in PlacedNodes(shard_id', v') <=> x \in PlacedNodes(shard_id, v) \/ x = e
  BY PlacesOneMore
<1>2. /\ DOMAIN ring' = DOMAIN ring \cup {n} /\ ring'[n] = shard_id /\ vnode' = vnode
      /\ \A h \in DOMAIN ring : h # n => ring'[h] = ring[h]
  BY DEF place, Placed
<1>3. \A h \in DOMAIN ring : ring[h] \in Nat /\ ring[h] <= shard_id
  BY ShardsAssumption DEF TypeOK, RangeInv, Shard
<1>4. shard_id \in Nat /\ \A x \in PlacedNodes(shard_id, v) : x[1] \in Nat
  BY ShardsAssumption DEF TypeOK, PlacedNodes, Shard
<1> HIDE DEF e, n
<1>5. \A x \in PlacedNodes(shard_id', v') : vnode'[x] \in DOMAIN ring' /\ x[1] <= ring'[vnode'[x]]
  <2>1. ASSUME NEW x \in PlacedNodes(shard_id, v)
        PROVE  vnode'[x] \in DOMAIN ring' /\ x[1] <= ring'[vnode'[x]]
    <3>1. vnode[x] \in DOMAIN ring /\ x[1] <= ring[vnode[x]]
      BY DEF RingInv
    <3>2. CASE vnode[x] # n
      BY <1>2, <3>1, <3>2
    <3>3. CASE vnode[x] = n
      <4>1. ring'[vnode'[x]] = shard_id /\ vnode'[x] \in DOMAIN ring'
        BY <1>2, <3>3
      <4>2. x[1] <= shard_id
        BY <1>3, <1>4, <3>1
      <4> QED
        BY <4>1, <4>2
    <3> QED
      BY <3>2, <3>3
  <2>2. vnode'[e] \in DOMAIN ring' /\ e[1] <= ring'[vnode'[e]]
    BY <1>1, <1>2, <1>4 DEF n
  <2> QED
    BY <1>1, <2>1, <2>2
<1>6. \A h \in DOMAIN ring' :
        \E x \in PlacedNodes(shard_id', v') : vnode'[x] = h /\ x[1] = ring'[h]
  <2>1. vnode'[e] = n /\ e[1] = ring'[n]
    BY <1>1, <1>2 DEF n
  <2>2. ASSUME NEW h \in DOMAIN ring, h # n
        PROVE  \E x \in PlacedNodes(shard_id', v') : vnode'[x] = h /\ x[1] = ring'[h]
    <3>1. PICK x \in PlacedNodes(shard_id, v) : vnode[x] = h /\ x[1] = ring[h]
      BY DEF RingInv
    <3> QED
      BY <1>1, <1>2, <2>2, <3>1
  <2> QED
    BY <1>1, <1>2, <2>1, <2>2
<1> QED
  BY <1>5, <1>6 DEF RingInv

\* How far clockwise hash y is from h.
Clockwise(h, y) == IF y >= h THEN y - h ELSE y - h + HashMax + 1

\* The distance of ClosestClockwise, without the remainder.
LEMMA ClockwiseDistance ==
    ASSUME NEW h \in Hash, NEW y \in Hash
    PROVE  (y - h + HashMax + 1) % (HashMax + 1) = Clockwise(h, y)
<1> USE HashMaxAssumption
<1> DEFINE m == HashMax + 1
<1>1. m \in Nat \ {0} /\ h \in 0 .. m - 1 /\ y \in 0 .. m - 1
  BY DEF Hash
<1> HIDE DEF m
<1>2. CASE y >= h
  <2>1. (m - 1 + (y - h + 1 - 1) + 1) % m = y - h
    <3>1. y - h \in 0 .. m - 1
      BY <1>1, <1>2
    <3>2. \A k \in 0 .. m - 1 : (m + k) % m = k
      BY <1>1
    <3> QED
      BY <1>1, <3>1, <3>2
  <2> QED
    BY <1>1, <1>2, <2>1 DEF Clockwise, m, Hash
<1>3. CASE ~ (y >= h)
  <2>1. y - h + m \in 0 .. m - 1
    BY <1>1, <1>3
  <2>2. \A k \in 0 .. m - 1 : k % m = k
    BY <1>1
  <2> QED
    BY <1>1, <1>3, <2>1, <2>2 DEF Clockwise, m, Hash
<1> QED
  BY <1>2, <1>3

\* lower_bound with wrap-around is the entry closest clockwise.
LEMMA LowerBoundClosest ==
    ASSUME NEW r, NEW h \in Hash, DOMAIN r \in SUBSET Hash, DOMAIN r # {}
    PROVE  /\ LowerBound(r, h) \in DOMAIN r
           /\ \A y \in DOMAIN r : Clockwise(h, LowerBound(r, h)) <= Clockwise(h, y)
           /\ \A y \in DOMAIN r : Clockwise(h, y) <= Clockwise(h, LowerBound(r, h))
                                  => y = LowerBound(r, h)
<1> USE HashMaxAssumption
<1> DEFINE after == {x \in DOMAIN r : x >= h}
           n == LowerBound(r, h)
<1>1. h \in Nat /\ DOMAIN r \in SUBSET Nat /\ after \in SUBSET Nat
  BY DEF Hash
<1>2. n \in DOMAIN r /\ n \in Hash
  BY <1>1, LowerBoundIn
<1>3. CASE after # {}
  <2>1. n = Least(after)
    BY <1>3 DEF LowerBound
  <2>2. n \in after /\ \A y \in after : n <= y
    BY <1>1, <1>3, <2>1, LeastFacts
  <2>3. ASSUME NEW y \in DOMAIN r
        PROVE  Clockwise(h, n) <= Clockwise(h, y) /\ (Clockwise(h, y) <= Clockwise(h, n) => y = n)
    <3>1. y \in Hash /\ n >= h /\ (y >= h => n <= y)
      BY <2>2, <2>3
    <3> HIDE DEF n
    <3> QED
      BY <1>1, <1>2, <3>1 DEF Clockwise, Hash
  <2> QED
    BY <1>2, <2>3
<1>4. CASE after = {}
  <2>1. n = Least(DOMAIN r)
    BY <1>4 DEF LowerBound
  <2>2. \A y \in DOMAIN r : n <= y
    BY <1>1, <2>1, LeastFacts
  <2>3. ASSUME NEW y \in DOMAIN r
        PROVE  Clockwise(h, n) <= Clockwise(h, y) /\ (Clockwise(h, y) <= Clockwise(h, n) => y = n)
    <3>1. y \in Hash /\ ~ (y >= h) /\ ~ (n >= h) /\ n <= y
      BY <1>2, <1>4, <2>2, <2>3
    <3> HIDE DEF n
    <3> QED
      BY <1>1, <1>2, <3>1 DEF Clockwise, Hash
  <2> QED
    BY <1>2, <2>3
<1> QED
  BY <1>3, <1>4

\* On the finished ring every hash belongs to the shard of the virtual node that
\* is closest clockwise; where virtual nodes of several shards collide, to the
\* highest of them.
THEOREM ClosestCorrect == Spec => []ClosestClockwise
<1>1. Init => RingInv
  BY ShardsAssumption, VnodesAssumption DEF Init, RingInv, PlacedNodes, Shard, VnodeNr
<1>2. IInv /\ RingInv /\ [Next]_vars => RingInv'
  <2>1. CASE place
    BY <2>1, PlaceRing DEF IInv
  <2>2. CASE UNCHANGED vars
    BY <2>2 DEF RingInv, PlacedNodes, vars
  <2> QED
    BY <2>1, <2>2 DEF Next
<1>3. IInv /\ RingInv => ClosestClockwise
  <2> DEFINE nodes == {x \in Shard \X VnodeNr : x[1] < num_shards}
             D(h, x) == (vnode[x] - h + HashMax + 1) % (HashMax + 1)
             closest(h) == {x \in nodes : \A y \in nodes : D(h, x) <= D(h, y)}
  <2> SUFFICES ASSUME IInv, RingInv, Ready, num_shards > 0, NEW h \in Hash
               PROVE  /\ \E x \in closest(h) : x[1] = get_shard_id(ring, h)
                      /\ \A x \in closest(h) : x[1] <= get_shard_id(ring, h)
    BY DEF ClosestClockwise
  <2>1. /\ shard_id = num_shards /\ num_shards \in Nat \ {0} /\ v = 0
        /\ DOMAIN ring \in SUBSET Hash /\ DOMAIN ring # {}
        /\ vnode \in [Shard \X VnodeNr -> Hash]
    BY VnodesAssumption DEF IInv, TypeOK, RangeInv, Ready, VnodeNr
  <2>2. PlacedNodes(shard_id, v) = nodes
    BY <2>1 DEF PlacedNodes, VnodeNr
  <2> DEFINE n == LowerBound(ring, h)
  <2>3. /\ n \in DOMAIN ring
        /\ \A y \in DOMAIN ring : Clockwise(h, n) <= Clockwise(h, y)
        /\ \A y \in DOMAIN ring : Clockwise(h, y) <= Clockwise(h, n) => y = n
    BY <2>1, LowerBoundClosest
  <2>4. get_shard_id(ring, h) = ring[n]
    BY <2>1 DEF get_shard_id
  <2>5. \A x \in nodes : /\ vnode[x] \in DOMAIN ring /\ x[1] <= ring[vnode[x]]
                         /\ D(h, x) = Clockwise(h, vnode[x])
    <3>1. \A x \in nodes : vnode[x] \in DOMAIN ring /\ x[1] <= ring[vnode[x]]
      BY <2>2 DEF RingInv
    <3>2. \A x \in nodes : vnode[x] \in Hash
      BY <2>1
    <3> QED
      BY <3>1, <3>2, ClockwiseDistance
  <2>6. PICK z \in nodes : vnode[z] = n /\ z[1] = ring[n]
    BY <2>2, <2>3 DEF RingInv
  <2> HIDE DEF n, nodes, D
  <2>7. z \in closest(h)
    BY <2>3, <2>5, <2>6
  <2>8. ASSUME NEW x \in closest(h) PROVE x[1] <= ring[n]
    <3>1. x \in nodes /\ D(h, x) <= D(h, z)
      BY <2>6, <2>8
    <3>2. vnode[x] = n
      BY <2>3, <2>5, <2>6, <3>1
    <3> QED
      BY <2>5, <3>1, <3>2
  <2> QED
    BY <2>4, <2>6, <2>7, <2>8
<1> QED
  BY <1>1, <1>2, <1>3, IInvInvariant, PTL DEF Spec
=============================================================================
