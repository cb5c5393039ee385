----------------------------- MODULE ShardProofs -----------------------------
(***************************************************************************)
(* The two maps of a Shard stay in step, and lazy expiration implements    *)
(* expiration on time, for any keys, values, capacity and course of the    *)
(* clock.                                                                  *)
(***************************************************************************)
EXTENDS Shard, TLAPS

IInv == TypeOK /\ NoOrphanExpiry

\* What get() leaves behind keeps the maps in step: an expired key goes from
\* both, any other key stays in both.
LEMMA GetKeepsStep ==
    ASSUME IInv, NEW k \in Key
    PROVE  /\ DOMAIN GotExpires(k) \subseteq DOMAIN GotData(k)
           /\ DOMAIN GotData(k) \subseteq DOMAIN data
           /\ \A x \in DOMAIN GotData(k) : GotData(k)[x] = data[x]
           /\ DOMAIN GotExpires(k) \subseteq DOMAIN expires
           /\ \A x \in DOMAIN GotExpires(k) : GotExpires(k)[x] = expires[x]
BY DEF IInv, NoOrphanExpiry, GotExpires, GotData, Without, Restrict

\* Shard::set, on two maps in step, leaves two maps in step.
LEMMA SetKeepsStep ==
    ASSUME IInv, NEW k \in Key, NEW v \in Val, NEW d, NEW e, set(k, v, d, e),
           DOMAIN e \subseteq DOMAIN d, DOMAIN d \subseteq DOMAIN data,
           \A x \in DOMAIN d : d[x] = data[x],
           DOMAIN e \subseteq DOMAIN expires,
           \A x \in DOMAIN e : e[x] = expires[x],
           now' = now
    PROVE  IInv'
<1>1. CASE /\ k \in DOMAIN d \/ used < Capacity
           /\ data' = With(d, k, v)
           /\ used' = IF k \in DOMAIN d THEN used ELSE used + 1
           /\ expires' = Without(e, k)
  <2>1. DOMAIN data' = DOMAIN d \cup {k} /\ DOMAIN expires' = DOMAIN e \ {k}
    BY <1>1 DEF With, Without, Restrict
  <2>2. \A x \in DOMAIN data' : data'[x] \in Val
    BY <1>1, <2>1 DEF With, IInv, TypeOK
  <2>3. \A x \in DOMAIN expires' : expires'[x] \in Int
    BY <1>1, <2>1 DEF Without, Restrict, IInv, TypeOK
  <2>4. used' \in 0 .. Capacity
    BY <1>1, TimeAssumption DEF IInv, TypeOK
  <2> QED
    BY <2>1, <2>2, <2>3, <2>4 DEF IInv, TypeOK, NoOrphanExpiry
<1>2. CASE data' = d /\ expires' = e /\ UNCHANGED used
  BY <1>2 DEF IInv, TypeOK, NoOrphanExpiry
<1> QED
  BY <1>1, <1>2 DEF set

\* The empty shard satisfies the invariant.
LEMMA InitIInv == Init => IInv
BY TimeAssumption DEF Init, IInv, TypeOK, NoOrphanExpiry

\* Every command, and the clock, preserves the invariant.
LEMMA NextIInv == IInv /\ [Next]_vars => IInv'
<1> SUFFICES ASSUME IInv, [Next]_vars PROVE IInv'
  OBVIOUS
<1>1. CASE Tick
  BY <1>1, TimeAssumption DEF Tick, IInv, TypeOK, NoOrphanExpiry
<1>2. ASSUME NEW k \in Key, NEW v \in Val, SET(k, v) PROVE IInv'
  <2>1. set(k, v, data, expires) /\ now' = now
    BY <1>2 DEF SET
  <2> QED
    BY <2>1, SetKeepsStep DEF IInv, NoOrphanExpiry
<1>3. ASSUME NEW k \in Key, NEW v \in Val, Upsert(k, v) PROVE IInv'
  <2>1. CASE Found(k)
    <3>1. data' = [data EXCEPT ![k] = v] /\ UNCHANGED <<used, expires, now>>
      BY <1>3, <2>1 DEF Upsert
    <3> QED
      BY <3>1, <2>1 DEF IInv, TypeOK, NoOrphanExpiry
  <2>2. CASE ~Found(k)
    <3>1. set(k, v, GotData(k), GotExpires(k)) /\ now' = now
      BY <1>3, <2>2 DEF Upsert
    <3> QED
      BY <3>1, GetKeepsStep, SetKeepsStep
  <2> QED
    BY <2>1, <2>2
<1>4. ASSUME NEW k \in Key, NEW v \in Val, Modify(k, v) PROVE IInv'
  BY <1>4 DEF Modify, IInv, TypeOK, NoOrphanExpiry
<1>5. ASSUME NEW k \in Key, get(k), now' \in 0 .. MaxTime PROVE IInv'
  <2>1. data' = GotData(k) /\ expires' = GotExpires(k) /\ used' = used
    BY <1>5 DEF get
  <2>2. /\ DOMAIN expires' \subseteq DOMAIN data'
        /\ DOMAIN data' \subseteq DOMAIN data
        /\ \A x \in DOMAIN data' : data'[x] = data[x]
        /\ DOMAIN expires' \subseteq DOMAIN expires
        /\ \A x \in DOMAIN expires' : expires'[x] = expires[x]
    BY <2>1, GetKeepsStep
  <2> QED
    BY <1>5, <2>1, <2>2 DEF IInv, TypeOK, NoOrphanExpiry
<1>6. ASSUME NEW k \in Key, GET(k) PROVE IInv'
  BY <1>5, <1>6 DEF GET, IInv, TypeOK
<1>7. ASSUME NEW k \in Key, DEL(k) PROVE IInv'
  BY <1>7 DEF DEL, Without, Restrict, IInv, TypeOK, NoOrphanExpiry
<1>8. ASSUME NEW k \in Key, NEW s \in Seconds, EXPIRE(k, s) PROVE IInv'
  <2>1. CASE ~Found(k)
    BY <1>5, <1>8, <2>1 DEF EXPIRE, IInv, TypeOK
  <2>2. CASE Found(k)
    <3>1. /\ now' \in Later
          /\ expires' = With(expires, k, now' + s * Second)
          /\ UNCHANGED <<data, used>>
      BY <1>8, <2>2 DEF EXPIRE
    <3>2. now' \in 0 .. MaxTime
      BY <3>1, TimeAssumption DEF Later, IInv, TypeOK
    <3>3. now' + s * Second \in Int
      BY <3>2, TimeAssumption, SecondAssumption
    <3>4. DOMAIN expires' = DOMAIN expires \cup {k} /\ \A x \in DOMAIN expires' : expires'[x] \in Int
      BY <3>1, <3>3 DEF With, IInv, TypeOK
    <3> QED
      BY <2>2, <3>1, <3>2, <3>4 DEF Found, IInv, TypeOK, NoOrphanExpiry
  <2> QED
    BY <2>1, <2>2
<1>9. ASSUME NEW k \in Key, TTL(k) PROVE IInv'
  <2>1. now' \in 0 .. MaxTime
    BY <1>9, TimeAssumption DEF TTL, Later, IInv, TypeOK
  <2> QED
    BY <1>5, <1>9, <2>1 DEF TTL
<1>10. CASE UNCHANGED vars
  BY <1>10 DEF vars, IInv, TypeOK, NoOrphanExpiry
<1> QED
  BY <1>1, <1>2, <1>3, <1>4, <1>6, <1>7, <1>8, <1>9, <1>10 DEF Next

\* The types of the two maps, the slot count and the clock, and the agreement
\* of the maps, hold throughout.
THEOREM IInvInvariant == Spec => []IInv
<1> QED
  BY InitIInv, NextIInv, PTL DEF Spec

\* No timestamp outlives its key, whatever SET, DEL, EXPIRE, TTL, the lazy
\* expiration in get() and the collection commands did before.
THEOREM NoOrphan == Spec => []NoOrphanExpiry
<1>1. IInv => NoOrphanExpiry
  BY DEF IInv
<1> QED
  BY <1>1, IInvInvariant, PTL

\* The types alone.
THEOREM TypeCorrect == Spec => []TypeOK
<1>1. IInv => TypeOK
  BY DEF IInv
<1> QED
  BY <1>1, IInvInvariant, PTL

-----------------------------------------------------------------------------
(* Lazy expiration implements expiration on time *)

\* Key x exists on map d, with timestamps e, when the clock shows t.
Alive(x, d, e, t) == x \in DOMAIN d /\ ~ (x \in DOMAIN e /\ t > e[x])

\* The abstract map, key by key.
LEMMA DictOf ==
    ASSUME IInv
    PROVE  /\ \A x : x \in DOMAIN Dict <=> Alive(x, data, expires, now)
           /\ \A x \in DOMAIN Dict : Dict[x] = data[x]
           /\ \A x : x \in DOMAIN Deadline <=> x \in DOMAIN expires /\ Alive(x, data, expires, now)
           /\ \A x \in DOMAIN Deadline : Deadline[x] = expires[x]
BY DEF Dict, Deadline, Visible, Expired, Restrict, Alive

\* The abstract clock moves to t with the maps d and e if the keys that are
\* alive afterwards are the ones alive on d and e, with the same value and the
\* same timestamp.
LEMMA AtHolds ==
    ASSUME IInv', NEW t, now' = t, t >= now, NEW d, NEW e,
           \A x : Alive(x, data', expires', t) <=> Alive(x, d, e, t),
           \A x : Alive(x, d, e, t) => data'[x] = d[x],
           DOMAIN e \subseteq DOMAIN d,
           \A x : Alive(x, d, e, t) => (x \in DOMAIN expires' <=> x \in DOMAIN e),
           \A x \in DOMAIN e : Alive(x, d, e, t) => expires'[x] = e[x]
    PROVE  TM!At(t, d, e)
<1> DEFINE dead == {k \in DOMAIN e : t > e[k]}
<1>1. \A x : x \in DOMAIN d \ dead <=> Alive(x, d, e, t)
  BY DEF Alive
<1>2. \A x : x \in DOMAIN e \ dead <=> x \in DOMAIN e /\ Alive(x, d, e, t)
  BY DEF Alive
<1> HIDE DEF dead
<1>3. Visible' = DOMAIN d \ dead
  <2>1. \A x : x \in Visible' <=> Alive(x, data', expires', t)
    BY DEF Visible, Expired, Alive
  <2> QED
    BY <1>1, <2>1
<1>4. Visible' \cap DOMAIN expires' = DOMAIN e \ dead
  BY <1>1, <1>2, <1>3
<1>5. Dict' = Restrict(d, DOMAIN d \ dead)
  BY <1>1, <1>3 DEF Dict, Restrict
<1>6. Deadline' = Restrict(e, DOMAIN e \ dead)
  BY <1>2, <1>4 DEF Deadline, Restrict
<1> QED
  BY <1>5, <1>6 DEF TM!At, TM!Restrict, Restrict, dead

\* The abstract map does not change if nothing that is alive changes.
LEMMA MapStays ==
    ASSUME IInv, IInv', now' = now,
           \A x : Alive(x, data', expires', now) <=> Alive(x, data, expires, now),
           \A x : Alive(x, data, expires, now) => data'[x] = data[x],
           \A x : Alive(x, data, expires, now) => (x \in DOMAIN expires' <=> x \in DOMAIN expires),
           \A x \in DOMAIN expires : Alive(x, data, expires, now) => expires'[x] = expires[x]
    PROVE  UNCHANGED <<now, Dict, Deadline>>
<1>1. Visible' = Visible
  BY DEF Visible, Expired, Alive
<1>2. \A x \in Visible : Alive(x, data, expires, now)
  BY DEF Visible, Expired, Alive
<1>3. Dict' = Dict
  BY <1>1, <1>2 DEF Dict, Restrict
<1>4. Deadline' = Deadline
  BY <1>1, <1>2 DEF Deadline, Restrict
<1> QED
  BY <1>3, <1>4

\* get() is invisible.
LEMMA GetStays ==
    ASSUME IInv, IInv', NEW k \in Key, data' = GotData(k), expires' = GotExpires(k), now' = now
    PROVE  UNCHANGED <<now, Dict, Deadline>>
<1>1. CASE Expired(k)
  <2>1. data' = Without(data, k) /\ expires' = Without(expires, k)
    BY <1>1 DEF GotData, GotExpires
  <2>2. ~ Alive(k, data, expires, now) /\ ~ Alive(k, data', expires', now)
    BY <1>1, <2>1 DEF Expired, Alive, Without, Restrict
  <2>3. \A x : x # k => /\ Alive(x, data', expires', now) <=> Alive(x, data, expires, now)
                        /\ x \in DOMAIN expires' <=> x \in DOMAIN expires
                        /\ x \in DOMAIN data => data'[x] = data[x]
                        /\ x \in DOMAIN expires => expires'[x] = expires[x]
    BY <2>1 DEF Alive, Without, Restrict
  <2>4. \A x : Alive(x, data, expires, now) => x \in DOMAIN data
    BY DEF Alive
  <2> QED
    BY <2>2, <2>3, <2>4, MapStays
<1>2. CASE ~ Expired(k)
  BY <1>2, MapStays DEF GotData, GotExpires
<1> QED
  BY <1>1, <1>2

\* The clock moves to now', by itself or during a command; what is in the two
\* maps stays, and what is no longer alive leaves the abstract map.
LEMMA ClockMoves ==
    ASSUME IInv, IInv', now' >= now, UNCHANGED <<data, expires>>
    PROVE  TM!At(now', Dict, Deadline)
<1> USE TimeAssumption
<1>1. now \in Int /\ now' \in Int /\ \A x \in DOMAIN expires : expires[x] \in Int
  BY DEF IInv, TypeOK
<1>2. \A x \in DOMAIN expires : now > expires[x] => now' > expires[x]
  BY <1>1
<1>3. \A x : Alive(x, data', expires', now') <=> Alive(x, Dict, Deadline, now')
  BY <1>2, DictOf DEF Alive
<1>4. \A x : Alive(x, Dict, Deadline, now') => data'[x] = Dict[x] /\ x \in DOMAIN Dict
  BY DictOf DEF Alive
<1>5. DOMAIN Deadline \subseteq DOMAIN Dict
  BY DictOf
<1>6. \A x \in DOMAIN Dict : x \in DOMAIN expires' <=> x \in DOMAIN Deadline
  BY DictOf
<1>7. \A x \in DOMAIN Deadline : expires'[x] = Deadline[x]
  BY DictOf
<1> QED
  BY <1>3, <1>4, <1>5, <1>6, <1>7, AtHolds

\* Key k is put with value v: the abstract map gets it, with the timestamp that
\* e has for it, if any.
LEMMA Puts ==
    ASSUME IInv, IInv', NEW k \in Key, NEW v \in Val, now' = now, NEW e,
           DOMAIN data' \ {k} \subseteq DOMAIN data, k \in DOMAIN data', data'[k] = v,
           \A x : x # k => /\ Alive(x, data', expires', now) <=> Alive(x, data, expires, now)
                           /\ x \in DOMAIN Dict => data'[x] = data[x]
                           /\ x \in DOMAIN Dict => (x \in DOMAIN expires' <=> x \in DOMAIN expires)
                           /\ x \in DOMAIN Deadline => expires'[x] = expires[x],
           k \in DOMAIN expires' => k \in DOMAIN Deadline /\ expires'[k] = Deadline[k],
           DOMAIN e \subseteq DOMAIN Deadline,
           \A x \in DOMAIN e : e[x] = Deadline[x],
           \A x \in DOMAIN Deadline : x # k \/ k \in DOMAIN expires' => x \in DOMAIN e,
           k \in DOMAIN e => k \in DOMAIN expires'
    PROVE  TM!At(now, TM!With(Dict, k, v), e)
<1> DEFINE d == TM!With(Dict, k, v)
<1>1. DOMAIN d = DOMAIN Dict \cup {k} /\ \A x \in DOMAIN d : d[x] = IF x = k THEN v ELSE Dict[x]
  BY DEF TM!With
<1> HIDE DEF d
<1>2. \A x \in DOMAIN e : ~ (now > e[x])
  BY DictOf DEF Alive
<1>3. DOMAIN e \subseteq DOMAIN d /\ \A x : Alive(x, d, e, now) <=> x \in DOMAIN d
  BY <1>1, <1>2, DictOf DEF Alive
<1>4. Alive(k, data', expires', now)
  BY DictOf DEF Alive
<1>5. \A x : Alive(x, data', expires', now) <=> x \in DOMAIN d
  BY <1>1, <1>4, DictOf
<1>6. \A x \in DOMAIN d : data'[x] = d[x]
  BY <1>1, DictOf
<1>7. \A x \in DOMAIN d : x \in DOMAIN expires' <=> x \in DOMAIN e
  BY <1>1, DictOf
<1>8. \A x \in DOMAIN e : expires'[x] = e[x]
  BY DictOf
<1>9. now >= now
  BY TimeAssumption DEF IInv, TypeOK
<1>10. TM!At(now, d, e)
  BY <1>3, <1>5, <1>6, <1>7, <1>8, <1>9, AtHolds
<1> QED
  BY <1>10 DEF d

\* Shard::set on maps d and e that differ from the shard's in nothing that is
\* alive puts the key without a timestamp, or finds no room for it.
LEMMA SetPuts ==
    ASSUME IInv, IInv', NEW k \in Key, NEW v \in Val, NEW d, NEW e, set(k, v, d, e), now' = now,
           DOMAIN d \subseteq DOMAIN data, \A x \in DOMAIN d : d[x] = data[x],
           DOMAIN e \subseteq DOMAIN expires, \A x \in DOMAIN e : e[x] = expires[x],
           \A x : x # k => (x \in DOMAIN d <=> x \in DOMAIN data),
           \A x : x # k => (x \in DOMAIN e <=> x \in DOMAIN expires)
    PROVE  \/ k \in DOMAIN data' /\ TM!At(now, TM!With(Dict, k, v), TM!Without(Deadline, k))
           \/ k \notin DOMAIN data' /\ data' = d /\ expires' = e
<1>1. CASE data' = With(d, k, v) /\ expires' = Without(e, k)
  <2> DEFINE f == TM!Without(Deadline, k)
  <2>1. DOMAIN f = DOMAIN Deadline \ {k} /\ \A x \in DOMAIN f : f[x] = Deadline[x]
    BY DEF TM!Without, TM!Restrict
  <2> HIDE DEF f
  <2>2. /\ DOMAIN data' = DOMAIN d \cup {k} /\ data'[k] = v
        /\ \A x \in DOMAIN d : x # k => data'[x] = data[x]
    BY <1>1 DEF With
  <2>3. DOMAIN expires' = DOMAIN e \ {k} /\ \A x \in DOMAIN expires' : expires'[x] = expires[x]
    BY <1>1 DEF Without, Restrict
  <2>4. \A x : x # k => /\ Alive(x, data', expires', now) <=> Alive(x, data, expires, now)
                        /\ x \in DOMAIN expires' <=> x \in DOMAIN expires
    BY <2>2, <2>3 DEF Alive
  <2>5. \A x : x # k => /\ x \in DOMAIN Dict => data'[x] = data[x]
                        /\ x \in DOMAIN Deadline => expires'[x] = expires[x]
    BY <2>2, <2>3, DictOf DEF Alive
  <2>6. TM!At(now, TM!With(Dict, k, v), f)
    BY <2>1, <2>2, <2>3, <2>4, <2>5, Puts
  <2> QED
    BY <2>2, <2>6 DEF f
<1>2. CASE k \notin DOMAIN d /\ data' = d /\ expires' = e
  BY <1>2
<1> QED
  BY <1>1, <1>2 DEF set

\* The value of a key that is alive changes, and nothing else.
LEMMA ValueChanges ==
    ASSUME IInv, IInv', NEW k \in Key, NEW v \in Val, Found(k), now' = now,
           data' = [data EXCEPT ![k] = v], expires' = expires
    PROVE  TM!At(now, TM!With(Dict, k, v), Deadline)
<1>1. k \in DOMAIN data /\ Alive(k, data, expires, now)
  BY DEF Found, Expired, Alive
<1>2. DOMAIN data' = DOMAIN data /\ data'[k] = v /\ \A x \in DOMAIN data : x # k => data'[x] = data[x]
  BY <1>1
<1>3. \A x : x # k => Alive(x, data', expires', now) <=> Alive(x, data, expires, now)
  BY <1>2 DEF Alive
<1>4. \A x : x # k /\ x \in DOMAIN Dict => data'[x] = data[x]
  BY <1>2, DictOf DEF Alive
<1>5. \A x \in DOMAIN Deadline : expires'[x] = expires[x] /\ Deadline[x] = expires[x]
  BY DictOf
<1>6. k \in DOMAIN expires' => k \in DOMAIN Deadline /\ expires'[k] = Deadline[k]
  BY <1>1, DictOf
<1>7. k \in DOMAIN Deadline => k \in DOMAIN expires'
  BY DictOf
<1> QED
  BY <1>1, <1>2, <1>3, <1>4, <1>5, <1>6, <1>7, Puts

\* SET.
LEMMA SetImplements ==
    ASSUME IInv, IInv', NEW k \in Key, NEW v \in Val, SET(k, v)
    PROVE  TM!Set(k, v) \/ TM!Full(k)
<1>1. /\ set(k, v, data, expires) /\ now' = now
      /\ reply' = IF k \in DOMAIN data' THEN Status("+OK") ELSE Status("throw")
  BY DEF SET
<1>2. \/ k \in DOMAIN data' /\ TM!At(now, TM!With(Dict, k, v), TM!Without(Deadline, k))
      \/ k \notin DOMAIN data' /\ data' = data /\ expires' = expires
  BY <1>1, SetPuts
<1>3. CASE k \in DOMAIN data' /\ TM!At(now, TM!With(Dict, k, v), TM!Without(Deadline, k))
  BY <1>1, <1>3 DEF TM!Set, TM!Status, Status
<1>4. CASE k \notin DOMAIN data' /\ data' = data /\ expires' = expires
  <2>1. UNCHANGED <<now, Dict, Deadline>>
    BY <1>1, <1>4, MapStays
  <2>2. k \notin DOMAIN Dict
    BY <1>4, DictOf DEF Alive
  <2> QED
    BY <1>1, <1>4, <2>1, <2>2 DEF TM!Full, TM!Status, Status
<1> QED
  BY <1>2, <1>3, <1>4

\* The commands that create a key or change its value.
LEMMA UpsertImplements ==
    ASSUME IInv, IInv', NEW k \in Key, NEW v \in Val, Upsert(k, v)
    PROVE  TM!Modify(k, v) \/ TM!Full(k)
<1>1. /\ now' = now
      /\ reply' = IF k \in DOMAIN data' THEN Bulk(v) ELSE Status("throw")
  BY DEF Upsert
<1>2. CASE Found(k)
  <2>1. data' = [data EXCEPT ![k] = v] /\ expires' = expires
    BY <1>2 DEF Upsert
  <2>2. TM!At(now, TM!With(Dict, k, v), Deadline) /\ k \in DOMAIN data'
    BY <1>1, <1>2, <2>1, ValueChanges DEF Found
  <2> QED
    BY <1>1, <2>2 DEF TM!Modify, TM!Bulk, Bulk
<1>3. CASE ~ Found(k)
  <2>1. set(k, v, GotData(k), GotExpires(k))
    BY <1>3 DEF Upsert
  <2>2. \A x : x # k => /\ x \in DOMAIN GotData(k) <=> x \in DOMAIN data
                        /\ x \in DOMAIN GotExpires(k) <=> x \in DOMAIN expires
    BY DEF GotData, GotExpires, Without, Restrict
  <2>3. \/ k \in DOMAIN data' /\ TM!At(now, TM!With(Dict, k, v), TM!Without(Deadline, k))
        \/ k \notin DOMAIN data' /\ data' = GotData(k) /\ expires' = GotExpires(k)
    BY <1>1, <2>1, <2>2, GetKeepsStep, SetPuts
  <2>4. k \notin DOMAIN Dict /\ k \notin DOMAIN Deadline
    BY <1>3, DictOf DEF Alive, Found, Expired
  <2>5. CASE k \in DOMAIN data' /\ TM!At(now, TM!With(Dict, k, v), TM!Without(Deadline, k))
    <3>1. TM!Without(Deadline, k) = Deadline
      BY <2>4 DEF TM!Without, TM!Restrict, Deadline, Restrict
    <3> QED
      BY <1>1, <2>5, <3>1 DEF TM!Modify, TM!Bulk, Bulk
  <2>6. CASE k \notin DOMAIN data' /\ data' = GotData(k) /\ expires' = GotExpires(k)
    BY <1>1, <2>4, <2>6, GetStays DEF TM!Full, TM!Status, Status
  <2> QED
    BY <2>3, <2>5, <2>6
<1> QED
  BY <1>2, <1>3

\* GET.
LEMMA GetImplements ==
    ASSUME IInv, IInv', NEW k \in Key, GET(k)
    PROVE  TM!Get(k)
<1>1. UNCHANGED <<now, Dict, Deadline>>
  BY GetStays DEF GET, get
<1>2. Found(k) <=> k \in DOMAIN Dict
  BY DictOf DEF Alive, Found, Expired
<1>3. k \in DOMAIN Dict => Dict[k] = data[k]
  BY DictOf
<1> QED
  BY <1>1, <1>2, <1>3 DEF GET, TM!Get, TM!Bulk, Bulk, TM!Status, Status

\* DEL: of an expired key that is still in the maps the reply is 1.
LEMMA DelImplements ==
    ASSUME IInv, IInv', NEW k \in Key, DEL(k)
    PROVE  TM!Del(k)
<1> DEFINE d == TM!Without(Dict, k)
           e == TM!Without(Deadline, k)
<1>1. /\ data' = Without(data, k) /\ expires' = Without(expires, k) /\ now' = now
      /\ reply' = Int_(IF k \in DOMAIN data THEN 1 ELSE 0)
  BY DEF DEL
<1>2. /\ DOMAIN d = DOMAIN Dict \ {k} /\ \A x \in DOMAIN d : d[x] = Dict[x]
      /\ DOMAIN e = DOMAIN Deadline \ {k} /\ \A x \in DOMAIN e : e[x] = Deadline[x]
  BY DEF TM!Without, TM!Restrict
<1> HIDE DEF d, e
<1>3. /\ DOMAIN data' = DOMAIN data \ {k} /\ \A x \in DOMAIN data' : data'[x] = data[x]
      /\ DOMAIN expires' = DOMAIN expires \ {k} /\ \A x \in DOMAIN expires' : expires'[x] = expires[x]
  BY <1>1 DEF Without, Restrict
<1>4. DOMAIN e \subseteq DOMAIN d /\ \A x : Alive(x, d, e, now) <=> x \in DOMAIN d
  BY <1>2, DictOf DEF Alive
<1>5. \A x : Alive(x, data', expires', now) <=> x \in DOMAIN d
  BY <1>2, <1>3, DictOf DEF Alive
<1>6. \A x \in DOMAIN d : data'[x] = d[x] /\ (x \in DOMAIN expires' <=> x \in DOMAIN e)
  BY <1>2, <1>3, DictOf DEF Alive
<1>7. \A x \in DOMAIN e : expires'[x] = e[x]
  BY <1>2, <1>3, DictOf
<1>8. now >= now
  BY TimeAssumption DEF IInv, TypeOK
<1>9. TM!At(now, d, e)
  BY <1>1, <1>4, <1>5, <1>6, <1>7, <1>8, AtHolds
<1>10. reply' \in IF k \in DOMAIN Dict THEN {TM!Int_(1)} ELSE {TM!Int_(0), TM!Int_(1)}
  BY <1>1, DictOf DEF Alive, Int_, TM!Int_
<1> QED
  BY <1>9, <1>10 DEF TM!Del, d, e

\* EXPIRE.
LEMMA ExpireImplements ==
    ASSUME IInv, IInv', NEW k \in Key, NEW s \in Seconds, EXPIRE(k, s)
    PROVE  TM!Expire(k, s, now')
<1>0. Found(k) <=> k \in DOMAIN Dict
  BY DictOf DEF Alive, Found, Expired
<1>1. CASE ~ Found(k)
  <2>1. UNCHANGED <<now, Dict, Deadline>> /\ reply' = Int_(0)
    BY <1>1, GetStays DEF EXPIRE, get
  <2> QED
    BY <1>0, <1>1, <2>1 DEF TM!Expire, TM!Int_, Int_
<1>2. CASE Found(k)
  <2> DEFINE b == now' + s * Second
             e == TM!With(Deadline, k, b)
  <2>1. /\ expires' = With(expires, k, b) /\ data' = data /\ reply' = Int_(1) /\ now' \in Later
    BY <1>2 DEF EXPIRE
  <2>2. now' >= now /\ \A x \in DOMAIN expires : now > expires[x] => now' > expires[x]
    BY <2>1, TimeAssumption DEF IInv, TypeOK, Later
  <2>3. DOMAIN e = DOMAIN Deadline \cup {k} /\ \A x \in DOMAIN e : e[x] = IF x = k THEN b ELSE Deadline[x]
    BY DEF TM!With
  <2>4. /\ DOMAIN expires' = DOMAIN expires \cup {k}
        /\ \A x \in DOMAIN expires' : expires'[x] = IF x = k THEN b ELSE expires[x]
    BY <2>1 DEF With
  <2> HIDE DEF b, e
  <2>5. DOMAIN e \subseteq DOMAIN Dict
    BY <1>0, <1>2, <2>3, DictOf
  <2>6. \A x : Alive(x, data', expires', now') <=> Alive(x, Dict, e, now')
    <3>1. Alive(k, data', expires', now') <=> Alive(k, Dict, e, now')
      BY <1>0, <1>2, <2>1, <2>3, <2>4, DictOf DEF Alive
    <3>2. \A x : x # k => (Alive(x, data', expires', now') <=> Alive(x, Dict, e, now'))
      BY <2>1, <2>2, <2>3, <2>4, DictOf DEF Alive
    <3> QED
      BY <3>1, <3>2
  <2>7. \A x \in DOMAIN Dict : data'[x] = Dict[x] /\ (x \in DOMAIN expires' <=> x \in DOMAIN e)
    BY <2>1, <2>3, <2>4, DictOf DEF Alive
  <2>8. \A x \in DOMAIN e : expires'[x] = e[x]
    BY <2>3, <2>4, DictOf
  <2>9. \A x : Alive(x, Dict, e, now') => x \in DOMAIN Dict
    BY DEF Alive
  <2>10. TM!At(now', Dict, e)
    BY <2>2, <2>5, <2>6, <2>7, <2>8, <2>9, AtHolds
  <2> QED
    BY <1>0, <1>2, <2>1, <2>10 DEF TM!Expire, TM!Int_, Int_, e, b
<1> QED
  BY <1>1, <1>2

\* TTL: the reply is right at the second look at the clock.
LEMMA TtlImplements ==
    ASSUME IInv, IInv', NEW k \in Key, TTL(k)
    PROVE  TM!Ttl(k, now')
<1>0. Found(k) <=> k \in DOMAIN Dict
  BY DictOf DEF Alive, Found, Expired
<1>1. data' = GotData(k) /\ expires' = GotExpires(k)
  BY DEF TTL, get
<1>2. now' >= now
  BY TimeAssumption DEF TTL, IInv, TypeOK, Later
<1>3. ASSUME now' = now
      PROVE  TM!At(now', Dict, Deadline) /\ UNCHANGED <<Dict, Deadline>>
  <2>1. UNCHANGED <<now, Dict, Deadline>>
    BY <1>1, <1>3, GetStays
  <2>2. {x \in DOMAIN Deadline : now > Deadline[x]} = {}
    BY DictOf DEF Alive
  <2>3. Dict = TM!Restrict(Dict, DOMAIN Dict \ {}) /\ Deadline = TM!Restrict(Deadline, DOMAIN Deadline \ {})
    BY DEF Dict, Deadline, Restrict, TM!Restrict
  <2> QED
    BY <1>2, <2>1, <2>2, <2>3 DEF TM!At
<1>4. CASE ~ Found(k) /\ reply' = Int_(-2) /\ UNCHANGED now
  <2>1. k \notin DOMAIN Dict'
    BY <1>0, <1>3, <1>4
  <2> QED
    BY <1>3, <1>4, <2>1 DEF TM!Ttl, TM!Int_, Int_
<1>5. CASE Found(k) /\ k \notin DOMAIN expires /\ reply' = Int_(-1) /\ UNCHANGED now
  <2>1. k \in DOMAIN Dict' /\ k \notin DOMAIN Deadline'
    BY <1>0, <1>3, <1>5, DictOf
  <2> QED
    BY <1>3, <1>5, <2>1 DEF TM!Ttl, TM!Int_, Int_
<1>6. CASE /\ Found(k) /\ k \in DOMAIN expires
           /\ reply' = Int_(IF expires[k] < now' THEN -2 ELSE (expires[k] - now') \div Second)
  <2>1. data' = data /\ expires' = expires
    BY <1>1, <1>6 DEF Found, GotData, GotExpires
  <2>2. TM!At(now', Dict, Deadline)
    BY <1>2, <2>1, ClockMoves
  <2>3. /\ \A x : x \in DOMAIN Dict' <=> Alive(x, data', expires', now')
        /\ \A x : x \in DOMAIN Deadline' <=> x \in DOMAIN expires' /\ Alive(x, data', expires', now')
        /\ \A x \in DOMAIN Deadline' : Deadline'[x] = expires'[x]
    BY DEF Dict, Deadline, Visible, Expired, Restrict, Alive
  <2>4. now' \in Int /\ expires[k] \in Int
    BY <1>6, TimeAssumption DEF IInv, TypeOK
  <2>5. CASE expires[k] < now'
    <3>1. k \notin DOMAIN Dict'
      BY <1>6, <2>1, <2>3, <2>4, <2>5 DEF Alive
    <3> QED
      BY <1>6, <2>2, <2>5, <3>1 DEF TM!Ttl, TM!Int_, Int_
  <2>6. CASE ~ (expires[k] < now')
    <3>1. k \in DOMAIN Dict' /\ k \in DOMAIN Deadline' /\ Deadline'[k] = expires[k]
      BY <1>6, <2>1, <2>3, <2>4, <2>6 DEF Alive, Found
    <3> QED
      BY <1>6, <2>2, <2>6, <3>1 DEF TM!Ttl, TM!Int_, Int_
  <2> QED
    BY <2>5, <2>6
<1> QED
  BY <1>4, <1>5, <1>6 DEF TTL

\* Every step of the shard is a step of the abstract map, or none.
LEMMA StepImplements == IInv /\ IInv' /\ [Next]_vars => [TM!Next]_(TM!vars)
<1> SUFFICES ASSUME IInv, IInv', [Next]_vars
             PROVE  [TM!Next]_(TM!vars)
  OBVIOUS
<1>1. CASE Tick
  <2>1. now' \in Nat /\ now' >= now /\ UNCHANGED <<data, expires, reply>>
    BY <1>1, TimeAssumption DEF Tick, IInv, TypeOK
  <2>2. TM!At(now', Dict, Deadline)
    BY <2>1, ClockMoves
  <2> QED
    BY <2>1, <2>2 DEF TM!Next, TM!Tick
<1>2. ASSUME NEW k \in Key, NEW v \in Val, SET(k, v)
      PROVE  TM!Next
  BY <1>2, SetImplements DEF TM!Next
<1>3. ASSUME NEW k \in Key, NEW v \in Val, Upsert(k, v)
      PROVE  TM!Next
  BY <1>3, UpsertImplements DEF TM!Next
<1>4. ASSUME NEW k \in Key, NEW v \in Val, Modify(k, v)
      PROVE  TM!Next
  <2>1. TM!Modify(k, v)
    BY <1>4, ValueChanges DEF Modify, TM!Modify, TM!Bulk, Bulk
  <2> QED
    BY <2>1 DEF TM!Next
<1>5. ASSUME NEW k \in Key, GET(k)
      PROVE  TM!Next
  BY <1>5, GetImplements DEF TM!Next
<1>6. ASSUME NEW k \in Key, DEL(k)
      PROVE  TM!Next
  BY <1>6, DelImplements DEF TM!Next
<1>7. ASSUME NEW k \in Key, NEW s \in Seconds, EXPIRE(k, s)
      PROVE  TM!Next
  BY <1>7, ExpireImplements DEF TM!Next
<1>8. ASSUME NEW k \in Key, TTL(k)
      PROVE  TM!Next
  BY <1>8, TtlImplements DEF TM!Next
<1>9. CASE UNCHANGED vars
  BY <1>9 DEF vars, TM!vars, Dict, Deadline, Visible, Expired
<1> QED
  BY <1>1, <1>2, <1>3, <1>4, <1>5, <1>6, <1>7, <1>8, <1>9 DEF Next

\* The empty shard maps to the empty abstract map.
LEMMA InitImplements == Init => TM!Init
<1> SUFFICES ASSUME Init
             PROVE  TM!Init
  OBVIOUS
<1>1. Visible = {} /\ DOMAIN data = {} /\ DOMAIN expires = {}
  BY DEF Init, Visible
<1>2. Dict = [k \in {} |-> Nil] /\ Deadline = [k \in {} |-> 0]
  BY <1>1 DEF Dict, Deadline, Restrict
<1> QED
  BY <1>2 DEF Init, TM!Init, TM!Status, Status

\* A shard that drops an expired key only when get() meets it, and whose
\* commands look at the clock twice, implements a map whose keys are gone on
\* the tick, whatever the keys, the capacity, the clock and the lag between the
\* two looks.
THEOREM ShardImplementsTtlMap == Spec => ImplementsTtlMap
<1>1. Init => TM!Init
  BY InitImplements
<1>2. IInv /\ IInv' /\ [Next]_vars => [TM!Next]_(TM!vars)
  BY StepImplements
<1> QED
  BY <1>1, <1>2, IInvInvariant, PTL DEF Spec, TM!Spec, ImplementsTtlMap
=============================================================================
