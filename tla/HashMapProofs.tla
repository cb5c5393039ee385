---------------------------- MODULE HashMapProofs ----------------------------
(***************************************************************************)
(* HashMap implements KeyMap, for every capacity, every set of keys and    *)
(* values and every hash function.  The inductive invariant is what makes  *)
(* a probe find the right slot: types, unbroken probe chains, unique keys. *)
(***************************************************************************)
EXTENDS HashMap, FiniteSetTheorems, WellFoundedInduction, TLAPS

\* Slots that count hold real keys and values.
LiveTyped == \A i \in Index : Live(i) => entries[i].key \in Key /\ entries[i].value \in Val

\* The inductive invariant.
IInv == TypeOK /\ LiveTyped /\ ChainUnbroken /\ KeysUnique

-----------------------------------------------------------------------------
(* Probing *)

\* Every non-empty set of natural numbers has a least element: the first slot
\* at which a probe loop stops.
LEMMA LeastNat ==
    ASSUME NEW S \in SUBSET Nat, S # {}
    PROVE  \E x \in S : \A y \in S : x <= y
<1>1. PICK x \in S : \A y \in S : ~(<<y, x>> \in OpToRel(<, Nat))
  BY NatLessThanWellFounded, WFMin, Zenon
<1>2. \A y \in S : <<y, x>> \in OpToRel(<, Nat) <=> y < x
  BY Zenon DEF OpToRel
<1>3. \A y \in S : ~(y < x)
  BY <1>1, <1>2, Zenon
<1> QED
  BY <1>3, SMT

\* (idx + d) % n for an index and a distance below n wraps at most once.
LEMMA WrapOnce ==
    ASSUME NEW n \in Nat \ {0}, NEW i \in 0 .. n - 1, NEW d \in 0 .. n - 1
    PROVE  (i + d) % n = IF i + d < n THEN i + d ELSE i + d - n
  OBVIOUS

\* A probe visits every slot exactly once in Capacity steps.
LEMMA SlotFacts ==
    ASSUME TypeOK, NEW k \in Key
    PROVE  /\ \A d \in Index : Slot(k, d) \in Index
           /\ \A i \in Index : \E d \in Index : Slot(k, d) = i
           /\ \A d, x \in Index : Slot(k, d) = Slot(k, x) => d = x
<1> DEFINE h == hash[k]
<1>1. h \in Index
  BY DEF TypeOK
<1>2. \A d \in Index : Slot(k, d) = IF h + d < Capacity THEN h + d ELSE h + d - Capacity
  BY <1>1, WrapOnce, CapacityAssumption DEF Slot, Index
<1>3. \A d \in Index : Slot(k, d) \in Index
  BY <1>1, <1>2, CapacityAssumption DEF Index
<1>4. ASSUME NEW i \in Index PROVE \E d \in Index : Slot(k, d) = i
  <2>1. CASE i >= h
    <3>1. i - h \in Index
      BY <1>1, <2>1, CapacityAssumption DEF Index
    <3> QED
      BY <1>1, <1>2, <2>1, <3>1, CapacityAssumption DEF Index
  <2>2. CASE i < h
    <3>1. i - h + Capacity \in Index
      BY <1>1, <2>2, CapacityAssumption DEF Index
    <3> QED
      BY <1>1, <1>2, <2>2, <3>1, CapacityAssumption DEF Index
  <2> QED
    BY <1>1, <2>1, <2>2, CapacityAssumption DEF Index
<1>5. ASSUME NEW d \in Index, NEW x \in Index, Slot(k, d) = Slot(k, x) PROVE d = x
  BY <1>1, <1>2, <1>5, CapacityAssumption DEF Index
<1> QED
  BY <1>3, <1>4, <1>5

\* The loop stops at a definite slot, having stepped over used slots only.
LEMMA ProbeFacts ==
    ASSUME TypeOK, NEW k \in Key, ~Wrapped(k)
    PROVE  \E d \in Index :
              /\ Probe(k) = Slot(k, d)
              /\ ~entries[Slot(k, d)].occupied \/ Holds(Slot(k, d), k)
              /\ \A x \in 0 .. d - 1 : /\ entries[Slot(k, x)].occupied
                                       /\ ~Holds(Slot(k, x), k)
<1> DEFINE d == CHOOSE d \in Stops(k) : \A x \in Stops(k) : d <= x
<1>1. Stops(k) \in SUBSET Nat /\ Stops(k) # {} /\ Stops(k) \subseteq Index
  BY CapacityAssumption DEF Wrapped, Stops, Index
<1>2. \E y \in Stops(k) : \A x \in Stops(k) : y <= x
  BY <1>1, LeastNat, Zenon
<1>3. d \in Stops(k) /\ \A x \in Stops(k) : d <= x
  BY <1>2, Zenon
<1>4. d \in Index
  BY <1>1, <1>3
<1> HIDE DEF d
<1>5. ASSUME NEW x \in 0 .. d - 1
      PROVE  entries[Slot(k, x)].occupied /\ ~Holds(Slot(k, x), k)
  <2>1. x \in Index /\ x \notin Stops(k)
    BY <1>3, <1>4, <1>5, CapacityAssumption DEF Index
  <2> QED
    BY <2>1 DEF Stops
<1>6. Probe(k) = Slot(k, d)
  BY DEF Probe, d
<1> QED
  BY <1>3, <1>4, <1>5, <1>6 DEF Stops

\* A stored key is found, in the slot that holds it ...
LEMMA HeldIsFound ==
    ASSUME IInv, NEW k \in Key, NEW i \in Index, Holds(i, k)
    PROVE  Found(k) /\ Probe(k) = i
<1>1. PICK e \in Index : Slot(k, e) = i
  BY SlotFacts DEF IInv
<1>2. e \in Stops(k)
  BY <1>1 DEF Stops
<1>3. ~Wrapped(k)
  BY <1>2 DEF Wrapped
<1>4. PICK d \in Index :
              /\ Probe(k) = Slot(k, d)
              /\ ~entries[Slot(k, d)].occupied \/ Holds(Slot(k, d), k)
              /\ \A x \in 0 .. d - 1 : /\ entries[Slot(k, x)].occupied
                                       /\ ~Holds(Slot(k, x), k)
  BY <1>3, ProbeFacts DEF IInv
<1>5. ~(e < d)
  BY <1>1, <1>4, CapacityAssumption DEF Index
<1>6. ~(d < e)
  <2> SUFFICES ASSUME d < e PROVE FALSE
    OBVIOUS
  <2>1. d \in 0 .. e - 1
    BY CapacityAssumption DEF Index
  <2>2. entries[Slot(k, d)].occupied
    BY <1>1, <2>1 DEF IInv, ChainUnbroken, Holds
  <2>3. Holds(Slot(k, d), k) /\ Slot(k, d) \in Index
    BY <1>4, <2>2, SlotFacts DEF IInv
  <2>4. Slot(k, d) = i
    BY <2>3 DEF IInv, KeysUnique, Holds
  <2> QED
    BY <1>1, <2>4, SlotFacts, CapacityAssumption DEF IInv, Index
<1>7. d = e
  BY <1>5, <1>6, CapacityAssumption DEF Index
<1> QED
  BY <1>1, <1>3, <1>4, <1>7 DEF Found

\* ... and a found key is stored there.
LEMMA FoundIsHeld ==
    ASSUME IInv, NEW k \in Key
    PROVE  /\ ~Wrapped(k) => Probe(k) \in Index
           /\ Found(k) <=> \E i \in Index : Holds(i, k)
           /\ Found(k) => Holds(Probe(k), k)
           /\ ~Wrapped(k) /\ ~Found(k) => ~entries[Probe(k)].occupied
<1>1. ~Wrapped(k) => Probe(k) \in Index
  BY ProbeFacts, SlotFacts DEF IInv
<1>2. Found(k) => Holds(Probe(k), k)
  BY DEF Found
<1>3. Found(k) => \E i \in Index : Holds(i, k)
  BY <1>1, <1>2 DEF Found
<1>4. (\E i \in Index : Holds(i, k)) => Found(k)
  BY HeldIsFound
<1>5. ~Wrapped(k) /\ ~Found(k) => ~entries[Probe(k)].occupied
  BY ProbeFacts DEF IInv, Found
<1> QED
  BY <1>1, <1>2, <1>3, <1>4, <1>5

-----------------------------------------------------------------------------
(* The invariant is preserved *)

\* A step that stores no new key keeps the invariant.
LEMMA ShrinkPreserves ==
    ASSUME IInv, UNCHANGED hash, TypeOK', LiveTyped',
           \A i \in Index : /\ entries[i].occupied => entries'[i].occupied
                            /\ Live(i)' => Live(i) /\ entries'[i].key = entries[i].key
    PROVE  IInv'
<1>1. ChainUnbroken'
  <2> SUFFICES ASSUME NEW i \in Index, NEW d \in Index, Live(i)',
                      Slot(entries[i].key, d)' = i, NEW x \in 0 .. d - 1
               PROVE  (entries[Slot(entries[i].key, x)].occupied)'
    BY DEF ChainUnbroken
  <2>1. Live(i) /\ Slot(entries[i].key, d) = i
    BY DEF Slot
  <2>2. entries[Slot(entries[i].key, x)].occupied
    BY <2>1 DEF IInv, ChainUnbroken
  <2>3. entries[i].key \in Key /\ x \in Index
    BY <2>1, CapacityAssumption DEF IInv, LiveTyped, Index
  <2>4. Slot(entries[i].key, x) \in Index
    BY <2>3, SlotFacts DEF IInv
  <2>5. Slot(entries[i].key, x)' = Slot(entries[i].key, x)
    BY DEF Slot
  <2> QED
    BY <2>2, <2>4, <2>5
<1>2. KeysUnique'
  BY DEF IInv, KeysUnique
<1> QED
  BY <1>1, <1>2 DEF IInv

\* Storing a new key where its probe found a free slot keeps the invariant.
LEMMA InsertPreserves ==
    ASSUME IInv, NEW k \in Key, NEW v \in Val, ~Wrapped(k), ~Found(k),
           UNCHANGED hash, size' \in Int,
           entries' = [entries EXCEPT ![Probe(k)] =
                         [key |-> k, value |-> v, occupied |-> TRUE, deleted |-> FALSE]]
    PROVE  IInv'
<1> DEFINE p == Probe(k)
<1>1. p \in Index /\ ~entries[p].occupied
  BY FoundIsHeld
<1>2. \A i \in Index : ~Holds(i, k)
  BY FoundIsHeld
<1>3. PICK e \in Index : /\ p = Slot(k, e)
                         /\ \A x \in 0 .. e - 1 : entries[Slot(k, x)].occupied
  BY ProbeFacts DEF IInv
<1> HIDE DEF p
<1>4. entries' = [entries EXCEPT ![p] =
                    [key |-> k, value |-> v, occupied |-> TRUE, deleted |-> FALSE]]
  BY DEF p
<1>5. TypeOK'
  BY <1>1, <1>4 DEF IInv, TypeOK, Entry
<1>6. /\ entries'[p].key = k /\ entries'[p].value = v /\ entries'[p].occupied
      /\ \A i \in Index \ {p} : entries'[i] = entries[i]
  BY <1>1, <1>4 DEF IInv, TypeOK
<1>7. \A i \in Index \ {p} : Live(i)' => Live(i)
  BY <1>6 DEF Live
<1>8. LiveTyped'
  BY <1>6, <1>7 DEF IInv, LiveTyped
<1>9. ChainUnbroken'
  <2> SUFFICES ASSUME NEW i \in Index, NEW d \in Index, Live(i)',
                      Slot(entries[i].key, d)' = i, NEW x \in 0 .. d - 1
               PROVE  (entries[Slot(entries[i].key, x)].occupied)'
    BY DEF ChainUnbroken
  <2>1. \A q \in Key, y \in Index : Slot(q, y)' = Slot(q, y) /\ Slot(q, y) \in Index
    BY SlotFacts DEF Slot, IInv
  <2>2. x \in Index
    BY CapacityAssumption DEF Index
  <2>3. CASE i = p
    <3>1. Slot(k, d) = p
      BY <1>6, <2>3 DEF Slot
    <3>2. d = e
      BY <1>3, <3>1, SlotFacts DEF IInv
    <3>3. entries[Slot(k, x)].occupied
      BY <1>3, <3>2
    <3>4. Slot(entries[i].key, x)' = Slot(k, x)
      BY <1>6, <2>3 DEF Slot
    <3> QED
      BY <1>6, <2>1, <2>2, <3>3, <3>4
  <2>4. CASE i # p
    <3>1. Live(i) /\ entries'[i] = entries[i] /\ entries[i].key \in Key
      BY <1>6, <1>7, <2>4 DEF IInv, LiveTyped
    <3>2. Slot(entries[i].key, d) = i
      BY <3>1 DEF Slot
    <3>3. entries[Slot(entries[i].key, x)].occupied
      BY <3>1, <3>2 DEF IInv, ChainUnbroken
    <3>4. Slot(entries[i].key, x)' = Slot(entries[i].key, x)
      BY <3>1 DEF Slot
    <3> QED
      BY <1>6, <2>1, <2>2, <3>1, <3>3, <3>4
  <2> QED
    BY <2>3, <2>4
<1>10. KeysUnique'
  <2>1. \A i \in Index : Live(i)' /\ entries'[i].key = k => i = p
    BY <1>2, <1>6, <1>7 DEF Holds
  <2> QED
    BY <1>1, <1>6, <1>7, <2>1 DEF IInv, KeysUnique
<1> QED
  BY <1>5, <1>8, <1>9, <1>10 DEF IInv

\* put, get and del preserve the inductive invariant.
LEMMA IInvStep == IInv /\ [Next]_vars => IInv'
<1> SUFFICES ASSUME IInv, [Next]_vars PROVE IInv'
  OBVIOUS
<1>1. ASSUME NEW k \in Key, NEW v \in Val, put(k, v) PROVE IInv'
  <2>1. CASE Found(k) /\ entries' = [entries EXCEPT ![Probe(k)].value = v]
             /\ UNCHANGED <<hash, size>>
    <3>1. Probe(k) \in Index
      BY <2>1, FoundIsHeld DEF Found
    <3>2. TypeOK' /\ LiveTyped'
      BY <2>1, <3>1 DEF IInv, TypeOK, Entry, LiveTyped, Live
    <3>3. \A i \in Index : /\ entries[i].occupied => entries'[i].occupied
                           /\ Live(i)' => Live(i) /\ entries'[i].key = entries[i].key
      BY <2>1, <3>1 DEF IInv, TypeOK, Entry, Live
    <3> QED
      BY <2>1, <3>2, <3>3, ShrinkPreserves
  <2>2. CASE ~Wrapped(k) /\ ~Found(k) /\ UNCHANGED hash /\ size' = size + 1
             /\ entries' = [entries EXCEPT ![Probe(k)] =
                   [key |-> k, value |-> v, occupied |-> TRUE, deleted |-> FALSE]]
    <3>1. size' \in Int
      BY <2>2 DEF IInv, TypeOK
    <3> QED
      BY <2>2, <3>1, InsertPreserves
  <2>3. CASE UNCHANGED <<hash, entries, size>>
    BY <2>3 DEF IInv, TypeOK, LiveTyped, Live, ChainUnbroken, Slot, KeysUnique
  <2> QED
    BY <1>1, <2>1, <2>2, <2>3 DEF put
<1>2. ASSUME NEW k \in Key, del(k) PROVE IInv'
  <2>1. CASE Found(k)
    <3>1. PICK p \in Index : p = Probe(k)
      BY <2>1, FoundIsHeld DEF Found
    <3>2. entries' = [entries EXCEPT ![p] = [@ EXCEPT !.deleted = TRUE, !.value = Monostate]]
      BY <1>2, <2>1, <3>1 DEF del
    <3>3. entries' \in [Index -> Entry]
      BY <3>2 DEF IInv, TypeOK, Entry
    <3>4. /\ entries'[p].deleted /\ entries'[p].occupied = entries[p].occupied
          /\ \A i \in Index \ {p} : entries'[i] = entries[i]
      BY <3>2 DEF IInv, TypeOK, Entry
    <3>5. TypeOK'
      BY <1>2, <2>1, <3>3 DEF del, IInv, TypeOK
    <3>6. LiveTyped'
      BY <3>4 DEF IInv, LiveTyped, Live
    <3>7. \A i \in Index : /\ entries[i].occupied => entries'[i].occupied
                           /\ Live(i)' => Live(i) /\ entries'[i].key = entries[i].key
      BY <3>4 DEF Live
    <3> QED
      BY <1>2, <3>5, <3>6, <3>7, ShrinkPreserves DEF del
  <2>2. CASE ~Found(k)
    BY <1>2, <2>2
       DEF del, IInv, TypeOK, LiveTyped, Live, ChainUnbroken, Slot, KeysUnique
  <2> QED
    BY <2>1, <2>2
<1>3. CASE UNCHANGED <<hash, entries, size>>
  BY <1>3 DEF IInv, TypeOK, LiveTyped, Live, ChainUnbroken, Slot, KeysUnique
<1> QED
  BY <1>1, <1>2, <1>3 DEF Next, vars, get

\* The inductive invariant holds in every reachable state.
THEOREM IInvInvariant == Spec => []IInv
<1>1. Init => IInv
  BY CapacityAssumption
     DEF Init, IInv, TypeOK, Entry, LiveTyped, ChainUnbroken, KeysUnique, Live
<1> QED
  BY <1>1, IInvStep, PTL DEF Spec

\* Entries, tombstones and size_ keep their types.
THEOREM TypeCorrect == Spec => []TypeOK
<1>1. IInv => TypeOK
  BY DEF IInv
<1> QED
  BY <1>1, IInvInvariant, PTL

\* For every hash function, the slots between a key and the slot it hashes to
\* are all taken: erase leaves tombstones, so the probe of get and put meets
\* the key before an empty slot.
THEOREM ProbingCorrect == Spec => []ChainUnbroken
<1>1. IInv => ChainUnbroken
  BY DEF IInv
<1> QED
  BY <1>1, IInvInvariant, PTL

\* put never stores a key twice: it probes past tombstones, and would meet the
\* key before an empty slot.
THEOREM UniqueCorrect == Spec => []KeysUnique
<1>1. IInv => KeysUnique
  BY DEF IInv
<1> QED
  BY <1>1, IInvInvariant, PTL

-----------------------------------------------------------------------------
(* The number of keys *)

LiveSlots == {i \in Index : Live(i)}

\* entries_ has capacity_ slots.
LEMMA IndexFinite == IsFiniteSet(Index) /\ Cardinality(Index) = Capacity
<1>1. 0 \in Int /\ Capacity - 1 \in Int
  BY CapacityAssumption
<1>2. IsFiniteSet(0 .. Capacity - 1)
      /\ Cardinality(0 .. Capacity - 1) = IF 0 > Capacity - 1 THEN 0 ELSE Capacity - 1 - 0 + 1
  BY <1>1, FS_Interval
<1> QED
  BY <1>2, CapacityAssumption DEF Index

\* put and del keep size_ equal to the number of stored keys.
LEMMA SizeStep == IInv /\ SizeExact /\ [Next]_vars => SizeExact'
<1> SUFFICES ASSUME IInv, SizeExact, [Next]_vars PROVE SizeExact'
  OBVIOUS
<1>1. SizeExact <=> size = Cardinality(LiveSlots)
  BY DEF SizeExact, LiveSlots
<1>2. IsFiniteSet(LiveSlots)
  BY IndexFinite, FS_Subset DEF LiveSlots
<1>3. ASSUME NEW k \in Key, NEW v \in Val, put(k, v) PROVE SizeExact'
  <2>1. CASE ~Wrapped(k) /\ ~Found(k) /\ size' = size + 1
             /\ entries' = [entries EXCEPT ![Probe(k)] =
                   [key |-> k, value |-> v, occupied |-> TRUE, deleted |-> FALSE]]
    <3>1. PICK p \in Index : p = Probe(k) /\ ~entries[p].occupied
      BY <2>1, FoundIsHeld
    <3>2. LiveSlots' = LiveSlots \cup {p} /\ p \notin LiveSlots
      BY <2>1, <3>1 DEF LiveSlots, Live, IInv, TypeOK
    <3> QED
      BY <1>1, <1>2, <2>1, <3>2, FS_AddElement DEF SizeExact, LiveSlots
  <2>2. CASE Found(k) /\ entries' = [entries EXCEPT ![Probe(k)].value = v]
             /\ size' = size
    <3>1. PICK p \in Index : p = Probe(k)
      BY <2>2, FoundIsHeld DEF Found
    <3>2. LiveSlots' = LiveSlots
      BY <2>2, <3>1 DEF LiveSlots, Live, IInv, TypeOK, Entry
    <3> QED
      BY <2>2, <3>2 DEF SizeExact, LiveSlots
  <2>3. CASE UNCHANGED <<entries, size>>
    BY <2>3 DEF SizeExact, Live
  <2> QED
    BY <1>3, <2>1, <2>2, <2>3 DEF put
<1>4. ASSUME NEW k \in Key, del(k) PROVE SizeExact'
  <2>1. CASE Found(k)
    <3>1. PICK p \in Index : p = Probe(k) /\ Live(p)
      BY <2>1, FoundIsHeld DEF Found, Holds
    <3>2. entries' = [entries EXCEPT ![p] = [@ EXCEPT !.deleted = TRUE, !.value = Monostate]]
      BY <1>4, <2>1, <3>1 DEF del
    <3>3. LiveSlots' = LiveSlots \ {p} /\ p \in LiveSlots
      BY <3>1, <3>2 DEF LiveSlots, Live, IInv, TypeOK, Entry
    <3> QED
      BY <1>1, <1>2, <1>4, <2>1, <3>3, FS_RemoveElement DEF SizeExact, LiveSlots, del
  <2>2. CASE ~Found(k)
    BY <1>4, <2>2 DEF SizeExact, Live, del
  <2> QED
    BY <2>1, <2>2
<1>5. CASE UNCHANGED <<entries, size>>
  BY <1>5 DEF SizeExact, Live
<1> QED
  BY <1>3, <1>4, <1>5 DEF Next, vars, get

\* size_ is the number of stored keys, whatever was inserted and deleted.
THEOREM SizeCorrect == Spec => []SizeExact
<1>1. Init => SizeExact
  <2> SUFFICES ASSUME Init PROVE SizeExact
    OBVIOUS
  <2>1. {i \in Index : Live(i)} = {}
    BY DEF Init, Live
  <2> QED
    BY <2>1, FS_EmptySet DEF Init, SizeExact
<1> QED
  BY <1>1, IInvInvariant, SizeStep, PTL DEF Spec

-----------------------------------------------------------------------------
(* Refinement *)

\* DictView is what the slots hold, independently of the CHOOSE in it.
DictOK ==
    \A k \in Key :
        /\ \A i \in Index : Holds(i, k) => DictView[k] = entries[i].value
        /\ (\A i \in Index : ~Holds(i, k)) => DictView[k] = Absent

\* Unique keys make the view of the slots a function of their contents.
LEMMA DictIsView == IInv => DictOK
<1> SUFFICES ASSUME IInv, NEW k \in Key
             PROVE  /\ \A i \in Index : Holds(i, k) => DictView[k] = entries[i].value
                    /\ (\A i \in Index : ~Holds(i, k)) => DictView[k] = Absent
  BY DEF DictOK
<1>1. ASSUME NEW i \in Index, Holds(i, k) PROVE DictView[k] = entries[i].value
  <2>1. \A j \in Index : Holds(j, k) => j = i
    BY <1>1 DEF IInv, KeysUnique, Holds
  <2>2. (CHOOSE j \in Index : Holds(j, k)) = i
    BY <1>1, <2>1
  <2> QED
    BY <1>1, <2>2 DEF DictView
<1>2. (\A i \in Index : ~Holds(i, k)) => DictView[k] = Absent
  BY DEF DictView
<1> QED
  BY <1>1, <1>2

\* A probe tells a stored key from an absent one.
LEMMA FoundInDict ==
    ASSUME IInv, NEW k \in Key
    PROVE  /\ Found(k) => DictView[k] # Absent /\ DictView[k] = entries[Probe(k)].value
           /\ ~Found(k) => DictView[k] = Absent
<1>1. DictOK
  BY DictIsView
<1>2. CASE Found(k)
  <2>1. Probe(k) \in Index /\ Holds(Probe(k), k)
    BY <1>2, FoundIsHeld DEF Found
  <2>2. DictView[k] = entries[Probe(k)].value
    BY <1>1, <2>1 DEF DictOK
  <2>3. entries[Probe(k)].value \in Val
    BY <2>1 DEF IInv, LiveTyped, Holds
  <2> QED
    BY <1>2, <2>2, <2>3, ValueAssumption
<1>3. CASE ~Found(k)
  BY <1>1, <1>3, FoundIsHeld DEF DictOK
<1> QED
  BY <1>2, <1>3

\* A step that touches the slots of one key changes the view at that key.
LEMMA ViewStep ==
    ASSUME DictOK, DictOK', NEW k \in Key, NEW nv,
           \A q \in Key \ {k}, i \in Index :
              /\ Holds(i, q)' <=> Holds(i, q)
              /\ Holds(i, q) => entries'[i].value = entries[i].value,
           \/ \E i \in Index : Holds(i, k)' /\ entries'[i].value = nv
           \/ nv = Absent /\ \A i \in Index : ~Holds(i, k)'
    PROVE  DictView' = [DictView EXCEPT ![k] = nv]
<1>1. DictView'[k] = nv
  BY DEF DictOK
<1>2. ASSUME NEW q \in Key \ {k} PROVE DictView'[q] = DictView[q]
  <2>1. CASE \E i \in Index : Holds(i, q)
    BY <2>1 DEF DictOK
  <2>2. CASE \A i \in Index : ~Holds(i, q)
    BY <2>2 DEF DictOK
  <2> QED
    BY <2>1, <2>2
<1>3. DictView = [q \in Key |-> DictView[q]] /\ DictView' = [q \in Key |-> DictView'[q]]
  BY DEF DictView
<1> QED
  BY <1>1, <1>2, <1>3

\* A put is refused exactly when every slot has been taken.
LEMMA RoomFacts ==
    ASSUME IInv, NEW k \in Key, ~Found(k)
    PROVE  /\ Wrapped(k) => Cardinality(Occupied) = Capacity
           /\ ~Wrapped(k) => Cardinality(Occupied) < Capacity
<1>1. Occupied \in SUBSET Index
  BY DEF Occupied
<1>2. /\ IsFiniteSet(Occupied) /\ Cardinality(Occupied) <= Capacity
      /\ Cardinality(Occupied) = Capacity => Occupied = Index
  BY <1>1, IndexFinite, FS_Subset
<1>3. Cardinality(Occupied) \in Nat
  BY <1>2, FS_CardinalityType
<1>4. ASSUME Wrapped(k) PROVE Occupied = Index
  <2> SUFFICES ASSUME NEW i \in Index PROVE entries[i].occupied
    BY <1>1 DEF Occupied
  <2>1. PICK d \in Index : Slot(k, d) = i
    BY SlotFacts DEF IInv
  <2> QED
    BY <1>4, <2>1 DEF Wrapped, Stops
<1>5. ASSUME ~Wrapped(k) PROVE Occupied # Index
  BY <1>5, FoundIsHeld DEF Occupied
<1> QED
  BY <1>2, <1>3, <1>4, <1>5, IndexFinite, CapacityAssumption

\* A put is an Update, an Insert or a PutFull of the abstract map.
LEMMA PutRefines ==
    ASSUME IInv, IInv', DictOK, DictOK', NEW k \in Key, NEW v \in Val, put(k, v)
    PROVE  KM!Update(k, v) \/ KM!Insert(k, v) \/ KM!PutFull(k)
<1>1. CASE Wrapped(k) /\ ret' = "full" /\ UNCHANGED <<hash, entries, size>>
  <2>1. ~Found(k) /\ DictView[k] = Absent
    BY <1>1, FoundInDict DEF Found
  <2>2. Cardinality(Occupied) = Capacity
    BY <1>1, <2>1, RoomFacts
  <2>3. DictView' = DictView /\ Occupied' = Occupied
    BY <1>1 DEF DictView, Holds, Live, Occupied
  <2> QED
    BY <1>1, <2>1, <2>2, <2>3 DEF KM!PutFull
<1>2. CASE Found(k) /\ entries' = [entries EXCEPT ![Probe(k)].value = v]
           /\ ret' = "updated"
  <2>1. PICK p \in Index : p = Probe(k) /\ Holds(p, k)
    BY <1>2, FoundIsHeld DEF Found
  <2>2. \A i \in Index : /\ entries'[i].key = entries[i].key
                         /\ entries'[i].occupied = entries[i].occupied
                         /\ entries'[i].deleted = entries[i].deleted
                         /\ entries'[i].value = IF i = p THEN v ELSE entries[i].value
    BY <1>2, <2>1 DEF IInv, TypeOK, Entry
  <2>3. \A i \in Index, q \in Key : Holds(i, q)' <=> Holds(i, q)
    BY <2>2 DEF Holds, Live
  <2>4. \A q \in Key \ {k}, i \in Index :
              Holds(i, q) => entries'[i].value = entries[i].value
    BY <2>1, <2>2 DEF Holds
  <2>5. DictView' = [DictView EXCEPT ![k] = v]
    BY <2>1, <2>2, <2>3, <2>4, ViewStep
  <2>6. Occupied' = Occupied
    BY <2>2 DEF Occupied
  <2>7. DictView[k] # Absent
    BY <1>2, FoundInDict
  <2> QED
    BY <1>2, <2>5, <2>6, <2>7 DEF KM!Update
<1>3. CASE ~Wrapped(k) /\ ~Found(k) /\ ret' = "inserted"
           /\ entries' = [entries EXCEPT ![Probe(k)] =
                 [key |-> k, value |-> v, occupied |-> TRUE, deleted |-> FALSE]]
  <2>1. PICK p \in Index : p = Probe(k) /\ ~entries[p].occupied
    BY <1>3, FoundIsHeld
  <2>2. /\ entries'[p] = [key |-> k, value |-> v, occupied |-> TRUE, deleted |-> FALSE]
        /\ \A i \in Index \ {p} : entries'[i] = entries[i]
    BY <1>3, <2>1 DEF IInv, TypeOK
  <2>3. Holds(p, k)' /\ entries'[p].value = v
    BY <2>2 DEF Holds, Live
  <2>4. \A q \in Key \ {k}, i \in Index :
              /\ Holds(i, q)' <=> Holds(i, q)
              /\ Holds(i, q) => entries'[i].value = entries[i].value
    BY <2>1, <2>2 DEF Holds, Live
  <2>5. DictView' = [DictView EXCEPT ![k] = v]
    BY <2>3, <2>4, ViewStep
  <2>6. Occupied' = Occupied \cup {p} /\ p \notin Occupied
    BY <2>1, <2>2 DEF Occupied
  <2>7. IsFiniteSet(Occupied)
    BY IndexFinite, FS_Subset DEF Occupied
  <2>8. Cardinality(Occupied') = Cardinality(Occupied) + 1
    BY <2>6, <2>7, FS_AddElement
  <2>9. DictView[k] = Absent /\ Cardinality(Occupied) < Capacity
    BY <1>3, FoundInDict, RoomFacts
  <2> QED
    BY <1>3, <2>5, <2>8, <2>9 DEF KM!Insert
<1> QED
  BY <1>1, <1>2, <1>3 DEF put

\* A del is a Del of the abstract map.
LEMMA DelRefines ==
    ASSUME IInv, IInv', DictOK, DictOK', NEW k \in Key, del(k)
    PROVE  KM!Del(k)
<1>1. CASE Found(k)
  <2>1. PICK p \in Index : p = Probe(k) /\ Holds(p, k)
    BY <1>1, FoundIsHeld DEF Found
  <2>2. entries' = [entries EXCEPT ![p] = [@ EXCEPT !.deleted = TRUE, !.value = Monostate]]
    BY <1>1, <2>1 DEF del
  <2>3. /\ entries'[p].deleted /\ entries'[p].occupied = entries[p].occupied
        /\ \A i \in Index \ {p} : entries'[i] = entries[i]
    BY <2>2 DEF IInv, TypeOK, Entry
  <2>4. \A i \in Index : ~Holds(i, k)'
    BY <2>1, <2>3 DEF Holds, Live, IInv, KeysUnique
  <2>5. \A q \in Key \ {k}, i \in Index :
              /\ Holds(i, q)' <=> Holds(i, q)
              /\ Holds(i, q) => entries'[i].value = entries[i].value
    BY <2>1, <2>3 DEF Holds, Live
  <2>6. DictView' = [DictView EXCEPT ![k] = Absent]
    BY <2>4, <2>5, ViewStep
  <2>7. Occupied' = Occupied
    BY <2>3 DEF Occupied
  <2>8. DictView[k] # Absent
    BY <1>1, FoundInDict
  <2> QED
    BY <1>1, <2>6, <2>7, <2>8 DEF KM!Del, del
<1>2. CASE ~Found(k)
  <2>1. DictView' = DictView /\ Occupied' = Occupied
    BY <1>2 DEF del, DictView, Holds, Live, Occupied
  <2>2. DictView[k] = Absent
    BY <1>2, FoundInDict
  <2>3. DictView = [DictView EXCEPT ![k] = Absent]
    BY <2>2 DEF DictView
  <2> QED
    BY <1>2, <2>1, <2>2, <2>3 DEF KM!Del, del
<1> QED
  BY <1>1, <1>2

\* A get is a Get of the abstract map.
LEMMA GetRefines ==
    ASSUME IInv, NEW k \in Key, get(k)
    PROVE  KM!Get(k)
<1>1. DictView' = DictView /\ Occupied' = Occupied
  BY DEF get, DictView, Holds, Live, Occupied
<1>2. ret' = DictView[k]
  BY FoundInDict DEF get
<1> QED
  BY <1>1, <1>2 DEF KM!Get

\* The hash map implements the abstract map with bounded room, for every
\* capacity and every hash function: no call ever returns a stale value, loses
\* a key or refuses a put while a slot has never been used.
THEOREM Refinement == Spec => ImplementsKeyMap
<1>1. Init => KM!Init
  <2> SUFFICES ASSUME Init PROVE KM!Init
    OBVIOUS
  <2>1. Occupied = {}
    BY DEF Init, Occupied
  <2>2. DictView = [k \in Key |-> Absent]
    BY DEF Init, DictView, Holds, Live
  <2> QED
    BY <2>1, <2>2, FS_EmptySet DEF Init, KM!Init
<1>2. IInv /\ IInv' /\ DictOK /\ DictOK' /\ [Next]_vars => [KM!Next]_KM!vars
  <2> SUFFICES ASSUME IInv, IInv', DictOK, DictOK', [Next]_vars
               PROVE  [KM!Next]_KM!vars
    OBVIOUS
  <2>1. ASSUME NEW k \in Key, NEW v \in Val, put(k, v) PROVE KM!Next
    BY <2>1, PutRefines DEF KM!Next
  <2>2. ASSUME NEW k \in Key, get(k) PROVE KM!Next
    BY <2>2, GetRefines DEF KM!Next
  <2>3. ASSUME NEW k \in Key, del(k) PROVE KM!Next
    BY <2>3, DelRefines DEF KM!Next
  <2>4. CASE UNCHANGED vars
    BY <2>4 DEF vars, KM!vars, DictView, Holds, Live, Occupied
  <2> QED
    BY <2>1, <2>2, <2>3, <2>4 DEF Next
<1>3. Spec => []DictOK
  BY IInvInvariant, DictIsView, PTL
<1> QED
  BY <1>1, <1>2, <1>3, IInvInvariant, PTL DEF Spec, ImplementsKeyMap, KM!Spec
=============================================================================
