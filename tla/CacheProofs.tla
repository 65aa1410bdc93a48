----------------------------- MODULE CacheProofs -----------------------------
(***************************************************************************)
(* Theorems about Cache for any users, keys, bodies, lifetimes, capacity   *)
(* and clock range.                                                        *)
(***************************************************************************)
EXTENDS Cache, FiniteSetTheorems, TLAPS

USE KeysFinite, TtlsAreDurations, CapacityPositive, MaxInstantNat, NoKeyIsNoKey,
    AbsentIsNoEntry

\* Well-typed maps, reachable or not.
Maps == [Keys -> Entry \cup {Absent}]

\* Making room for k evicts at most, and leaves a place for k.
LEMMA RoomForOne ==
    ASSUME NEW e \in Maps, Cardinality(Stored(e)) <= Capacity,
           NEW k \in Keys, NEW r \in WithRoom(e, k)
    PROVE  /\ r \in Maps
           /\ \A j \in Keys : r[j] \in {e[j], Absent}
           /\ Cardinality(Stored(r)) <= Capacity
           /\ Cardinality(Stored(r) \cup {k}) <= Capacity
<1> DEFINE n == Cardinality(Stored(e))
<1>1. IsFiniteSet(Stored(e)) /\ n \in Nat
  BY FS_Subset, FS_CardinalityType DEF Stored
<1>2. CASE n >= Capacity /\ e[k] = Absent
  <2>1. PICK j \in Stored(e) : r = [e EXCEPT ![j] = Absent]
    BY <1>2 DEF WithRoom, Earliest
  <2>2. Stored(r) = Stored(e) \ {j}
    BY <2>1 DEF Stored, Maps
  <2>3. IsFiniteSet(Stored(r)) /\ Cardinality(Stored(r)) = n - 1
    BY <1>1, <2>2, FS_RemoveElement
  <2>4. Cardinality(Stored(r) \cup {k}) = Cardinality(Stored(r)) + 1
    BY <1>2, <2>2, <2>3, FS_AddElement DEF Stored
  <2>5. r \in Maps /\ \A i \in Keys : r[i] \in {e[i], Absent}
    BY <2>1 DEF Maps, Stored
  <2> QED BY <1>1, <2>3, <2>4, <2>5
<1>3. CASE ~(n >= Capacity /\ e[k] = Absent)
  <2>1. r = e
    BY <1>3 DEF WithRoom
  <2>2. CASE e[k] # Absent
    <3>1. Stored(r) \cup {k} = Stored(r)
      BY <2>1, <2>2 DEF Stored
    <3> QED BY <2>1, <3>1
  <2>3. CASE e[k] = Absent
    <3>1. n < Capacity
      BY <1>1, <1>3, <2>3
    <3>2. IsFiniteSet(Stored(e)) /\ k \notin Stored(e)
      BY <1>1, <2>3 DEF Stored
    <3>3. Cardinality(Stored(e) \cup {k}) = n + 1
      BY <3>2, FS_AddElement
    <3> QED BY <1>1, <2>1, <3>1, <3>3
  <2> QED BY <2>2, <2>3
<1> QED BY <1>2, <1>3

\* Pruning keeps the type and can only shrink the map.
LEMMA PrunedFits ==
    ASSUME TypeOK, Bounded
    PROVE  /\ Pruned \in Maps
           /\ Stored(Pruned) = LiveKeys
           /\ Cardinality(Stored(Pruned)) <= Capacity
<1>1. Pruned \in Maps
  BY DEF Pruned, Maps, TypeOK
<1>2. Stored(Pruned) = LiveKeys /\ LiveKeys \subseteq Stored(entry)
  BY DEF Pruned, Stored, LiveKeys, Live
<1>3. IsFiniteSet(Stored(entry)) /\ Cardinality(Stored(entry)) \in Nat
  BY FS_Subset, FS_CardinalityType DEF Stored
<1>4. Cardinality(LiveKeys) <= Cardinality(Stored(entry)) /\ Cardinality(LiveKeys) \in Nat
  BY <1>2, <1>3, FS_Subset, FS_CardinalityType
<1> QED BY <1>1, <1>2, <1>3, <1>4 DEF Bounded

\* A step that only takes entries away keeps the map bounded.
LEMMA ShrinkingIsBounded ==
    ASSUME Bounded, \A k \in Keys : entry'[k] # Absent => entry[k] # Absent
    PROVE  Bounded'
<1>1. Stored(entry') \subseteq Stored(entry)
  BY DEF Stored
<1>2. IsFiniteSet(Stored(entry)) /\ Cardinality(Stored(entry)) \in Nat
  BY FS_Subset, FS_CardinalityType DEF Stored
<1>3. Cardinality(Stored(entry')) <= Cardinality(Stored(entry)) 
      /\ Cardinality(Stored(entry')) \in Nat
  BY <1>1, <1>2, FS_Subset, FS_CardinalityType
<1> QED BY <1>2, <1>3 DEF Bounded

IInv == TypeOK /\ Bounded

\* The cache starts empty and unpoisoned.
LEMMA InitIInv == Init => IInv
<1> SUFFICES ASSUME Init PROVE IInv
  OBVIOUS
<1>1. TypeOK
  <2>1. entry \in [Keys -> Entry \cup {Absent}] /\ now \in 0..MaxInstant
    BY DEF Init
  <2>2. poisoned \in BOOLEAN /\ expired \in [Users -> Keys \cup {NoKey}]
    BY DEF Init
  <2> QED BY <2>1, <2>2 DEF TypeOK
<1>2. Stored(entry) = {}
  BY DEF Init, Stored
<1> QED BY <1>1, <1>2, FS_EmptySet DEF IInv, Bounded

\* set, in each of its four endings.
LEMMA SetIInv ==
    ASSUME IInv, NEW k \in Keys, NEW b \in Bodies, NEW ttl \in Ttls, Set(k, b, ttl)
    PROVE  IInv'
<1> USE DEF IInv
<1>1. CASE SetZero(k, ttl)
  <2>1. TypeOK'
    BY <1>1, PrunedFits DEF Set, SetZero, TypeOK, Maps
  <2>2. \A j \in Keys : entry'[j] # Absent => entry[j] # Absent
    BY <1>1 DEF SetZero, Pruned
  <2> QED BY <2>1, <2>2, ShrinkingIsBounded
<1>2. CASE Insert(k, b, ttl)
  <2> DEFINE new == [body |-> b, expires_at |-> now + ttl]
  <2>1. PICK e \in WithRoom(Pruned, k) : entry' = [e EXCEPT ![k] = new]
    BY <1>2 DEF Insert
  <2>2. e \in Maps /\ Cardinality(Stored(e) \cup {k}) <= Capacity
    BY <2>1, PrunedFits, RoomForOne
  <2>3. new \in Entry
    <3>1. now \in 0..MaxInstant /\ ttl \in Nat
      BY DEF TypeOK
    <3>2. now + ttl \in 0..MaxInstant
      BY <1>2, <3>1 DEF Insert
    <3> QED BY <3>2 DEF Entry
  <2>4. Stored(entry') = Stored(e) \cup {k}
    BY <2>1, <2>2, <2>3 DEF Stored, Maps
  <2>5. TypeOK'
    BY <1>2, <2>1, <2>2, <2>3 DEF Set, Insert, TypeOK, Maps
  <2> QED BY <2>2, <2>4, <2>5 DEF Bounded
<1>3. CASE Overflow(k, ttl)
  <2>1. entry' \in Maps /\ Cardinality(Stored(entry')) <= Capacity
    BY <1>3, PrunedFits, RoomForOne DEF Overflow
  <2>2. TypeOK'
    BY <1>3, <2>1 DEF Set, Overflow, TypeOK, Maps
  <2> QED BY <2>1, <2>2 DEF Bounded
<1>4. CASE SetPoisoned
  BY <1>4 DEF SetPoisoned, Set, TypeOK, Bounded, Stored
<1> QED BY <1>1, <1>2, <1>3, <1>4 DEF Set

\* Every step of the cache keeps the type and the bound.
LEMMA NextIInv == IInv /\ [Next]_vars => IInv'
<1> SUFFICES ASSUME IInv, [Next]_vars PROVE IInv'
  OBVIOUS
<1> USE DEF IInv
<1>1. ASSUME NEW u \in Users, NEW k \in Keys, FindExpired(u, k) PROVE IInv'
  BY <1>1 DEF FindExpired, TypeOK, Bounded, Stored
<1>2. ASSUME NEW u \in Users, RemoveExpired(u) PROVE IInv'
  <2>1. TypeOK'
    BY <1>2 DEF RemoveExpired, TypeOK
  <2>2. \A k \in Keys : entry'[k] # Absent => entry[k] # Absent
    BY <1>2 DEF RemoveExpired
  <2> QED BY <2>1, <2>2, ShrinkingIsBounded
<1>3. ASSUME NEW k \in Keys, NEW b \in Bodies, NEW ttl \in Ttls, Set(k, b, ttl) PROVE IInv'
  BY <1>3, SetIInv
<1>4. CASE Clear
  <2>1. TypeOK'
    BY <1>4 DEF Clear, TypeOK
  <2>2. \A k \in Keys : entry'[k] # Absent => entry[k] # Absent
    BY <1>4 DEF Clear
  <2> QED BY <2>1, <2>2, ShrinkingIsBounded
<1>5. CASE Tick
  BY <1>5 DEF Tick, TypeOK, Bounded, Stored
<1>6. CASE UNCHANGED vars
  BY <1>6 DEF vars, TypeOK, Bounded, Stored
<1> QED BY <1>1, <1>2, <1>3, <1>4, <1>5, <1>6 DEF Next

\* Type and bound hold in every reachable state.
LEMMA Invariance == Spec => []IInv
BY InitIInv, NextIInv, PTL DEF Spec

\* Entries, clock and poison flag keep their types.
THEOREM TypeCorrect == Spec => []TypeOK
<1>1. IInv => TypeOK
  BY DEF IInv
<1> QED BY <1>1, Invariance, PTL

\* The cache never holds more entries than its capacity, for any capacity.
THEOREM CapacityHolds == Spec => []Bounded
<1>1. IInv => Bounded
  BY DEF IInv
<1> QED BY <1>1, Invariance, PTL

\* The second look of a get protects whatever was stored since the first.
THEOREM GetsSpareLive == Spec => GetSparesLive
<1>1. ASSUME IInv, [Next]_vars, NEW u \in Users, expired[u] # NoKey, expired'[u] = NoKey,
             NEW k \in Keys, Live(k)
      PROVE  entry'[k] = entry[k]
  <2>1. PICK v \in Users : RemoveExpired(v)
    BY <1>1 DEF Next, vars, FindExpired, Set, Clear, Tick, IInv, TypeOK
  <2> QED BY <1>1, <2>1 DEF RemoveExpired, StillExpired
<1>2. IInv /\ [Next]_vars
      => [\A u \in Users : expired[u] # NoKey /\ expired'[u] = NoKey
              => \A k \in Keys : Live(k) => entry'[k] = entry[k]]_vars
  BY <1>1
<1> QED BY <1>2, Invariance, PTL DEF Spec, GetSparesLive

\* What a step that changes an entry to another entry is.
LEMMA ChangeIsInsert ==
    ASSUME IInv, [Next]_vars, NEW j \in Keys, entry'[j] # Absent, entry'[j] # entry[j]
    PROVE  \E b \in Bodies, ttl \in Ttls :
             /\ Insert(j, b, ttl)
             /\ now' = now
<1>1. PICK k \in Keys, b \in Bodies, ttl \in Ttls : Set(k, b, ttl)
  BY DEF Next, vars, FindExpired, RemoveExpired, Clear, Tick
<1>2. \A e \in WithRoom(Pruned, k) : e \in Maps /\ e[j] \in {entry[j], Absent}
  <2>1. \A e \in WithRoom(Pruned, k) : e \in Maps /\ e[j] \in {Pruned[j], Absent}
    BY PrunedFits, RoomForOne DEF IInv
  <2>2. Pruned[j] \in {entry[j], Absent}
    BY DEF Pruned
  <2> QED BY <2>1, <2>2
<1>3. ~SetZero(k, ttl)
  BY DEF SetZero, Pruned
<1>4. ~Overflow(k, ttl)
  BY <1>2 DEF Overflow
<1>5. Insert(k, b, ttl)
  BY <1>1, <1>3, <1>4 DEF Set, SetPoisoned
<1>6. k = j
  BY <1>2, <1>5 DEF Insert, Maps
<1> QED BY <1>1, <1>5, <1>6 DEF Set

\* A new body evicts only when it must, and only the earliest expiry.
THEOREM EvictionIsEarliest == Spec => EvictsOnlyEarliest
<1>1. ASSUME IInv, [Next]_vars, NEW j \in Keys, NEW k \in Keys,
             j # k, entry'[j] # Absent, entry'[j] # entry[j],
             Live(k), entry'[k] = Absent
      PROVE  /\ ~Live(j)
             /\ Cardinality(LiveKeys) >= Capacity
             /\ \A i \in Stored(entry') \ {j} : entry[k].expires_at <= entry[i].expires_at
  <2>1. PICK b \in Bodies, ttl \in Ttls : Insert(j, b, ttl)
    BY <1>1, ChangeIsInsert
  <2>2. PICK e \in WithRoom(Pruned, j) :
          entry' = [e EXCEPT ![j] = [body |-> b, expires_at |-> now + ttl]]
    BY <2>1 DEF Insert
  <2>3. e \in Maps /\ \A i \in Keys : e[i] \in {Pruned[i], Absent}
    BY <1>1, PrunedFits, RoomForOne DEF IInv
  <2>4. Pruned[k] = entry[k] /\ entry[k] # Absent /\ e[k] = Absent
    BY <1>1, <2>2, <2>3 DEF Pruned, Live, Maps
  <2>5. Cardinality(Stored(Pruned)) >= Capacity /\ Pruned[j] = Absent
    BY <2>4 DEF WithRoom
  <2>6. PICK m \in Earliest(Pruned) : e = [Pruned EXCEPT ![m] = Absent]
    BY <2>5 DEF WithRoom
  <2>7. m = k
    BY <2>4, <2>6 DEF Pruned
  <2>8. ASSUME NEW i \in Stored(entry') \ {j}
        PROVE  entry[k].expires_at <= entry[i].expires_at
    <3>1. i \in Stored(Pruned) /\ Pruned[i] = entry[i]
      BY <2>2, <2>3, <2>8 DEF Stored, Pruned, Maps
    <3> QED BY <2>4, <2>6, <2>7, <3>1 DEF Earliest
  <2>9. ~Live(j)
    BY <2>5 DEF Pruned, Live
  <2> QED BY <1>1, <2>5, <2>8, <2>9, PrunedFits DEF IInv
<1>2. IInv /\ [Next]_vars
      => [\A j, k \in Keys :
            /\ j # k /\ entry'[j] # Absent /\ entry'[j] # entry[j]
            /\ Live(k) /\ entry'[k] = Absent
            => /\ ~Live(j)
               /\ Cardinality(LiveKeys) >= Capacity
               /\ \A i \in Stored(entry') \ {j} :
                    entry[k].expires_at <= entry[i].expires_at]_vars
  BY <1>1
<1> QED BY <1>2, Invariance, PTL DEF Spec, EvictsOnlyEarliest

\* Storing a body leaves only entries that can still be hit.
THEOREM StoringPrunes == Spec => SetPrunes
<1>1. ASSUME IInv, [Next]_vars, NEW j \in Keys, entry'[j] # Absent, entry'[j] # entry[j],
             NEW k \in Stored(entry')
      PROVE  now < entry'[k].expires_at
  <2>1. PICK b \in Bodies, ttl \in Ttls : Insert(j, b, ttl)
    BY <1>1, ChangeIsInsert
  <2>2. PICK e \in WithRoom(Pruned, j) :
          entry' = [e EXCEPT ![j] = [body |-> b, expires_at |-> now + ttl]]
    BY <2>1 DEF Insert
  <2>3. e \in Maps /\ \A i \in Keys : e[i] \in {Pruned[i], Absent}
    BY <1>1, PrunedFits, RoomForOne DEF IInv
  <2>4. ttl \in Nat /\ ttl # 0 /\ now \in Nat
    <3>1. now \in 0..MaxInstant
      BY <1>1 DEF IInv, TypeOK
    <3>2. ttl # 0
      BY <2>1 DEF Insert
    <3> QED BY <3>1, <3>2
  <2>5. CASE k = j
    BY <2>2, <2>3, <2>4, <2>5 DEF Maps
  <2>6. CASE k # j
    BY <1>1, <2>2, <2>3, <2>6 DEF Maps, Stored, Pruned, Live
  <2> QED BY <2>5, <2>6
<1>2. IInv /\ [Next]_vars
      => [\A j \in Keys : entry'[j] # Absent /\ entry'[j] # entry[j]
              => \A k \in Stored(entry') : now < entry'[k].expires_at]_vars
  BY <1>1
<1> QED BY <1>2, Invariance, PTL DEF Spec, SetPrunes
=============================================================================
