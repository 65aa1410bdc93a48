-------------------------------- MODULE Cache --------------------------------
(***************************************************************************)
(* The in-memory TTL cache for response bodies: struct Cache of cache.rs.  *)
(* Each section under the RwLock is one step.  A get of an expired entry   *)
(* takes two of them: it finds the entry expired under the read lock, and  *)
(* looks again under the write lock before it removes anything.            *)
(*                                                                         *)
(* A panic under the write lock (now + ttl beyond the last representable   *)
(* Instant) poisons the lock: from then on every get misses and every      *)
(* other call does nothing.                                                *)
(***************************************************************************)
EXTENDS Naturals, FiniteSets

CONSTANTS Users,       \* tasks that use the cache
          Keys, Bodies,
          Ttls,        \* time-to-live values passed to set
          Capacity,    \* entries the map may hold: 1024 in the code
          MaxInstant,  \* last representable Instant; the clock stops there
          Absent,      \* no entry
          NoKey        \* not inside a get that found an expired entry

ASSUME KeysFinite == IsFiniteSet(Keys)
ASSUME TtlsAreDurations == Ttls \subseteq Nat
ASSUME CapacityPositive == Capacity \in Nat \ {0}
ASSUME MaxInstantNat == MaxInstant \in Nat
ASSUME NoKeyIsNoKey == NoKey \notin Keys

VARIABLES entry,     \* the map: entry or Absent for each key
          now,       \* Instant::now()
          poisoned,  \* the RwLock is poisoned
          expired    \* the key each user found expired and not looked at again

vars == <<entry, now, poisoned, expired>>

Entry == [body : Bodies, expires_at : 0..MaxInstant]

ASSUME AbsentIsNoEntry == Absent \notin Entry

TypeOK == /\ entry \in [Keys -> Entry \cup {Absent}]
          /\ now \in 0..MaxInstant
          /\ poisoned \in BOOLEAN
          /\ expired \in [Users -> Keys \cup {NoKey}]

Init == /\ entry = [k \in Keys |-> Absent]
        /\ now = 0
        /\ poisoned = FALSE
        /\ expired = [u \in Users |-> NoKey]

-----------------------------------------------------------------------------
Stored(e) == {k \in Keys : e[k] # Absent}
Live(k) == entry[k] # Absent /\ now < entry[k].expires_at
LiveKeys == {k \in Keys : Live(k)}

\* What cache_stats reports.
Len == IF poisoned THEN 0 ELSE Cardinality(LiveKeys)

-----------------------------------------------------------------------------
(* get.  Hits and plain misses are settled in one step and change nothing. *)

Hit(k) == ~poisoned /\ Live(k)
Miss(k) == poisoned \/ entry[k] = Absent

SeesExpired(k) == ~Hit(k) /\ ~Miss(k)

FindExpired(u, k) == /\ expired[u] = NoKey
                     /\ SeesExpired(k)
                     /\ expired' = [expired EXCEPT ![u] = k]
                     /\ UNCHANGED <<entry, now, poisoned>>

\* The second look: the entry may have been replaced since the first.
StillExpired_Unchecked(k) == ~poisoned /\ entry[k] # Absent       \* mutant
StillExpired(k) == ~poisoned /\ entry[k] # Absent /\ ~Live(k)

RemoveExpired(u) ==
    /\ expired[u] # NoKey
    /\ entry' = [k \in Keys |-> IF k = expired[u] /\ StillExpired(k) THEN Absent ELSE entry[k]]
    /\ expired' = [expired EXCEPT ![u] = NoKey]
    /\ UNCHANGED <<now, poisoned>>

-----------------------------------------------------------------------------
(* set *)

\* map.retain: expired entries go before anything else happens.
Pruned_Nothing == entry                                            \* mutant
Pruned == [k \in Keys |-> IF Live(k) THEN entry[k] ELSE Absent]

\* Entries that may be evicted from e: ties are broken by the map's order.
Earliest(e) == {k \in Stored(e) : \A j \in Stored(e) : e[k].expires_at <= e[j].expires_at}

\* The maps left once there is room for k in e.
WithRoom_OffByOne(e, k) ==                                         \* mutant
    IF Cardinality(Stored(e)) > Capacity /\ e[k] = Absent
    THEN {[e EXCEPT ![j] = Absent] : j \in Earliest(e)} ELSE {e}
WithRoom_Replacing(e, k) ==                                        \* mutant
    IF Cardinality(Stored(e)) >= Capacity
    THEN {[e EXCEPT ![j] = Absent] : j \in Earliest(e)} ELSE {e}
WithRoom(e, k) == IF Cardinality(Stored(e)) >= Capacity /\ e[k] = Absent
                  THEN {[e EXCEPT ![j] = Absent] : j \in Earliest(e)}
                  ELSE {e}

\* A zero time-to-live only drops what is stored.
SetZero(k, ttl) == /\ ttl = 0
                   /\ entry' = [Pruned EXCEPT ![k] = Absent]
                   /\ UNCHANGED poisoned

\* Mutant: the expiry is computed without an overflow check.
Insert_Unchecked(k, b, ttl) ==
    /\ ttl # 0
    /\ \E e \in WithRoom(Pruned, k) :
         entry' = [e EXCEPT ![k] = [body |-> b, expires_at |-> now + ttl]]
    /\ UNCHANGED poisoned

Insert(k, b, ttl) == /\ ttl # 0
                     /\ now + ttl <= MaxInstant
                     /\ \E e \in WithRoom(Pruned, k) :
                          entry' = [e EXCEPT ![k] = [body |-> b, expires_at |-> now + ttl]]
                     /\ UNCHANGED poisoned

\* now + ttl panics after the eviction, before the insertion.
Overflow(k, ttl) == /\ ttl # 0
                    /\ now + ttl > MaxInstant
                    /\ entry' \in WithRoom(Pruned, k)
                    /\ poisoned' = TRUE

\* A poisoned lock turns the call into a no-op.
SetPoisoned == poisoned /\ UNCHANGED <<entry, poisoned>>

Set(k, b, ttl) == /\ \/ ~poisoned /\ SetZero(k, ttl)
                     \/ ~poisoned /\ Insert(k, b, ttl)
                     \/ ~poisoned /\ Overflow(k, ttl)
                     \/ SetPoisoned
                  /\ UNCHANGED <<now, expired>>

-----------------------------------------------------------------------------
Clear == /\ entry' = IF poisoned THEN entry ELSE [k \in Keys |-> Absent]
         /\ UNCHANGED <<now, poisoned, expired>>

Tick == /\ now < MaxInstant
        /\ now' = now + 1
        /\ UNCHANGED <<entry, poisoned, expired>>

Next == \/ \E u \in Users, k \in Keys : FindExpired(u, k)
        \/ \E u \in Users : RemoveExpired(u)
        \/ \E k \in Keys, b \in Bodies, ttl \in Ttls : Set(k, b, ttl)
        \/ Clear
        \/ Tick

Spec == Init /\ [][Next]_vars

-----------------------------------------------------------------------------
(* Properties *)

\* "Evict the earliest expiry at capacity" (cache.rs:12): the map never holds
\* more entries than its capacity, expired ones included.
Bounded == Cardinality(Stored(entry)) <= Capacity

\* A get that comes back for an entry it saw expired never removes a live one,
\* whatever other tasks stored, cleared or evicted between its two looks.
GetSparesLive == [][\A u \in Users :
    expired[u] # NoKey /\ expired'[u] = NoKey
        => \A k \in Keys : Live(k) => entry'[k] = entry[k]]_vars

\* Storing a body for j costs another live entry k its place only when j is new,
\* the cache is full of live entries, and no survivor expires before k:
\* "replacing an entry does not evict another" (test at cache.rs:192).
EvictsOnlyEarliest == [][\A j, k \in Keys :
    /\ j # k /\ entry'[j] # Absent /\ entry'[j] # entry[j]
    /\ Live(k) /\ entry'[k] = Absent
    => /\ ~Live(j)
       /\ Cardinality(LiveKeys) >= Capacity
       /\ \A i \in Stored(entry') \ {j} : entry[k].expires_at <= entry[i].expires_at]_vars

\* "Writes prune expired entries" (cache.rs:12): after a body is stored every
\* entry of the map can still be hit, so bodies past their window do not pile
\* up under keys nobody asks for again.
SetPrunes == [][\A j \in Keys :
    entry'[j] # Absent /\ entry'[j] # entry[j]
        => \A k \in Stored(entry') : now < entry'[k].expires_at]_vars
=============================================================================
