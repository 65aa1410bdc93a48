--------------------------- MODULE CachedJsonProofs ---------------------------
(***************************************************************************)
(* Theorems about cached_json for any callers, keys, cells, bodies,        *)
(* lifetimes, capacity and clock range.  Its steps are steps of Coalescer  *)
(* and of Cache, so what is proved of them carries over; IInv adds where   *)
(* each request stands, and that nobody but the leader of a key's flight   *)
(* fills the key's place in the cache.                                     *)
(***************************************************************************)
EXTENDS CachedJson, TLAPS

FlightFacts == INSTANCE CoalescerProofs
StoreFacts == INSTANCE CacheProofs WITH Users <- Callers, Ttls <- {TtlOf[k] : k \in Keys}

-----------------------------------------------------------------------------
(* What is known of the two components. *)

\* The coalescer's theorems speak of the coalescer composed here.
LEMMA SameFlights ==
    /\ Flights!Init => FlightFacts!Init
    /\ [Flights!Next]_(Flights!vars) => [FlightFacts!Next]_(FlightFacts!vars)
    /\ Flights!IInv <=> FlightFacts!IInv
<1>1. Flights!Init => FlightFacts!Init
  BY DEF Flights!Init, FlightFacts!Init
<1>2. [Flights!Next]_(Flights!vars) => [FlightFacts!Next]_(FlightFacts!vars)
  BY DEF Flights!Next, Flights!vars, Flights!Join, Flights!JoinFlight, Flights!OpenFlight,
         Flights!Acquire, Flights!Resolve, Flights!Follow, Flights!RemoveSlot, Flights!Return,
         Flights!Cancel, Flights!Release, Flights!DropGuard, Flights!LastOfFlight,
         Flights!OwnsSlot, Flights!PermitFree, Flights!Unused, Flights!StrongCount,
         Flights!Holders, Flights!SlotsOf, Flights!Cardinality,
         FlightFacts!Next, FlightFacts!vars, FlightFacts!Join, FlightFacts!JoinFlight,
         FlightFacts!OpenFlight, FlightFacts!Acquire, FlightFacts!Resolve, FlightFacts!Follow,
         FlightFacts!RemoveSlot, FlightFacts!Return, FlightFacts!Cancel, FlightFacts!Release,
         FlightFacts!DropGuard, FlightFacts!LastOfFlight, FlightFacts!OwnsSlot,
         FlightFacts!PermitFree, FlightFacts!Unused, FlightFacts!StrongCount,
         FlightFacts!Holders, FlightFacts!SlotsOf, FlightFacts!Cardinality
<1>3. Flights!IInv <=> FlightFacts!IInv
  BY DEF Flights!IInv, Flights!TypeOK, Flights!CallShape, Flights!OneKeyPerCell,
         Flights!UnsetCellInSlot, Flights!OutcomeShape, Flights!OnePermit,
         Flights!NoLeakedSlot, Flights!SetCellLeavesSlot, Flights!ReturnedFlightsClosed,
         FlightFacts!IInv, FlightFacts!TypeOK, FlightFacts!CallShape, FlightFacts!OneKeyPerCell,
         FlightFacts!UnsetCellInSlot, FlightFacts!OutcomeShape, FlightFacts!OnePermit,
         FlightFacts!NoLeakedSlot, FlightFacts!SetCellLeavesSlot,
         FlightFacts!ReturnedFlightsClosed, Flights!PCs, FlightFacts!PCs
<1> QED BY <1>1, <1>2, <1>3

\* The coalescer's inductive invariant, of CoalescerProofs.
LEMMA FlightsInvariant ==
    /\ Flights!Init => Flights!IInv
    /\ Flights!IInv /\ [Flights!Next]_(Flights!vars) => Flights!IInv'
<1>1. FlightFacts!Init => FlightFacts!IInv
  BY FlightFacts!InitIInv, CallersFinite, NoKeyIsNoKey, NoCellIsNoCell,
     NoOutcomeIsNoOutcome, Zenon
     DEF FlightFacts!IsFiniteSet, IsFiniteSet, Outcomes
<1>2. FlightFacts!IInv /\ [FlightFacts!Next]_(FlightFacts!vars) => FlightFacts!IInv'
  BY FlightFacts!NextIInv, CallersFinite, NoKeyIsNoKey, NoCellIsNoCell,
     NoOutcomeIsNoOutcome, Zenon
     DEF FlightFacts!IsFiniteSet, IsFiniteSet, Outcomes
<1> QED BY <1>1, <1>2, SameFlights, PTL

\* The cache's theorems speak of the cache composed here.
LEMMA SameStore ==
    /\ Store!Init => StoreFacts!Init
    /\ [Store!Next]_(Store!vars) => [StoreFacts!Next]_(StoreFacts!vars)
    /\ Store!TypeOK /\ Store!Bounded <=> StoreFacts!IInv
<1>1. Store!Init => StoreFacts!Init
  BY DEF Store!Init, StoreFacts!Init
<1>2. [Store!Next]_(Store!vars) => [StoreFacts!Next]_(StoreFacts!vars)
  BY DEF Store!Next, Store!vars, Store!FindExpired, Store!SeesExpired, Store!Hit, Store!Miss,
         Store!Live, Store!RemoveExpired, Store!StillExpired, Store!Set, Store!SetZero,
         Store!Insert, Store!Overflow, Store!SetPoisoned, Store!WithRoom, Store!Earliest,
         Store!Stored, Store!Pruned, Store!Clear, Store!Tick,
         StoreFacts!Next, StoreFacts!vars, StoreFacts!FindExpired, StoreFacts!SeesExpired,
         StoreFacts!Hit, StoreFacts!Miss, StoreFacts!Live, StoreFacts!RemoveExpired,
         StoreFacts!StillExpired, StoreFacts!Set, StoreFacts!SetZero, StoreFacts!Insert,
         StoreFacts!Overflow, StoreFacts!SetPoisoned, StoreFacts!WithRoom,
         StoreFacts!Earliest, StoreFacts!Stored, StoreFacts!Pruned, StoreFacts!Clear,
         StoreFacts!Tick, Store!Cardinality, StoreFacts!Cardinality
<1>3. Store!TypeOK /\ Store!Bounded <=> StoreFacts!IInv
  BY DEF Store!TypeOK, Store!Bounded, Store!Stored, Store!Entry, StoreFacts!IInv,
         StoreFacts!TypeOK, StoreFacts!Bounded, StoreFacts!Stored, StoreFacts!Entry,
         Store!Cardinality, StoreFacts!Cardinality
<1> QED BY <1>1, <1>2, <1>3

\* The cache's inductive invariant, of CacheProofs.
LEMMA StoreInvariant ==
    /\ Store!Init => Store!TypeOK /\ Store!Bounded
    /\ Store!TypeOK /\ Store!Bounded /\ [Store!Next]_(Store!vars)
           => (Store!TypeOK /\ Store!Bounded)'
<1> DEFINE lifetimes == {TtlOf[k] : k \in Keys}
<1>1. lifetimes \subseteq Nat
  BY TtlOfType
<1>2. StoreFacts!Init => StoreFacts!IInv
  BY <1>1, StoreFacts!InitIInv, KeysFinite, CapacityPositive, MaxInstantNat, NoKeyIsNoKey,
     AbsentIsNoEntry, Zenon
     DEF StoreFacts!IsFiniteSet, IsFiniteSet, StoreFacts!Entry
<1>3. StoreFacts!IInv /\ [StoreFacts!Next]_(StoreFacts!vars) => StoreFacts!IInv'
  BY <1>1, StoreFacts!NextIInv, KeysFinite, CapacityPositive, MaxInstantNat, NoKeyIsNoKey,
     AbsentIsNoEntry, Zenon
     DEF StoreFacts!IsFiniteSet, IsFiniteSet, StoreFacts!Entry
<1> QED BY <1>2, <1>3, SameStore, PTL

-----------------------------------------------------------------------------
(* Its steps are theirs. *)

\* Coalescer::run is called, cancelled and finished only as it may be.
LEMMA StepsOfCoalescer == IInv /\ [Next]_vars => [Flights!Next]_(Flights!vars)
<1> SUFFICES ASSUME IInv, [Next]_vars PROVE [Flights!Next]_(Flights!vars)
  OBVIOUS
<1> USE DEF flightVars, Flights!vars, Flights!Next
<1>1. ASSUME NEW c \in Callers, NEW k \in Keys, ServeHit(c, k) \/ MissFirst(c, k)
      PROVE  UNCHANGED flightVars
  BY <1>1 DEF ServeHit, MissFirst, vars
<1>2. ASSUME NEW c \in Callers,
             \/ RemoveStale(c) \/ Recheck(c) \/ RemoveRestale(c)
             \/ FetchOk(c) \/ FetchFails(c) \/ StoreBody(c)
      PROVE  UNCHANGED flightVars
  BY <1>2 DEF RemoveStale, Recheck, RemoveRestale, FetchOk, FetchFails, StoreBody
<1>3. ASSUME NEW c \in Callers, Join(c) PROVE Flights!Next
  <2>1. want[c] \in Keys
    BY <1>3 DEF Join, IInv, CallsAgree, TypeOK
  <2> QED BY <1>3, <2>1 DEF Join
<1>4. ASSUME NEW c \in Callers, Resolve(c) PROVE Flights!Next
  <2>1. body[c] \in Outcomes
    BY <1>4 DEF Resolve, IInv, TypeOK
  <2> QED BY <1>4, <2>1 DEF Resolve
<1>5. ASSUME NEW c \in Callers,
             \/ Lead(c) \/ Follow(c) \/ StorePanics(c) \/ RemoveSlot(c)
             \/ Respond(c) \/ Disconnect(c) \/ Release(c)
      PROVE  Flights!Next
  BY <1>5 DEF Lead, Follow, StorePanics, RemoveSlot, Respond, Disconnect, Release
<1>6. CASE CacheClear \/ Tick
  BY <1>6 DEF CacheClear, Tick
<1>7. CASE UNCHANGED vars
  BY <1>7 DEF vars
<1> QED BY <1>1, <1>2, <1>3, <1>4, <1>5, <1>6, <1>7 DEF Next, Request

\* The cache is read, filled and cleared only through its own operations.
LEMMA StepsOfCache == IInv /\ [Next]_vars => [Store!Next]_(Store!vars)
<1> SUFFICES ASSUME IInv, [Next]_vars PROVE [Store!Next]_(Store!vars)
  OBVIOUS
<1> USE DEF cacheVars, Store!vars, Store!Next
<1>1. ASSUME NEW c \in Callers, NEW k \in Keys, ServeHit(c, k) \/ MissFirst(c, k)
      PROVE  [Store!Next]_(Store!vars)
  BY <1>1 DEF ServeHit, MissFirst, vars
<1>2. ASSUME NEW c \in Callers, RemoveStale(c) \/ RemoveRestale(c) PROVE Store!Next
  BY <1>2 DEF RemoveStale, RemoveRestale
<1>3. ASSUME NEW c \in Callers, Recheck(c) PROVE [Store!Next]_(Store!vars)
  <2>1. want[c] \in Keys
    BY <1>3 DEF Recheck, IInv, CallsAgree, TypeOK
  <2> QED BY <1>3, <2>1 DEF Recheck
<1>4. ASSUME NEW c \in Callers, StoreBody(c) \/ StorePanics(c) PROVE Store!Next
  <2>1. want[c] \in Keys /\ body[c] \in Bodies
    BY <1>4 DEF StoreBody, StorePanics, IInv, CallsAgree, LeadersBody, TypeOK
  <2> QED BY <1>4, <2>1 DEF StoreBody, StorePanics
<1>5. ASSUME NEW c \in Callers,
             \/ Join(c) \/ Lead(c) \/ Follow(c) \/ FetchOk(c) \/ FetchFails(c) \/ Resolve(c)
             \/ RemoveSlot(c) \/ Respond(c) \/ Disconnect(c) \/ Release(c)
      PROVE  UNCHANGED cacheVars
  BY <1>5 DEF Join, Lead, Follow, FetchOk, FetchFails, Resolve, RemoveSlot, Respond,
              Disconnect, Release
<1>6. CASE CacheClear \/ Tick
  BY <1>6 DEF CacheClear, Tick
<1>7. CASE UNCHANGED vars
  BY <1>7 DEF vars
<1> QED BY <1>1, <1>2, <1>3, <1>4, <1>5, <1>6, <1>7 DEF Next, Request

-----------------------------------------------------------------------------
(* One leader to a key, and what it may find in the cache. *)

\* Leaders of the same key are the same request.
LEMMA LeaderAlone ==
    ASSUME IInv, NEW c \in Callers, NEW d \in Callers,
           stage[c] \in Leading, stage[d] \in Leading, want[c] = want[d]
    PROVE  c = d
<1>1. pc[c] = "fetching" /\ pc[d] = "fetching" /\ key[c] = key[d]
  BY DEF IInv, CallsAgree
<1>2. guard[c] = inflight[key[c]] /\ guard[d] = inflight[key[d]]
  BY <1>1 DEF IInv, Flights!IInv, Flights!UnsetCellInSlot, Flights!OutcomeShape
<1> QED BY <1>1, <1>2 DEF IInv, Flights!IInv, Flights!OnePermit

\* A leader's flight is the one in its key's slot, and unset.
LEMMA LeaderInSlot ==
    ASSUME IInv, NEW c \in Callers, stage[c] \in Leading
    PROVE  /\ want[c] \in Keys /\ guard[c] \in Cells
           /\ inflight[want[c]] = guard[c]
           /\ outcome[guard[c]] = NoOutcome
<1>1. pc[c] = "fetching" /\ key[c] = want[c]
  BY DEF IInv, CallsAgree
<1> QED BY <1>1 DEF IInv, Flights!IInv, Flights!UnsetCellInSlot, Flights!OutcomeShape,
                    Flights!CallShape

\* Nothing but a leader's set brings a live body into the cache.
LEMMA HitsAreOld ==
    ASSUME IInv, [Next]_vars, \A c \in Callers : ~StoreBody(c),
           NEW k \in Keys, Store!Hit(k)'
    PROVE  Store!Hit(k) /\ entry'[k] = entry[k]
<1> USE DEF Store!Hit, Store!Live
<1>0. now \in Nat
  BY MaxInstantNat DEF IInv, TypeOK, Store!TypeOK
<1>1. CASE UNCHANGED cacheVars
  BY <1>1 DEF cacheVars
<1>2. ASSUME NEW c \in Callers, NEW j \in Keys, Store!FindExpired(c, j)
      PROVE  Store!Hit(k) /\ entry'[k] = entry[k]
  BY <1>2 DEF Store!FindExpired
<1>3. ASSUME NEW c \in Callers, Store!RemoveExpired(c)
      PROVE  Store!Hit(k) /\ entry'[k] = entry[k]
  BY <1>3 DEF Store!RemoveExpired
<1>4. ASSUME NEW c \in Callers, StorePanics(c) PROVE FALSE
  <2>1. want[c] \in Keys
    BY <1>4 DEF StorePanics, IInv, CallsAgree, TypeOK
  <2>2. TtlOf[want[c]] \in Nat
    BY <2>1, TtlOfType
  <2> QED BY <1>0, <1>4, <2>2, MaxInstantNat
             DEF StorePanics, Panics, Store!Set, Store!SetZero, Store!Insert, Store!Overflow,
                 Store!SetPoisoned
<1>5. CASE Store!Clear
  BY <1>5 DEF Store!Clear
<1>6. CASE Store!Tick
  <2>1. entry[k] = entry'[k] /\ entry[k] \in Store!Entry
    BY <1>6 DEF Store!Tick, IInv, TypeOK, Store!TypeOK
  <2>2. entry[k].expires_at \in Nat
    BY <2>1, MaxInstantNat DEF Store!Entry
  <2> QED BY <1>0, <1>6, <2>1, <2>2 DEF Store!Tick
<1>7. ASSUME NEW c \in Callers, Recheck(c)
      PROVE  Store!Hit(k) /\ entry'[k] = entry[k]
  BY <1>1, <1>7 DEF Recheck, Store!FindExpired
<1>8. ASSUME NEW c \in Callers, NEW j \in Keys, ServeHit(c, j) \/ MissFirst(c, j)
      PROVE  Store!Hit(k) /\ entry'[k] = entry[k]
  BY <1>1, <1>2, <1>8 DEF ServeHit, MissFirst, vars
<1>9. CASE UNCHANGED vars
  BY <1>1, <1>9 DEF vars
<1> QED BY <1>1, <1>3, <1>4, <1>5, <1>6, <1>7, <1>8, <1>9
           DEF Next, Request, RemoveStale, Join, Lead, Follow, RemoveRestale, FetchOk,
               FetchFails, Resolve, RemoveSlot, Respond, Disconnect, Release, CacheClear, Tick

\* A leader's set fills its own key's place and touches no other but to take away.
LEMMA SetFillsOwnKey ==
    ASSUME IInv, NEW c \in Callers, StoreBody(c), NEW k \in Keys, Store!Hit(k)'
    PROVE  IF k = want[c] THEN entry'[k].body = body[c]
                          ELSE Store!Hit(k) /\ entry'[k] = entry[k]
<1> DEFINE w == want[c]
           ttl == TtlOf[w]
<1>0. w \in Keys /\ entry \in [Keys -> Store!Entry \cup {Absent}]
  BY DEF StoreBody, IInv, CallsAgree, TypeOK, Store!TypeOK
<1>1. ~poisoned /\ ~poisoned' /\ now' = now /\ entry'[k] # Absent
      /\ now < entry'[k].expires_at
  BY DEF StoreBody, Store!Set, Store!Overflow, Store!SetPoisoned, Store!SetZero,
         Store!Insert, Store!Hit, Store!Live
<1>2. \A j \in Keys : Store!Pruned[j] # Absent => Store!Live(j) /\ Store!Pruned[j] = entry[j]
  BY DEF Store!Pruned
<1>3. CASE Store!SetZero(w, ttl)
  BY <1>0, <1>1, <1>2, <1>3 DEF Store!SetZero, Store!Hit, Store!Pruned
<1>4. CASE Store!Insert(w, body[c], ttl)
  <2>1. PICK e \in Store!WithRoom(Store!Pruned, w) :
            entry' = [e EXCEPT ![w] = [body |-> body[c], expires_at |-> now + ttl]]
    BY <1>4 DEF Store!Insert
  <2>2. DOMAIN e = Keys /\ \A j \in Keys : e[j] \in {Store!Pruned[j], Absent}
    BY <2>1 DEF Store!WithRoom, Store!Earliest, Store!Stored, Store!Pruned
  <2>3. CASE k = w
    BY <1>0, <2>1, <2>2, <2>3
  <2>4. CASE k # w
    <3>1. entry'[k] = e[k]
      BY <2>1, <2>2, <2>4
    <3>2. e[k] = Store!Pruned[k] /\ Store!Pruned[k] # Absent
      BY <1>1, <2>2, <3>1
    <3> QED BY <1>1, <1>2, <2>4, <3>1, <3>2 DEF Store!Hit
  <2> QED BY <2>3, <2>4
<1>5. Store!Set(w, body[c], ttl)
  BY DEF StoreBody
<1> QED BY <1>1, <1>3, <1>4, <1>5 DEF Store!Set, Store!Overflow, Store!SetPoisoned

-----------------------------------------------------------------------------
(* The inductive invariant. *)

\* It holds before the first request.
LEMMA InitIInv == Init => IInv
<1> SUFFICES ASSUME Init PROVE IInv
  OBVIOUS
<1>1. Flights!IInv /\ Store!TypeOK /\ Store!Bounded
  BY FlightsInvariant, StoreInvariant DEF Init
<1>2. TypeOK
  BY <1>1 DEF Init, TypeOK, Flights!IInv, Stages
<1>3. CallsAgree /\ LeadersBody
  BY DEF Init, Flights!Init, CallsAgree, LeadersBody, Leading
<1>4. FlightAgreesWithCache
  BY DEF Init, Flights!Init, FlightAgreesWithCache
<1> QED BY <1>1, <1>2, <1>3, <1>4 DEF IInv

\* Where requests are, and that their bodies are of the right kind.
LEMMA NextTypes ==
    IInv /\ [Next]_vars => TypeOK'
<1> SUFFICES ASSUME IInv, [Next]_vars PROVE TypeOK'
  OBVIOUS
<1> DEFINE Own == /\ stage \in [Callers -> Stages]
                  /\ want \in [Callers -> Keys \cup {NoKey}]
                  /\ body \in [Callers -> Outcomes \cup {NoOutcome}]
                  /\ \A c \in Callers : stage[c] \in {"store", "done"} <=> body[c] # NoOutcome
<1>0. Own
  BY DEF IInv, TypeOK
<1> USE <1>0, NoOutcomeIsNoOutcome DEF Goto, Stages
<1>1. ASSUME NEW c \in Callers, NEW k \in Keys, ServeHit(c, k) \/ MissFirst(c, k) PROVE Own'
  BY <1>1 DEF ServeHit, MissFirst, vars
<1>2. ASSUME NEW c \in Callers,
             \/ RemoveStale(c) \/ Join(c) \/ Lead(c) \/ Follow(c) \/ RemoveRestale(c)
             \/ RemoveSlot(c)
      PROVE  Own'
  BY <1>2 DEF RemoveStale, Join, Lead, Follow, RemoveRestale, RemoveSlot
<1>3. ASSUME NEW c \in Callers, Recheck(c) PROVE Own'
  <2>1. want[c] \in Keys
    BY <1>3 DEF Recheck, IInv, CallsAgree
  <2>2. RecheckHits(want[c]) => entry[want[c]].body \in Bodies
    BY <2>1 DEF RecheckHits, Store!Hit, Store!Live, IInv, Store!TypeOK, Store!Entry, TypeOK
  <2> QED BY <1>3, <2>2 DEF Recheck, Outcomes
<1>4. ASSUME NEW c \in Callers,
             FetchOk(c) \/ FetchFails(c) \/ StoreBody(c) \/ StorePanics(c) \/ Resolve(c)
      PROVE  Own'
  BY <1>4 DEF FetchOk, FetchFails, StoreBody, StorePanics, Resolve, Outcomes
<1>5. ASSUME NEW c \in Callers, Respond(c) \/ Disconnect(c) PROVE Own'
  BY <1>5 DEF Respond, Disconnect
<1>6. ASSUME NEW c \in Callers, Release(c) PROVE Own'
  <2>1. stage[c] \notin {"store", "done"}
    BY <1>6 DEF Release, Flights!Release, IInv, CallsAgree, Leading
  <2> QED BY <1>6, <2>1 DEF Release
<1>7. ASSUME CacheClear \/ Tick \/ UNCHANGED vars PROVE Own'
  BY <1>7 DEF CacheClear, Tick, vars
<1>8. Own'
  BY <1>1, <1>2, <1>3, <1>4, <1>5, <1>6, <1>7 DEF Next, Request
<1>9. Flights!TypeOK'
  BY StepsOfCoalescer, FlightsInvariant DEF IInv, Flights!IInv
<1>10. Store!TypeOK'
  BY StepsOfCache, StoreInvariant DEF IInv, TypeOK
<1> QED BY <1>8, <1>9, <1>10 DEF TypeOK

\* Each request's place in its handler and in its call move together.
LEMMA NextCallsAgree ==
    IInv /\ [Next]_vars => CallsAgree'
<1> SUFFICES ASSUME IInv, [Next]_vars PROVE CallsAgree'
  OBVIOUS
<1>0. /\ CallsAgree
      /\ stage \in [Callers -> Stages]
      /\ want \in [Callers -> Keys \cup {NoKey}]
      /\ pc \in [Callers -> Flights!PCs]
      /\ key \in [Callers -> Keys \cup {NoKey}]
  BY DEF IInv, TypeOK, Flights!TypeOK
<1> USE <1>0, NoKeyIsNoKey DEF CallsAgree, Goto, Leading, flightVars
<1>1. ASSUME NEW c \in Callers, NEW k \in Keys, ServeHit(c, k) \/ MissFirst(c, k)
      PROVE  CallsAgree'
  BY <1>1 DEF ServeHit, MissFirst, vars
<1>2. ASSUME NEW c \in Callers, RemoveStale(c) \/ RemoveRestale(c) PROVE CallsAgree'
  BY <1>2 DEF RemoveStale, RemoveRestale
<1>3. ASSUME NEW c \in Callers, Join(c) PROVE CallsAgree'
  BY <1>3 DEF Join, Flights!Join
<1>4. ASSUME NEW c \in Callers, Lead(c) \/ Follow(c) PROVE CallsAgree'
  BY <1>4 DEF Lead, Follow, Flights!Acquire, Flights!Follow
<1>5. ASSUME NEW c \in Callers, Recheck(c) PROVE CallsAgree'
  BY <1>5 DEF Recheck
<1>6. ASSUME NEW c \in Callers, FetchOk(c) \/ FetchFails(c) \/ StoreBody(c) PROVE CallsAgree'
  BY <1>6 DEF FetchOk, FetchFails, StoreBody
<1>7. ASSUME NEW c \in Callers, StorePanics(c) \/ Resolve(c) PROVE CallsAgree'
  BY <1>7 DEF StorePanics, Resolve, Flights!Cancel, Flights!Resolve
<1>8. ASSUME NEW c \in Callers, RemoveSlot(c) \/ Disconnect(c) PROVE CallsAgree'
  BY <1>8 DEF RemoveSlot, Disconnect, Flights!RemoveSlot, Flights!Cancel
<1>9. ASSUME NEW c \in Callers, Respond(c) \/ Release(c) PROVE CallsAgree'
  BY <1>9 DEF Respond, Release, Flights!Return, Flights!Release, Flights!DropGuard
<1>10. CASE CacheClear \/ Tick \/ UNCHANGED vars
  BY <1>10 DEF CacheClear, Tick, vars
<1> QED BY <1>1, <1>2, <1>3, <1>4, <1>5, <1>6, <1>7, <1>8, <1>9, <1>10 DEF Next, Request
\* How a request comes to wait for the game server.
LEMMA IntoFetch ==
    ASSUME IInv, [Next]_vars, NEW c \in Callers, stage'[c] \in {"restale", "upstream"}
    PROVE  /\ want'[c] = want[c]
           /\ \/ stage[c] \in {"restale", "upstream"}
              \/ stage[c] = "recheck" /\ ~Store!Hit(want[c]) /\ Recheck(c)
<1>0. stage \in [Callers -> Stages] /\ want \in [Callers -> Keys \cup {NoKey}]
  BY DEF IInv, TypeOK
<1>1. ASSUME NEW d \in Callers,
             \/ Request(d) \/ RemoveStale(d) \/ Join(d) \/ Lead(d) \/ Follow(d) \/ Recheck(d)
             \/ RemoveRestale(d) \/ FetchOk(d) \/ FetchFails(d) \/ StoreBody(d)
             \/ StorePanics(d) \/ Resolve(d) \/ RemoveSlot(d) \/ Disconnect(d)
      PROVE  /\ want'[c] = want[c]
             /\ \/ stage[c] \in {"restale", "upstream"}
                \/ stage[c] = "recheck" /\ ~Store!Hit(want[c]) /\ Recheck(c)
  BY <1>0, <1>1 DEF Request, ServeHit, MissFirst, RemoveStale, Join, Lead, Follow, Recheck,
     RecheckHits, RemoveRestale, FetchOk, FetchFails, StoreBody, StorePanics, Resolve,
     RemoveSlot, Disconnect, Goto, vars
<1>2. ASSUME NEW d \in Callers, Respond(d) \/ Release(d)
      PROVE  want'[c] = want[c] /\ stage[c] \in {"restale", "upstream"}
  BY <1>0, <1>2 DEF Respond, Release, Goto
<1>3. CASE CacheClear \/ Tick \/ UNCHANGED vars
  BY <1>3 DEF CacheClear, Tick, vars
<1> QED BY <1>1, <1>2, <1>3 DEF Next

\* How a leader comes to have the outcome of its flight.
LEMMA IntoDone ==
    ASSUME IInv, [Next]_vars, NEW c \in Callers, stage'[c] = "done"
    PROVE  /\ want'[c] = want[c]
           /\ \/ stage[c] = "done" /\ body'[c] = body[c]
              \/ Recheck(c) /\ body'[c] = entry[want[c]].body /\ UNCHANGED cacheVars
              \/ StoreBody(c) /\ body'[c] = body[c]
              \/ FetchFails(c)
<1>0. /\ stage \in [Callers -> Stages] /\ want \in [Callers -> Keys \cup {NoKey}]
      /\ body \in [Callers -> Outcomes \cup {NoOutcome}]
  BY DEF IInv, TypeOK
<1>1. ASSUME NEW d \in Callers,
             \/ Request(d) \/ RemoveStale(d) \/ Join(d) \/ Lead(d) \/ Follow(d) \/ Recheck(d)
             \/ RemoveRestale(d) \/ FetchOk(d) \/ FetchFails(d) \/ StoreBody(d)
             \/ StorePanics(d) \/ Resolve(d) \/ RemoveSlot(d) \/ Disconnect(d)
      PROVE  /\ want'[c] = want[c]
             /\ \/ stage[c] = "done" /\ body'[c] = body[c]
                \/ Recheck(c) /\ body'[c] = entry[want[c]].body /\ UNCHANGED cacheVars
                \/ StoreBody(c) /\ body'[c] = body[c]
                \/ FetchFails(c)
  BY <1>0, <1>1 DEF Request, ServeHit, MissFirst, RemoveStale, Join, Lead, Follow, Recheck,
     RemoveRestale, FetchOk, FetchFails, StoreBody, StorePanics, Resolve,
     RemoveSlot, Disconnect, Goto, vars
<1>2. ASSUME NEW d \in Callers, Respond(d) \/ Release(d)
      PROVE  want'[c] = want[c] /\ stage[c] = "done" /\ body'[c] = body[c]
  BY <1>0, <1>2 DEF Respond, Release, Goto
<1>3. CASE CacheClear \/ Tick \/ UNCHANGED vars
  BY <1>3 DEF CacheClear, Tick, vars
<1> QED BY <1>1, <1>2, <1>3 DEF Next

\* A body that is live after a step, under the key of a leader that is not the
\* one to have stored it, was live before.
LEMMA OthersLeaveIt ==
    ASSUME IInv, [Next]_vars, NEW c \in Callers, stage[c] \in Leading, ~StoreBody(c),
           NEW k \in Keys, want[c] = k, Store!Hit(k)'
    PROVE  Store!Hit(k) /\ entry'[k] = entry[k]
<1>1. CASE \E d \in Callers : StoreBody(d)
  <2>1. PICK d \in Callers : StoreBody(d)
    BY <1>1
  <2>2. stage[d] \in Leading /\ d # c
    BY <2>1 DEF StoreBody, Leading
  <2>3. want[d] # k
    BY <2>2, LeaderAlone
  <2> QED BY <2>1, <2>3, SetFillsOwnKey
<1>2. CASE \A d \in Callers : ~StoreBody(d)
  BY <1>2, HitsAreOld
<1> QED BY <1>1, <1>2

\* Nobody fetches what is in the cache, and an outcome is what the cache got.
LEMMA NextLeadersBody == IInv /\ [Next]_vars => LeadersBody'
<1> SUFFICES ASSUME IInv, [Next]_vars, NEW c \in Callers
             PROVE  /\ stage'[c] = "store" => body'[c] \in Bodies
                    /\ stage'[c] \in {"restale", "upstream"} => ~Store!Hit(want[c])'
                    /\ stage'[c] = "done" /\ Store!Hit(want[c])'
                           => entry'[want'[c]].body = body'[c]
  BY DEF LeadersBody
<1> USE DEF Store!Hit, Store!Live
<1>1. ASSUME stage'[c] = "store" PROVE body'[c] \in Bodies
  <2>0. /\ stage \in [Callers -> Stages] /\ body \in [Callers -> Outcomes \cup {NoOutcome}]
        /\ stage[c] = "store" => body[c] \in Bodies
    BY DEF IInv, TypeOK, LeadersBody
  <2>1. ASSUME NEW d \in Callers,
               \/ Request(d) \/ RemoveStale(d) \/ Join(d) \/ Lead(d) \/ Follow(d) \/ Recheck(d)
               \/ RemoveRestale(d) \/ FetchOk(d) \/ FetchFails(d) \/ StoreBody(d)
               \/ StorePanics(d) \/ Resolve(d) \/ RemoveSlot(d) \/ Respond(d)
               \/ Disconnect(d) \/ Release(d)
        PROVE  body'[c] \in Bodies
    BY <1>1, <2>0, <2>1 DEF Request, ServeHit, MissFirst, RemoveStale, Join, Lead, Follow,
       Recheck, RemoveRestale, FetchOk, FetchFails, StoreBody, StorePanics, Resolve,
       RemoveSlot, Respond, Disconnect, Release, Goto, vars
  <2>2. CASE CacheClear \/ Tick \/ UNCHANGED vars
    BY <1>1, <2>0, <2>2 DEF CacheClear, Tick, vars
  <2> QED BY <2>1, <2>2 DEF Next
<1>2. ASSUME stage'[c] \in {"restale", "upstream"}, Store!Hit(want[c])' PROVE FALSE
  <2>1. /\ want'[c] = want[c] /\ stage[c] \in Leading /\ stage[c] # "store"
        /\ ~Store!Hit(want[c])
    BY <1>2, IntoFetch DEF Leading, IInv, LeadersBody
  <2>2. want[c] \in Keys /\ ~StoreBody(c)
    BY <2>1, LeaderInSlot DEF StoreBody
  <2>3. Store!Hit(want[c])
    BY <1>2, <2>1, <2>2, OthersLeaveIt
  <2> QED BY <2>1, <2>3
<1>3. ASSUME stage'[c] = "done", Store!Hit(want[c])' PROVE entry'[want'[c]].body = body'[c]
  <2> DEFINE k == want[c]
  <2>1. want'[c] = k /\ stage[c] \in Leading
    BY <1>3, IntoDone DEF Leading, Recheck, StoreBody, FetchFails
  <2>2. k \in Keys /\ Store!Hit(k)'
    BY <1>3, <2>1, LeaderInSlot
  <2>3. CASE stage[c] = "done" /\ body'[c] = body[c]
    <3>1. Store!Hit(k) /\ entry'[k] = entry[k]
      BY <2>1, <2>2, <2>3, OthersLeaveIt DEF StoreBody
    <3> QED BY <2>1, <2>3, <3>1 DEF IInv, LeadersBody
  <2>4. CASE Recheck(c) /\ body'[c] = entry[k].body /\ UNCHANGED cacheVars
    BY <2>1, <2>4 DEF cacheVars
  <2>5. CASE StoreBody(c) /\ body'[c] = body[c]
    BY <2>1, <2>2, <2>5, SetFillsOwnKey
  <2>6. CASE FetchFails(c)
    <3>1. stage[c] = "upstream"
      BY <2>6 DEF FetchFails
    <3>2. Store!Hit(k)
      BY <2>1, <2>2, <3>1, OthersLeaveIt DEF StoreBody
    <3> QED BY <3>1, <3>2 DEF IInv, LeadersBody
  <2> QED BY <1>3, <2>3, <2>4, <2>5, <2>6, IntoDone
<1> QED BY <1>1, <1>2, <1>3

\* Joining leaves every slot's flight as it was, or opens an unset one.
LEMMA JoiningKeepsOutcomes ==
    ASSUME IInv, NEW c \in Callers, Join(c), NEW k \in Keys, inflight'[k] # NoCell
    PROVE  \/ outcome'[inflight'[k]] = NoOutcome
           \/ inflight'[k] = inflight[k] /\ outcome'[inflight'[k]] = outcome[inflight[k]]
<1>1. /\ inflight \in [Keys -> Cells \cup {NoCell}]
      /\ outcome \in [Cells -> Outcomes \cup {NoOutcome}]
  BY DEF IInv, TypeOK, Flights!TypeOK
<1>2. CASE Flights!JoinFlight(c, want[c])
  BY <1>2 DEF Flights!JoinFlight
<1>3. CASE Flights!OpenFlight(c, want[c])
  BY <1>1, <1>3 DEF Flights!OpenFlight
<1> QED BY <1>2, <1>3 DEF Join, Flights!Join

\* A flight's outcome and the cache stay of one mind.
LEMMA NextAgrees == IInv /\ [Next]_vars => FlightAgreesWithCache'
<1> SUFFICES ASSUME IInv, [Next]_vars, NEW k \in Keys, inflight'[k] # NoCell, Store!Hit(k)'
             PROVE  outcome'[inflight'[k]] \in {NoOutcome, entry'[k].body}
  BY DEF FlightAgreesWithCache, Store!Hit, Store!Live
<1>0. /\ inflight[k] # NoCell /\ Store!Hit(k)
            => outcome[inflight[k]] \in {NoOutcome, entry[k].body}
      /\ inflight \in [Keys -> Cells \cup {NoCell}]
      /\ outcome \in [Cells -> Outcomes \cup {NoOutcome}]
  BY DEF IInv, FlightAgreesWithCache, TypeOK, Flights!TypeOK
<1>1. ASSUME NEW c \in Callers, StoreBody(c)
      PROVE  outcome'[inflight'[k]] \in {NoOutcome, entry'[k].body}
  <2>1. UNCHANGED flightVars /\ stage[c] \in Leading
    BY <1>1 DEF StoreBody, Leading
  <2>2. CASE k = want[c]
    BY <2>1, <2>2, LeaderInSlot DEF flightVars
  <2>3. CASE k # want[c]
    BY <1>0, <1>1, <2>1, <2>3, SetFillsOwnKey DEF flightVars
  <2> QED BY <2>2, <2>3
<1>2. CASE \A c \in Callers : ~StoreBody(c)
  <2>1. Store!Hit(k) /\ entry'[k] = entry[k]
    BY <1>2, HitsAreOld
  <2>2. ASSUME NEW c \in Callers, Resolve(c)
        PROVE  outcome'[inflight'[k]] \in {NoOutcome, entry'[k].body}
    <3>1. /\ inflight' = inflight /\ stage[c] = "done"
          /\ outcome' = [outcome EXCEPT ![guard[c]] = body[c]]
      BY <2>2 DEF Resolve, Flights!Resolve
    <3>2. want[c] \in Keys /\ guard[c] \in Cells /\ key[c] = want[c]
      BY <3>1, LeaderInSlot DEF Leading, IInv, CallsAgree
    <3>3. CASE inflight[k] = guard[c]
      <4>1. k = want[c]
        BY <3>2, <3>3, NoCellIsNoCell DEF IInv, Flights!IInv, Flights!OneKeyPerCell
      <4>2. outcome'[inflight'[k]] = body[c]
        BY <1>0, <3>1, <3>2, <3>3
      <4> QED BY <2>1, <3>1, <4>1, <4>2 DEF IInv, LeadersBody
    <3>4. CASE inflight[k] # guard[c]
      BY <1>0, <2>1, <3>1, <3>4
    <3> QED BY <3>3, <3>4
  <2>3. ASSUME NEW c \in Callers, Join(c)
        PROVE  outcome'[inflight'[k]] \in {NoOutcome, entry'[k].body}
    BY <1>0, <2>1, <2>3, JoiningKeepsOutcomes
  <2>4. ASSUME outcome' = outcome, inflight'[k] \in {inflight[k], NoCell}
        PROVE  outcome'[inflight'[k]] \in {NoOutcome, entry'[k].body}
    BY <1>0, <2>1, <2>4
  <2>5. ASSUME NEW c \in Callers,
               \/ Lead(c) \/ Follow(c) \/ StorePanics(c) \/ RemoveSlot(c)
               \/ Respond(c) \/ Disconnect(c) \/ Release(c)
        PROVE  outcome' = outcome /\ inflight'[k] \in {inflight[k], NoCell}
    BY <1>0, <2>5 DEF Lead, Follow, StorePanics, RemoveSlot, Respond, Disconnect, Release,
       Flights!Acquire, Flights!Follow, Flights!Cancel, Flights!RemoveSlot, Flights!Return,
       Flights!Release, Flights!DropGuard
  <2>6. ASSUME NEW c \in Callers,
               \/ Request(c) \/ RemoveStale(c) \/ Recheck(c) \/ RemoveRestale(c)
               \/ FetchOk(c) \/ FetchFails(c)
        PROVE  UNCHANGED flightVars
    BY <2>6 DEF Request, ServeHit, MissFirst, RemoveStale, Recheck, RemoveRestale, FetchOk,
       FetchFails, vars
  <2>7. CASE CacheClear \/ Tick \/ UNCHANGED vars
    <3>1. UNCHANGED flightVars
      BY <2>7 DEF CacheClear, Tick, vars
    <3> QED BY <2>4, <3>1 DEF flightVars
  <2> QED BY <1>2, <2>2, <2>3, <2>4, <2>5, <2>6, <2>7 DEF Next, flightVars
<1> QED BY <1>1, <1>2

\* Every step keeps the inductive invariant.
LEMMA NextIInv == IInv /\ [Next]_vars => IInv'
<1> SUFFICES ASSUME IInv, [Next]_vars PROVE IInv'
  OBVIOUS
<1>1. Flights!IInv'
  BY StepsOfCoalescer, FlightsInvariant DEF IInv
<1>2. Store!Bounded'
  BY StepsOfCache, StoreInvariant DEF IInv, TypeOK
<1> QED BY <1>1, <1>2, NextTypes, NextCallsAgree, NextLeadersBody, NextAgrees DEF IInv

-----------------------------------------------------------------------------
(* Theorems *)

\* Requests, flights and cache agree as IInv says in every reachable state.
THEOREM Invariance == Spec => []IInv
BY InitIInv, NextIInv, PTL DEF Spec

\* Every behaviour of cached_json is one of Coalescer: all that CoalescerProofs
\* shows holds of the flights of real requests.
THEOREM FlightsAreCoalescer == Spec => DrivesCoalescer
<1>1. Init => Flights!Init
  BY DEF Init
<1> QED BY <1>1, StepsOfCoalescer, Invariance, PTL DEF Spec, DrivesCoalescer, Flights!Spec

\* Every behaviour of cached_json is one of Cache.
THEOREM BodiesAreCache == Spec => DrivesCache
<1>1. Init => Store!Init
  BY DEF Init
<1> QED BY <1>1, StepsOfCache, Invariance, PTL DEF Spec, DrivesCache, Store!Spec

\* While a request waits for the game server its key has no live body: one
\* upstream call per cache window, however leaders are cancelled, bodies
\* expire, entries are evicted and the cache is cleared.
THEOREM OneCallPerWindow == Spec => []NoFetchWhileLive
<1>1. IInv => NoFetchWhileLive
  BY DEF IInv, LeadersBody, NoFetchWhileLive
<1> QED BY <1>1, Invariance, PTL

\* No two requests fetch, or hold a fetched body of, the same key.
THEOREM SingleWriter == Spec => []OneWriterPerKey
<1>1. IInv => OneWriterPerKey
  BY LeaderAlone DEF OneWriterPerKey, Leading
<1> QED BY <1>1, Invariance, PTL

\* A hit and a flight open at the same time give the same body.
THEOREM FlightAndCacheAgree == Spec => []FlightAgreesWithCache
<1>1. IInv => FlightAgreesWithCache
  BY DEF IInv
<1> QED BY <1>1, Invariance, PTL
===============================================================================
