----------------------------- MODULE CachedJson -----------------------------
(***************************************************************************)
(* cached_json of handlers.rs, the path every data endpoint takes: look in *)
(* the cache, join the key's flight on a miss, look again as its leader,   *)
(* call the game server, store the body, hand it to everyone waiting.      *)
(* It composes Cache and Coalescer: their state is shared with this module *)
(* and their steps are conjuncts of its own.  Other tasks clear the cache, *)
(* time passes, clients go away, and the upstream call may fail.           *)
(***************************************************************************)
EXTENDS Naturals, FiniteSets

CONSTANTS Callers, Keys, Cells, Bodies,
          TtlOf,       \* the time-to-live the handler for each key passes
          Capacity, MaxInstant,
          Failed,      \* outcome of a flight whose upstream call, decoding or
                       \* mapping failed
          NoKey, NoCell, NoOutcome, Absent

Outcomes == Bodies \cup {Failed}

ASSUME CallersFinite == IsFiniteSet(Callers)
ASSUME KeysFinite == IsFiniteSet(Keys)
ASSUME CapacityPositive == Capacity \in Nat \ {0}
ASSUME MaxInstantNat == MaxInstant \in Nat
ASSUME TtlOfType == TtlOf \in [Keys -> Nat]
ASSUME FailedIsNoBody == Failed \notin Bodies
ASSUME NoKeyIsNoKey == NoKey \notin Keys
ASSUME NoCellIsNoCell == NoCell \notin Cells
ASSUME NoOutcomeIsNoOutcome == NoOutcome \notin Outcomes
ASSUME AbsentIsNoEntry == Absent \notin [body : Bodies, expires_at : 0..MaxInstant]

VARIABLES inflight, outcome, guard, key, pc, answered,  \* of Coalescer
          entry, now, poisoned, expired,                \* of Cache
          stage,    \* how far each caller's request is, outside Coalescer's steps
          want,     \* the key of each caller's request
          body      \* the outcome the leader's closure is about to return

flightVars == <<inflight, outcome, guard, key, pc, answered>>
cacheVars == <<entry, now, poisoned, expired>>
vars == <<flightVars, cacheVars, stage, want, body>>

Flights == INSTANCE Coalescer
Store == INSTANCE Cache WITH Users <- Callers, Ttls <- {TtlOf[k] : k \in Keys}

Stages == {"start",     \* no request
           "stale",     \* saw an expired entry, has not removed it
           "missed",    \* about to join the flight
           "joined",    \* inside Coalescer::run
           "recheck",   \* leader: about to look in the cache again
           "restale",   \* leader: saw an expired entry, has not removed it
           "upstream",  \* leader: waiting for the game server
           "store",     \* leader: has a body to store
           "done"}      \* leader: about to set the flight's cell

TypeOK == /\ Flights!TypeOK
          /\ Store!TypeOK
          /\ stage \in [Callers -> Stages]
          /\ want \in [Callers -> Keys \cup {NoKey}]
          /\ body \in [Callers -> Outcomes \cup {NoOutcome}]
          /\ \A c \in Callers : stage[c] \in {"store", "done"} <=> body[c] # NoOutcome

Init == /\ Flights!Init
        /\ Store!Init
        /\ stage = [c \in Callers |-> "start"]
        /\ want = [c \in Callers |-> NoKey]
        /\ body = [c \in Callers |-> NoOutcome]

Goto(c, s) == stage' = [stage EXCEPT ![c] = s]

-----------------------------------------------------------------------------
(* The first lookup. *)

\* A hit answers the request and leaves no trace.
ServeHit(c, k) == /\ stage[c] = "start"
                  /\ Store!Hit(k)
                  /\ UNCHANGED vars

MissFirst(c, k) == /\ stage[c] = "start"
                   /\ \/ Store!Miss(k) /\ Goto(c, "missed") /\ UNCHANGED cacheVars
                      \/ Store!FindExpired(c, k) /\ Goto(c, "stale")
                   /\ want' = [want EXCEPT ![c] = k]
                   /\ UNCHANGED <<flightVars, body>>

RemoveStale(c) == /\ stage[c] = "stale"
                  /\ Store!RemoveExpired(c)
                  /\ Goto(c, "missed")
                  /\ UNCHANGED <<flightVars, want, body>>

-----------------------------------------------------------------------------
(* Coalescer::run. *)

Join(c) == /\ stage[c] = "missed"
           /\ Flights!Join(c, want[c])
           /\ Goto(c, "joined")
           /\ UNCHANGED <<cacheVars, want, body>>

Lead(c) == /\ stage[c] = "joined"
           /\ Flights!Acquire(c)
           /\ Goto(c, "recheck")
           /\ UNCHANGED <<cacheVars, want, body>>

Follow(c) == /\ stage[c] = "joined"
             /\ Flights!Follow(c)
             /\ UNCHANGED <<cacheVars, stage, want, body>>

\* The leader's second lookup: "a previous leader may have populated the cache".
RecheckHits_Never(k) == FALSE                                     \* mutant
RecheckHits(k) == Store!Hit(k)

Recheck(c) ==
    /\ stage[c] = "recheck"
    /\ \/ /\ RecheckHits(want[c])
          /\ body' = [body EXCEPT ![c] = entry[want[c]].body]
          /\ Goto(c, "done")
          /\ UNCHANGED cacheVars
       \/ /\ ~RecheckHits(want[c]) /\ ~Store!SeesExpired(want[c])
          /\ Goto(c, "upstream")
          /\ UNCHANGED <<cacheVars, body>>
       \/ /\ ~RecheckHits(want[c]) /\ Store!FindExpired(c, want[c])
          /\ Goto(c, "restale")
          /\ UNCHANGED body
    /\ UNCHANGED <<flightVars, want>>

RemoveRestale(c) == /\ stage[c] = "restale"
                    /\ Store!RemoveExpired(c)
                    /\ Goto(c, "upstream")
                    /\ UNCHANGED <<flightVars, want, body>>

\* client.fetch, decode, map and to_vec: a body to store, or an error.
FetchOk(c) == /\ stage[c] = "upstream"
              /\ \E b \in Bodies : body' = [body EXCEPT ![c] = b]
              /\ Goto(c, "store")
              /\ UNCHANGED <<flightVars, cacheVars, want>>

\* Mutant: an error is dropped on its way out of the closure.
FetchFails_Dropped(c) == /\ stage[c] = "upstream"
                         /\ Goto(c, "done")
                         /\ UNCHANGED <<flightVars, cacheVars, want, body>>

FetchFails(c) == /\ stage[c] = "upstream"
                 /\ body' = [body EXCEPT ![c] = Failed]
                 /\ Goto(c, "done")
                 /\ UNCHANGED <<flightVars, cacheVars, want>>

\* An expiry no Instant can represent panics inside set.
Panics(k) == ~poisoned /\ TtlOf[k] # 0 /\ now + TtlOf[k] > MaxInstant

\* Mutant: the body is put in the map without the cache's own set.
StoreBody_Raw(c) ==
    /\ stage[c] = "store"
    /\ ~Panics(want[c])
    /\ entry' = [entry EXCEPT ![want[c]] =
                    [body |-> body[c], expires_at |-> now + TtlOf[want[c]]]]
    /\ Goto(c, "done")
    /\ UNCHANGED <<flightVars, now, poisoned, expired, want, body>>

StoreBody(c) == /\ stage[c] = "store"
                /\ ~Panics(want[c])
                /\ Store!Set(want[c], body[c], TtlOf[want[c]])
                /\ Goto(c, "done")
                /\ UNCHANGED <<flightVars, want, body>>

\* The panic unwinds through run like a cancellation.
StorePanics(c) == /\ stage[c] = "store"
                  /\ Panics(want[c])
                  /\ Store!Set(want[c], body[c], TtlOf[want[c]])
                  /\ Flights!Cancel(c)
                  /\ Goto(c, "joined")
                  /\ body' = [body EXCEPT ![c] = NoOutcome]
                  /\ UNCHANGED want

Resolve(c) == /\ stage[c] = "done"
              /\ Flights!Resolve(c, body[c])
              /\ Goto(c, "joined")
              /\ body' = [body EXCEPT ![c] = NoOutcome]
              /\ UNCHANGED <<cacheVars, want>>

RemoveSlot(c) == /\ stage[c] = "joined"
                 /\ Flights!RemoveSlot(c)
                 /\ UNCHANGED <<cacheVars, stage, want, body>>

\* The guard is dropped and the response, or the error, goes out.
Respond(c) == /\ stage[c] = "joined"
              /\ Flights!Return(c)
              /\ Goto(c, "start")
              /\ want' = [want EXCEPT ![c] = NoKey]
              /\ UNCHANGED <<cacheVars, body>>

\* The client goes away while the request awaits its flight or the game server.
\* Mutant: the request is forgotten together with its guard.
Disconnect_Forgets(c) == /\ stage[c] \in {"joined", "upstream"}
                         /\ pc[c] \in {"waiting", "fetching"}
                         /\ pc' = [pc EXCEPT ![c] = "idle"]
                         /\ Goto(c, "start")
                         /\ want' = [want EXCEPT ![c] = NoKey]
                         /\ UNCHANGED <<inflight, outcome, guard, key, answered, cacheVars, body>>

Disconnect(c) == /\ stage[c] \in {"joined", "upstream"}
                 /\ Flights!Cancel(c)
                 /\ Goto(c, "joined")
                 /\ UNCHANGED <<cacheVars, want, body>>

Release(c) == /\ Flights!Release(c)
              /\ Goto(c, "start")
              /\ want' = [want EXCEPT ![c] = NoKey]
              /\ UNCHANGED <<cacheVars, body>>

-----------------------------------------------------------------------------
\* DELETE /api/{server}/cache
CacheClear == Store!Clear /\ UNCHANGED <<flightVars, stage, want, body>>

Tick == Store!Tick /\ UNCHANGED <<flightVars, stage, want, body>>

Request(c) == \E k \in Keys : ServeHit(c, k) \/ MissFirst(c, k)

Next == \/ \E c \in Callers : \/ Request(c) \/ RemoveStale(c)
                              \/ Join(c) \/ Lead(c) \/ Follow(c)
                              \/ Recheck(c) \/ RemoveRestale(c)
                              \/ FetchOk(c) \/ FetchFails(c)
                              \/ StoreBody(c) \/ StorePanics(c)
                              \/ Resolve(c) \/ RemoveSlot(c) \/ Respond(c)
                              \/ Disconnect(c) \/ Release(c)
        \/ CacheClear
        \/ Tick

Spec == Init /\ [][Next]_vars

\* Every step of a request is eventually taken: the game server answers or the
\* HTTP client times out, tasks are polled when woken, and the permit goes to
\* waiters in order.  Clients, clears and the clock are free.
Step(c) == \/ RemoveStale(c) \/ Join(c) \/ Follow(c)
           \/ Recheck(c) \/ RemoveRestale(c) \/ FetchOk(c) \/ FetchFails(c)
           \/ StoreBody(c) \/ StorePanics(c) \/ Resolve(c) \/ RemoveSlot(c)
           \/ Respond(c) \/ Release(c)

Fairness == \A c \in Callers : WF_vars(Step(c)) /\ SF_vars(Lead(c))

FairSpec == Spec /\ Fairness

-----------------------------------------------------------------------------
(* Properties *)

\* "Concurrent cache misses coalesce onto a single upstream call per cache
\* window" (handlers.rs:81): while a request waits for the game server, nobody
\* has put a live body for its key in the cache, so no window sees two calls.
NoFetchWhileLive == \A c \in Callers : stage[c] = "upstream" => ~Store!Hit(want[c])

\* Two requests never wait for the game server, or hold a fresh body still to be
\* stored, for the same key: a slower one cannot overwrite what a faster one
\* stored.
OneWriterPerKey == \A c, d \in Callers :
    /\ stage[c] \in {"upstream", "store"} /\ stage[d] \in {"upstream", "store"}
    /\ want[c] = want[d]
    => c = d

\* Clients answered by a flight and clients answered by the cache at the same
\* time see the same body: while a flight that resolved with a body is still
\* open to newcomers, a hit for its key returns that body.
FlightAgreesWithCache == \A k \in Keys :
    inflight[k] # NoCell /\ Store!Hit(k) =>
        outcome[inflight[k]] \in {NoOutcome, entry[k].body}

\* Where a request is agrees with where its call of Coalescer::run is: whoever
\* looks again, fetches or stores holds the permit of its key's cell.
Leading == {"recheck", "restale", "upstream", "store", "done"}

CallsAgree == \A c \in Callers :
    /\ stage[c] = "start" <=> want[c] = NoKey
    /\ stage[c] \in {"start", "stale", "missed"} => pc[c] = "idle"
    /\ stage[c] = "joined" => pc[c] \notin {"idle", "fetching"} /\ key[c] = want[c]
    /\ stage[c] \in Leading => pc[c] = "fetching" /\ key[c] = want[c]

\* What a leader has found or fetched.
LeadersBody == \A c \in Callers :
    /\ stage[c] = "store" => body[c] \in Bodies
    /\ stage[c] \in {"restale", "upstream"} => ~Store!Hit(want[c])
    /\ stage[c] = "done" /\ Store!Hit(want[c]) => entry[want[c]].body = body[c]

\* The inductive invariant behind the three properties above: only the leader
\* of a key's flight fills its place in the cache.
IInv == /\ TypeOK
        /\ Flights!IInv
        /\ Store!Bounded
        /\ CallsAgree
        /\ LeadersBody
        /\ FlightAgreesWithCache

\* The composition drives the coalescer and the cache only as they allow.
DrivesCoalescer == Flights!Spec
DrivesCache == Store!Spec

\* Every request that misses the cache is answered, or its client went away:
\* through failures, panics, cancelled leaders, clears and a poisoned cache.
EveryRequestEnds == \A c \in Callers : stage[c] = "missed" ~> stage[c] = "start"
=============================================================================
