------------------------------ MODULE Endpoints ------------------------------
(***************************************************************************)
(* One request on its way through the data API, among all others: the      *)
(* layers of routes.rs, the checks of its handler, its calls of            *)
(* cached_json, and its reply.                                             *)
(*                                                                         *)
(* A call of cached_json is one step here: CachedJson shows what stands    *)
(* behind it, that a key with a live body is never fetched and that a      *)
(* fetched body is stored before its flight ends.  The bodies in the cache *)
(* are known by the calls that stored them.  Other requests store bodies   *)
(* of their own, and bodies expire, are evicted and are cleared, between   *)
(* any two steps of this one.                                              *)
(***************************************************************************)
EXTENDS Routes, FiniteSets, SequencesExt

CONSTANTS Numbers,   \* values of an id or mid that parse as i64
          Types,     \* event types in use
          Capacity,  \* bodies the cache can hold
          NoCall, NoRequest

ASSUME NumbersAreIntegers == Numbers \subseteq Int
ASSUME TypesSupported == Types \subseteq EventTypes
ASSUME CapacityPositive == Capacity \in Nat \ {0}
ASSUME MarkersAreNoValues == /\ \A m \in {Omitted, BadNumber, Unsupported} :
                                   m \notin Numbers /\ m \notin Types
                             /\ Omitted \notin {BadNumber, Unsupported}

VARIABLES keyed,       \* API_KEY is set
          configured,  \* the jp server is configured
          cache,       \* the calls whose bodies are in the cache, unexpired
          pc,          \* where the request is
          request,     \* what it asks
          call,        \* its current call of cached_json
          served,      \* the call whose body that call was given
          status,      \* its reply: HTTP status,
          envelope     \* and whether the body is AppError's envelope

vars == <<keyed, configured, cache, pc, request, call, served, status, envelope>>

-----------------------------------------------------------------------------
(* Requests: the arguments a route takes, and whether the key, the server  *)
(* segment and the method are right.                                       *)

Arguments ==
    [route : RouteNames \ TakesId, id : {Omitted}, type : {Omitted}, mid : {Omitted},
     difficulty : {Omitted}]
    \cup [route : TakesId \ {"event_ranking", "user_music_status"}, id : Numbers \cup {BadNumber},
          type : {Omitted}, mid : {Omitted}, difficulty : {Omitted}]
    \cup [route : {"event_ranking"}, id : Numbers \cup {BadNumber},
          type : Types \cup {Omitted, Unsupported}, mid : Numbers \cup {Omitted, BadNumber},
          difficulty : {Omitted}]
    \cup [route : {"user_music_status"}, id : Numbers \cup {BadNumber}, type : {Omitted},
          mid : {Omitted}, difficulty : {"expert", Omitted, Unsupported}]

Requests == {[arg |-> a, key |-> k, server |-> s, method |-> m] :
                 a \in Arguments, k \in BOOLEAN, s \in BOOLEAN, m \in BOOLEAN}

Valid(a) == /\ a.route \in TakesId \ {"area_item_spawn_single"} => a.id \in Numbers /\ a.id > 0
            /\ a.type # Unsupported
            /\ a.mid # BadNumber
            /\ a.route = "user_music_status" => a.difficulty = "expert"

\* Every call a valid request can make.
Calls == {FirstCall(a) : a \in {b \in Arguments : b.route \in CallRoutes /\ Valid(b)}}
         \cup {BandSituations}

TypeOK == /\ keyed \in BOOLEAN
          /\ configured \in BOOLEAN
          /\ cache \in SUBSET Calls
          /\ Cardinality(cache) <= Capacity
          /\ \A b, c \in cache : b.key = c.key => b = c
          /\ pc \in {"idle", "calling", "served", "replied"}
          /\ request \in Requests \cup {NoRequest}
          /\ call \in Calls \cup {NoCall}
          /\ served \in Calls \cup {NoCall}
          /\ status \in {0, 200, 400, 401, 404, 405, 500, 502}
          /\ envelope \in BOOLEAN

Init == /\ keyed \in BOOLEAN
        /\ configured \in BOOLEAN
        /\ cache = {}
        /\ pc = "idle"
        /\ request = NoRequest
        /\ call = NoCall
        /\ served = NoCall
        /\ status = 0
        /\ envelope = FALSE

Reply(code, wrapped) == /\ pc' = "replied"
                        /\ status' = code
                        /\ envelope' = wrapped
                        /\ UNCHANGED <<keyed, configured>>

-----------------------------------------------------------------------------
(* The checks. *)

TooSmall_NegativeOnly(id) == id \in Numbers /\ id < 0  \* mutant
TooSmall(id) == id \in Numbers /\ id < 1

Failing(check, r) ==
    \/ check = "key" /\ keyed /\ ~r.key
    \/ check = "server" /\ ~r.server
    \/ check = "method" /\ ~r.method
    \/ check \in {"path", "number"} /\ r.arg.id = BadNumber
    \/ check = "query" /\ r.arg.mid = BadNumber
    \/ check = "id" /\ TooSmall(r.arg.id)
    \/ check = "type" /\ r.arg.type = Unsupported
    \/ check = "difficulty" /\ r.arg.difficulty \in {Omitted, Unsupported}
    \/ check = "configured" /\ ~configured

Code == [key |-> 401, server |-> 400, method |-> 405, path |-> 400, number |-> 400,
         query |-> 400, id |-> 400, type |-> 400, difficulty |-> 400, configured |-> 404]

\* axum answers for its own extractors and method filter, in plain text.
RejectedByAxum == {"method", "path", "query"}

\* The first check that fails, in order.
FirstFailing(r) == SelectInSeq(Checks(r.arg.route), LAMBDA check : Failing(check, r))

Passes(r) == \A i \in DOMAIN Checks(r.arg.route) : ~Failing(Checks(r.arg.route)[i], r)

Refuse(r) == /\ ~Passes(r)
             /\ LET check == Checks(r.arg.route)[FirstFailing(r)]
                IN Reply(Code[check], check \notin RejectedByAxum)
             /\ request' = r
             /\ UNCHANGED <<cache, call, served>>

Accept(r) == /\ Passes(r)
             /\ r.arg.route \notin CacheRoutes
             /\ pc' = "calling"
             /\ request' = r
             /\ call' = FirstCall(r.arg)
             /\ UNCHANGED <<keyed, configured, cache, served, status, envelope>>

CacheStats(r) == /\ Passes(r)
                 /\ r.arg.route = "cache_stats"
                 /\ Reply(200, FALSE)
                 /\ request' = r
                 /\ UNCHANGED <<cache, call, served>>

CacheClear(r) == /\ Passes(r)
                 /\ r.arg.route = "cache_clear"
                 /\ cache' = {}
                 /\ Reply(200, FALSE)
                 /\ request' = r
                 /\ UNCHANGED <<call, served>>

-----------------------------------------------------------------------------
(* cached_json. *)

Cached(key) == {b \in cache : b.key = key}

\* What remains of the others when a body is stored under its key.
Stores(c) == \E kept \in SUBSET {b \in cache : b.key # c.key} :
                 /\ Cardinality(kept) < Capacity
                 /\ cache' = kept \cup {c}

Answered(body) == /\ pc' = "served"
                  /\ served' = body
                  /\ UNCHANGED <<keyed, configured, request, call, status, envelope>>

Hit == /\ pc = "calling"
       /\ \E body \in Cached(call.key) : Answered(body)
       /\ UNCHANGED cache

Fetch == /\ pc = "calling"
         /\ Cached(call.key) = {}
         /\ Stores(call)
         /\ Answered(call)

\* Transport, upstream status and decoding fail as 502, decryption,
\* decompression and serialisation as 500.
FetchFails == /\ pc = "calling"
              /\ Cached(call.key) = {}
              /\ \E code \in {500, 502} : Reply(code, TRUE)
              /\ UNCHANGED <<cache, request, call, served>>

-----------------------------------------------------------------------------
(* What a handler does with the body. *)

CallNext(c) == /\ pc' = "calling"
               /\ call' = c
               /\ served' = NoCall
               /\ UNCHANGED <<keyed, configured, cache, request, status, envelope>>

Finish(code, wrapped) == /\ Reply(code, wrapped)
                         /\ UNCHANGED <<cache, request, call, served>>

Resolving == request.arg.route = "event_ranking" /\ call = EventMaster
Joining == request.arg.route = "band_cards" /\ call = BandMembers

\* event_ranking without a type takes it from the event list, which may hold
\* no such event, or one of a type that has no schema.
ResolveType == /\ pc = "served"
               /\ Resolving
               /\ \/ \E type \in Types :
                         CallNext(EventRanking(request.arg.id, type, request.arg.mid))
                  \/ Finish(404, TRUE)
                  \/ Finish(400, TRUE)

\* A band without members has no cards to fetch.
JoinCards == /\ pc = "served"
             /\ Joining
             /\ CallNext(BandSituations) \/ Finish(200, FALSE)

Deliver == /\ pc = "served"
           /\ ~Resolving
           /\ ~Joining
           /\ \/ Finish(200, FALSE)
              \/ /\ request.arg.route \in Lookups
                 /\ Finish(404, TRUE)

Done == /\ pc = "replied"
        /\ pc' = "idle"
        /\ request' = NoRequest
        /\ call' = NoCall
        /\ served' = NoCall
        /\ status' = 0
        /\ envelope' = FALSE
        /\ UNCHANGED <<keyed, configured, cache>>

-----------------------------------------------------------------------------
(* The rest of the program, and time.  What they do while a reply is on its  *)
(* way they can as well do after it: the request is past every cache access. *)

OthersStore == /\ configured
               /\ \E c \in Calls : Cached(c.key) = {} /\ Stores(c)

Forget == \E c \in cache : cache' = cache \ {c}

Others == /\ pc # "replied"
          /\ OthersStore \/ Forget
          /\ UNCHANGED <<keyed, configured, pc, request, call, served, status, envelope>>

Handle == /\ pc = "idle"
          /\ \E r \in Requests :
                 Refuse(r) \/ Accept(r) \/ CacheStats(r) \/ CacheClear(r)

Next == \/ Handle
        \/ Hit \/ Fetch \/ FetchFails
        \/ ResolveType \/ JoinCards \/ Deliver
        \/ Done
        \/ Others

Spec == Init /\ [][Next]_vars

-----------------------------------------------------------------------------
\* What tells one answer of the game server from another: where it came from
\* and what was made of it.  A mid of 0 asks for the ranking without one.
SameResource(b, c) ==
    LET url(d) == [i \in DOMAIN d.url |-> IF d.url[i] = Omitted THEN 0 ELSE d.url[i]]
    IN url(b) = url(c) /\ b.schema = c.schema /\ b.view = c.view /\ b.ttl = c.ttl

\* A handler is given the body of its own call, or of another handler's call
\* that asked the same resource, decoded and mapped alike: keys copied into
\* some eighty handlers (handlers.rs:339-934) never let one resource answer
\* for another, whoever stored the body.
AnswersOwnRequest == served # NoCall => SameResource(served, call)

\* Whatever is fetched was in no unexpired body under any key: "adding
\* derived views never creates an extra upstream request"
\* (handlers.rs:123-125, 194; tests.rs:223-225, 305).
OneUpstreamPerWindow == [][\A c \in cache' \ cache, b \in cache : c.url # b.url]_vars

\* No request reaches the cache or the game server that lacks the key, names
\* another server or a wrong method, gives an id below 1, an unknown type or
\* difficulty, or finds no server configured, in whatever order its handler
\* looks (handlers.rs; tests.rs:212-225, 292 counts the calls).
OnlyValidRequestsCall ==
    pc \in {"calling", "served"} => /\ keyed => request.key
                                   /\ request.server /\ request.method
                                   /\ configured
                                   /\ Valid(request.arg)

\* A documented route reports every error in AppError's envelope
\* (docs/api.md:30), the malformed id and query included.
ErrorsAreEnvelopes == status >= 400 /\ request.method => envelope
=============================================================================
