# TLA+ models of Penlight-Dream-API

Penlight-Dream-API is a small Rust server (axum on tokio) that answers REST
requests about a mobile game by calling the game's own encrypted API, decoding
the protobuf it returns, and reshaping it to JSON. Three mechanisms make it more
than a translator: a TTL cache of response bodies, single-flight coalescing of
cache misses, and a cached *client version* that the game demands on every call
and refuses with HTTP 426 when it is out of date. They are concurrent, they
interact, and they are cancelled whenever a client disconnects. This directory
models them in TLA+, checks them with TLC and proves the main results with TLAPS.

Line numbers are those of the files under `src/` of the repository.

## Inventory

| Component | State | Operations | Modelled in |
|---|---|---|---|
| Response cache, `cache.rs` `Cache` | `RwLock<HashMap<key, (body, expires_at)>>`, at most 1024 entries | `get` (read lock, then write lock for an expired entry), `set` (prune, evict, insert), `clear`, `len` | `Cache` |
| Coalescer, `cache.rs` `Coalescer`, `FlightGuard` | `Mutex<HashMap<key, Arc<OnceCell>>>`, reference counts, each cell's permit and value | `run` (join, `get_or_init`, clear the slot), `FlightGuard::drop` | `Coalescer`, abstractly `SingleFlight` |
| `cached_json`, `api/handlers.rs` | none of its own; where each request is | lookup, join, second lookup, upstream call, store, answer; `DELETE` of the cache | `CachedJson` |
| Client version, `client/mod.rs` `VersionCache`, `GarupaClient::fetch` | `Mutex<Option<(version, fetched_at)>>` | `get`, `drop_cache`, the call and its one retry after a 426 | `VersionCache` |
| Health, `api/handlers.rs` | `HEALTH_SNAPSHOT`, `START_TIME` | `GET /health` | `Health` |
| Request pipeline and the data handlers, `routes.rs`, `auth.rs`, `server.rs`, `error.rs`, `handlers.rs` | none | authentication, server, id and query checks, cache keys and URLs of 86 data and cache routes, error mapping | `Routes`, `Endpoints` |
| Reply pipeline, `client/mod.rs` `fetch_raw` to `decompress_bzip2`, `crypto.rs`, `error.rs` | one reply at a time | status, length check, decryption, encoding, decoding, error mapping | `Response` |
| Protobuf decoding, `proto/` | none (pure) | `read_varint`, `read_field`, `parse`, `decode`, the descriptor tables | `Wire`, `Schemas` |
| Transforms and models, `api/transforms.rs`, `api/models.rs` | none (pure) | flattening, joins, scores, skills, rankings, typed masters | `Views` |
| Process, `config.rs`, `main.rs`, `docker-compose.yml` | the settings read, the listening socket | reading settings, start, graceful shutdown, restart | `Process` |

How they interact. Every data endpoint goes through `cached_json`: it asks the
cache, joins the key's flight on a miss, and the flight's leader asks the cache
again, calls `GarupaClient::fetch`, decodes, maps, stores the body in the cache
and sets the flight's cell; everyone in the flight clones the outcome, an error
included. `fetch` takes a version from the version cache for each attempt. The
three share no lock: the cache's `RwLock`, the coalescer's `Mutex` and the version
cache's `Mutex` are each taken alone and never across an `await`. `GET /health`
uses the version cache and its own snapshot.

What is hard. Between any two critical sections other tasks run. A request can
disappear at any `await`: axum drops its future, which drops a OnceCell future
with its permit, then a `FlightGuard` that has to decide whether it was the last.
Entries expire between two looks. An Instant overflow in `set` panics under the
write lock and poisons it. Lookups of the client version are not coalesced, so a
slow one finishes after a fast one. `PROJECT.json` lists each of these under
`hazards`, at the line where it bites, with the properties that would fail.

What makes each component correct:

* cache: never above capacity; a reader never removes a live entry; an insertion
  evicts only when it must and only what expires first; storing prunes;
* coalescer: one fetch per key; nobody is left in a flight that newcomers cannot
  see; no slot outlives its callers; nobody joins a flight whose outcome was
  already handed out; every call ends;
* `cached_json`: no upstream call while the cache has a live body; one writer per
  key; clients answered by the flight and by the cache agree; every request ends;
* client version: at most one retry; a retry is not older than what the store
  listed at the refusal; a server left behind by an update recovers;
* health: a bounded age of the answer; an uptime that is the uptime;
* replies: what arrives whole is understood, what is torn is answered with a beginning
  of it; views of one snapshot agree with one another; no row, user or member is lost
  between the descriptors and the models, which name everything independently;
* process: nothing incomplete is served; no accepted request is dropped by a shutdown;
  sound settings come up again;
* pipeline: a cache key shared by several handlers means the same resource to all of
  them; no resource is fetched under two keys; no request that should be refused
  reaches the cache or the game server; errors have one form.

## Modules

**`SingleFlight`** is the abstract promise: phases of callers, the key each asked
for and the outcome each is due. A fetch begins only if nobody else fetches the
key; its outcome goes to everyone then waiting; a newcomer may be given the
outcome of a finished flight only while a participant is still on its way out.

**`Coalescer`** is `Coalescer::run` with `FlightGuard` (cache.rs 103-166).
`inflight` is the map, `guard[c]` the cell in a caller's guard, `outcome[x]` a
cell's value. Cells are addresses: `OpenFlight` may reuse one as soon as nothing
refers to it, so `Arc::ptr_eq` is really put to the test. `StrongCount` counts
guards and slots as `Arc::strong_count` does. `Join` is the section under the
mutex, `Acquire`/`Resolve`/`Follow` are the steps of `OnceCell::get_or_init`,
`RemoveSlot` and `Return` the cleanup and the drop of a caller with an outcome,
`Cancel` and `Release` those of a dropped or panicking one: the permit goes back
before the guard is dropped, and other tasks run in between.

**`Cache`** is `struct Cache` (cache.rs 12-101). A `get` of an expired entry is two
steps, `FindExpired` and `RemoveExpired`; hits and plain misses change nothing
and appear as the predicates `Hit` and `Miss`. `Set` has the code's four endings:
zero ttl, insertion, overflow (poisons, after the eviction), already poisoned.
Ties among earliest expiries are broken arbitrarily, as `HashMap` order is.

**`CachedJson`** composes the two through `INSTANCE`: its steps are conjunctions of
their steps. `stage[c]` says where a request is outside `Coalescer::run`. `IInv`
joins the invariants of the two to where each request stands (`CallsAgree`) and to
what its leader holds (`LeadersBody`).

**`VersionCache`** is client/mod.rs 29-112 and 145-186 with the App Store and the game
server as environment. Versions are numbers ordered by age; 0 is the configured
one. `attempts`, `fellBack`, `floor` and `raced` are history; `attempts` counts how
often a call has begun with a version, up to `TooMany`, 3, where it stays. A cached
version's age is one bit, `fresh`, which `Age` clears.

**`Health`** is handlers.rs 39-50 and 296-340 with explicit time. `probed` is when an
answer about the game was obtained, which the code does not record; the code's
own stamp is `snapshot.at`.

**`Routes`** is the table behind the handlers: for every data route the cache key,
upstream URL, schema, view and time-to-live class of its call of `cached_json`,
each copied from its own handler, and the checks the handler makes, in its order.
Routes have the names of their handlers; a formatted key or URL is the sequence
of its parts. `Call` records of two routes are equal when the code asks the same.

**`Endpoints`** follows one request through the layers (key, server, method), its
handler's checks, one or two calls of `cached_json` and the reply, while other
requests store bodies and bodies disappear (`Others`). The cache is a set of calls:
the body of a call is known by what was asked for it. `cached_json` is one step
(`Hit`, `Fetch`, `FetchFails`); what may happen inside is `CachedJson`'s subject.
`event_ranking` without a type first calls for the event list (`ResolveType`),
`band_cards` joins two lists (`JoinCards`). axum's own rejections (a path or query
that does not parse, a wrong method) are modelled as axum 0.8 answers them: in
plain text. Reloading, `HEAD`, unknown paths and repeated query parameters are not
modelled.

**`Wire`** is `decoder.rs` byte by byte. A byte below `Continue` ends a varint; with
`Continue` 32 and `Groups` 3 the longest varint is 16 bits in 4 bytes, as 64 bits in
10 bytes are with 128 and 9: the last byte has one bit, sign and overflow lie at the same
places. Strings are sequences of words, floats one byte of which one value is NaN. The
loop of `decode` and the reader of nested messages are recursive functions, bounded by the
length of the bytes; `Descriptors` are the schemas they read with, a set that holds with
a schema those of its nested messages.

**`Meaning`** is what the reader is the inverse of: the writer `Write`, which is the
game's, and the meaning of a message, `Means`, which speaks of nodes and not of bytes.
Its two properties compare the decoded `root` of `Response` with `Means`. The game is
external, and what is assumed of it is `WrittenAssumption`: the bytes of a reply are those
`Write` makes of its nodes, and the nodes are `Sendable`, that is nested at most `Depth`
deep, with values of fixed size that have it, with lengths that fit a u64, with bytes of a
nested message that are those of its nodes, and with no string where the descriptor has a
message nor the other way round (both are bytes behind a length: the reader could not know).
Field numbers of any size, groups, numbers that overflow, wrong kinds, unknown and repeated
fields are all sendable.

**`Schemas`** is the tables of `garupa_schema.rs` that a transform or a model looks into,
with the real field numbers and names, so that a name which is right in one file and
wrong in the other shows. **`Views`** is `transforms.rs`, `models.rs` and the last lines
of the handlers that use them: looking a member up with a default is `Get`, a list of
typed rows is `Typed` by a model that gives the type of each member.

**`Response`** is the way of one reply: `Arrives`, `ArrivesOddly` (other headers, other
statuses), `ArrivesTorn` (a body without a length that ends early) and `Breaks` are the
network; `Refused`, `Undecryptable`, `Decrypt`, `TakePlain`, `Decompress`,
`Unsupported`, `DecodeReply` the code, in its order. Encryption is a wrapping of every
byte, compression a length in front; both are undone as the libraries do, the zeros
that fill the last block stay. Its properties compare each view with the decoded `root`.

**`Process`** is `Config::from_env`, `main` and the restart policy. `layers` are the
environment, `.env.local` and `.env`; a layer gives each setting a value of the few
that the code tells apart. `Configure` reads them, `ConfigurationError` is the exit of
`unwrap_or_exit` and the restart that follows at once, `Serve` and `StartPanics` are the
bind address and the router, `Signal` and `Drained` the graceful shutdown; `Crash`,
`Stop`, `StartAgain` and `Edit` are the environment.

`MC*` modules only add symmetry sets, messages, settings and functions for the configurations.
Definitions marked `mutant` are plausible bugs: no specification uses them,
they show that each property can fail.

## Runs

| Run | Question | Instance |
|---|---|---|
| `coalescer` | Are flights exclusive, findable, leak-free and closed in time, is `IInv` an invariant, is `SingleFlight` implemented, does every call end through cancelled leaders? | 3 callers, 2 keys, 3 cells, 1 outcome |
| `cache` | Capacity, eviction, pruning, the two looks of `get` | 2 users, 4 keys, 2 bodies, ttl 0-3, capacity 3, instants 0-6 |
| `cached_json` | One call per window, one writer, flight and cache agree | 3 callers, 1 key, 2 bodies |
| `cached_json_live` | Does the composition use coalescer and cache as they specify, when keys compete for a place, and does every request end, with failures, panics, clears? | 2 callers, 2 keys, capacity 1 |
| `version_cache` | Is an unraced retry current, does every call end with at most one, do refusals stop? | 2 callers, 3 versions, attempts counted up to 3 |
| `health` | The age of an answer | 2 requests, ttl 2, lookup limit 1 |
| `endpoints` | Do shared keys name one resource, is it fetched under one key only, is every bad request stopped before the cache? | all 86 routes, ids and mids 0-2 and text, 2 event types, 1 body cached |
| `response` | Is every reply read as it was meant, is a torn one a beginning, do the views keep rows, users, scores, flags and members? | 2283 messages, 6 headers, 6 statuses, every length of 3 torn ones |
| `process` | Is only a complete configuration served, are accepted requests answered, does a sound configuration come up again? | 7 contents of 3 layers, 2 clients, 1 crash, 1 edit |
| `version_cache_retry`, `health_uptime`, `endpoints_envelopes` | What a comment or the API document says, against the code: violated | see Findings |

Bounds. Three callers give a leader that is cancelled or on its way out, a
follower and a newcomer; a third cell allows the address of a dead flight to be
reused while another is open for each key; outcomes are told apart in the runs
of `CachedJson`, and `CoalescerProofs` removes all these bounds. In `cache`, one key more than the
capacity makes evictions and replacements both happen, ttl 3 against
`MaxInstant` 6 lets entries of different lifetimes coexist, expire and
overflow. In `cached_json` the window of length 1 opens and closes several
times before the clock stops. For the version, two callers are a refused
one and one whose lookup is in flight and stores late; versions 0 to 2 allow
two publications; `VersionCacheProofs` proves the safety properties for any number of both.
`attempts` stops at 3, one more than any call may make: that a call made it is what counts.
In `endpoints` one cached body is enough: both properties of the cache relate a call
to one body at a time, and any call of any route may have stored it; ids 0, 1 and 2 are
the boundary of the check and two resources. In `response` a row of skills has up to two
of 19 oddities (both sides of the sign and of overflow, wrong kinds, unknown and
malformed fields, values that are none) and lists have up to three rows, because the
reader has no memory but the last value and the list so far; `TagLimit` 4096 stands for
2^29 and is above every real number of a field; a block has 4 bytes, so that fillings of
0 to 3 zeros occur; `Depth` 6 is exactly how deep
the largest reply here is nested (map entries count as messages): with 5, `WrittenAssumption` is false. Suites have maps of one or two entries and lists of up to two items
with and without key and id, ranks that lack key or value, and bonuses of no rank or no
character; rankings have each container of their descriptor alone, all and twice, masters have all members, each missing in turn. In `process` the contents
contain a copy of `.env.example`, a full configuration and parts that hide or complete
one another; one edit at any moment separates what was read from what is there. The clocks stop at their bound, after which everything else
still runs; deadlock checking is on in every run.

Fairness. `Coalescer` and `CachedJson` assume weak fairness of every step of a
call: tokio polls woken tasks, and the upstream call ends because the HTTP
client has a timeout (client/mod.rs). Taking the cell's permit has strong
fairness, because a permit that becomes free is taken away again by other
callers, and tokio's semaphore hands it to waiters in FIFO order. Nothing is
assumed of clients (they need not start, and may leave), of the clock, or of
`DELETE`. `VersionCache` assumes weak fairness of each call's steps for the same
reason; `RefusalsStop` is conditional on lookups ceasing to fail. `Process` assumes that
docker starts what is wanted, that `main` proceeds and that an accepted request ends
(time limits of upstream calls); nothing is assumed of signals, clients and the operator,
and `ComesUpAgain` is conditional on settings that stay sound and wanted.

## Findings

* `version_cache_retry`: client/mod.rs 174-177 promises that after a 426 the
  version is dropped and refetched. `get` stores a lookup's answer without
  looking whether the cache was dropped since the lookup began (line 66), so
  another call's older lookup refills it and the retry sends that version.
  `RetryIsCurrentUnlessRaced`, proved, says that window is the only way.
* `health_uptime`: `START_TIME` is first set by the first `/health` request, not by
  `main`, so `uptime_secs` counts from that request and the first one says 0.
* `endpoints_envelopes`: docs/api.md 30 promises one envelope for all errors. An id that
  is not a number is refused by axum in plain text, except on the map details,
  which parse it themselves (handlers.rs 201-206).

Observed while modelling, of less weight, and without a run of their own:

* the comment at client/mod.rs 54-56 says a failed lookup falls back to the configured
  version; the code prefers any cached one, however old (lines 71-72, `Fallback`);
* `event_ranking`'s cache key reads an absent `mid` as 0 (handlers.rs 545), its upstream
  URL does not (client/mod.rs 297-299), so a request with `mid=0` and one without answer
  for each other; `AnswersOwnRequest` shows that it is the only such pair;
* config.rs 8 says the base always ends in `/api/`; a full URL only gets a last `/`;
* docs/api.md 27 says lists come as `{"entries": [...]}`; a list master that is empty
  upstream is a message without fields: it decodes to `{}`, and if the game sends no byte
  at all the length check of crypto.rs 24 makes it a 500;
* docs/api.md 184 promises `areaItemId` and `status` in each area item. handlers.rs 845
  passes no key name, so an entry whose value lacks the id is listed without it, and the
  descriptor (garupa_schema.rs 1401-1408) has no member `status`, so no row ever has one;
  `MapRowsAreKept` says that each row is exactly what was filed;
* a body that ends early where nothing told its length is answered, and cached for a
  window, as if it were complete, unless its end misses a block or a compressed stream
  (`TornAnswersArePrefixes` says what can be in it).

## Proofs

| Module | Theorems |
|---|---|
| `CoalescerProofs` | `Invariance` of `IInv`, `TypeCorrect`, `SingleFetch`, `NoOrphans`, `NoLeaks`, `FreshFlights`, `SlotsLast`, and `Refinement` of `SingleFlight` |
| `CacheProofs` | `TypeCorrect`, `CapacityHolds`, `GetsSpareLive`, `EvictionIsEarliest`, `StoringPrunes` |
| `CachedJsonProofs` | `Invariance` of `IInv`, `FlightsAreCoalescer`, `BodiesAreCache`, `OneCallPerWindow`, `SingleWriter`, `FlightAndCacheAgree` |
| `EndpointsProofs` | `NoInvalidCall`, `OwnResource`, `NoSecondFetch` |
| `VersionCacheProofs` | `TypeCorrect`, `RetriesAreCurrent`, `RetriesOnce` |
| `HealthProofs` | `TypeCorrect`, `AnswersAreRecent` |
| `ResponseProofs` | `HandledInvariant`, `FollowedInvariant`, `WholeRepliesUnderstood`, `TornAnswersPrefixes`; `ScoreViewsAgree`, `BonusesAreShownOnce`, `SkillsAreTheirRows`, `NoRankedUserIsLost`, `TrainedFlagIsRight`, `TypedRowsAreWhole`, `MapRowsAreWhole` |
| `ProcessProofs` | `SpecIInv`, `SpecTypeOK`, `SpecServesOnlyComplete`, `SpecPendingHasProcess` |

They hold for any number of callers, keys, cells and outcomes, any capacity,
lifetimes and clock range. Assumptions: finite `Callers` and `Keys` (only so that
counts are numbers), a positive capacity and ttl, markers such as `NoCell` outside
the sets they mark, ids that are integers, and nothing else. Those of
`ResponseProofs` hold for any replies made of bytes, any words, any widths of varints and
fixed values, and any set of descriptors that has those of the routes and, with each,
those nested in it, and in each of which names and numbers are unique; `Null` is no number.
`WholeRepliesUnderstood` and `TornAnswersPrefixes` also rest on `WrittenAssumption`, for any
`Depth`, and on `KeyAssumption`: a key, which is a field number below `TagLimit` and three
bits, fits a u64, as 32 bits do.

The coalescer's properties are not inductive. That two callers never fetch one
key at once needs that both hold the same cell, which needs that an unset cell
is in its key's slot as long as anybody holds it (`UnsetCellInSlot`), which
survives a guard's drop only because the count is 2 exactly when nobody else
is in the flight (lemma `CountIsTwo`), which needs that a cell is in one slot
only and its holders asked for that slot's key (`OneKeyPerCell`). That nobody
joins a flight already answered needs that a set cell is in a slot only while
someone is about to take it out (`SetCellLeavesSlot`). `IInv` is their
conjunction; TLC checks it in run `coalescer`. The refinement needs the same
invariant: setting a cell answers exactly those waiting for the key, and what a
late joiner is given is still due to the caller that has not yet cleared the slot.

The composition reuses these theorems: `CachedJsonProofs` takes `CoalescerProofs` and
`CacheProofs` by `INSTANCE`, shows that each of its steps is a step of both components
(`StepsOfCoalescer`, `StepsOfCache`), and so inherits both invariants. What it adds is
one argument: a leader holds the permit of the cell in its key's slot, so it is alone
(`LeaderAlone`, `LeaderInSlot`); only a leader's set makes a key live (`HitsAreOld`,
`SetFillsOwnKey`); hence what the second lookup found stays true until the leader is
done (`OthersLeaveIt`), which gives one call per window, and a resolved flight and the
cache hold the same body (`NextAgrees`).

`NoInvalidCall` reads off the table which checks each group of routes makes
(`GroupsAreDisjoint`, `ChecksByGroup`), shows that passing them makes a request valid
whatever their order (`PassedIsValid`), and that the request and the server's
configuration do not change until the reply. `OwnResource` and `NoSecondFetch` go through
the tables: every call is one of their rows, a numbered call or an event ranking
(`CallsHaveShape`); a key determines the resource (`KeyNamesResource`), where the only two
calls to share one are the rankings with no mid and with mid 0 (`RankingsByKey`); and
a URL determines the key (`UrlNamesKey`), because URLs of different kinds differ in length
or in their first part.

For the process, what is served is complete because what `from_env` accepts is (lemma
`AcceptedIsComplete`), and no later step writes `config`; the invariant carries that from
`Configure` to `Serve` while the layers change.

For the cache, type and bound together are inductive; the action properties
follow from them and from the case analysis of a step. For the version,
`FloorKept` extends the property to the versions in the cache and in lookups
answered but not stored; for the attempts, `AttemptsCounted` says that an idle call has
made none, one that is not retrying one and one that is retrying two. For health, `SnapshotAge` bounds the age of a
snapshot's answer when it was stamped, and `RequestTimes` that of a request's.

A reply's views are proved in three layers. `Handled` says that each stage holds what the
steps before made of the reply, so that what is answered is some bytes decoded with the
descriptor of its kind; it is inductive (`HandledInvariant`). `MessageShaped` says what
any such value looks like: an object with members that its descriptor names, each of the
descriptor's type, nested ones too, lists as arrays, never more. The rest says that the views
lose nothing of a value of that shape, whatever it holds; here the properties need the
real tables and models, which is why `RewardModels` and its like compare their names one
by one. The recursive functions are handled by two principles proved once: induction over a
set of numbers (`Induction`, from the least number of a set that is not empty) shows that
a recursive function exists and satisfies its equation, and induction over a set of
sequences (`SeqInduction`) shows what the folds, filters and flattenings of the views
compute. On them rest the laws that the properties need: filtering, mapping and
flattening go through a concatenation, and through one another (`KeptFlat`,
`MappedFlat`, `KeptMapped`, `KeptKept`, `FlatCount`). `ScoresAgree` is then that filtering the list of
all songs is flattening the filtered map; `BonusesReachTheirCharacter` compares
how often a value is in two lists: `FlatTimes` counts what is flattened by its places in
the map, `KeptTimes` says that a filter keeps all or none of a value, so that the bonuses
of a row are those at the places of its owner (`OwnedTimes`), and `KeptHead` that the first
level kept is the first that was sent (`RankRows`); the skills
follow because the ordered map of `skill_list` (`Grouped`) holds for each pair the last row,
and listing it ascending repeats none.

That the reader inverts the writer is proved from the bytes upwards. `WriteVarintFact` says
what the writer makes of a number: bytes that go on but for the last, that carry the number,
and that are too many exactly if the number does not fit (`IsVarint`); `ReadVarintFact` that
such bytes are read back, if they are all there and not too many, and else refused.
`ReadDataFact` and `ReadFieldFact` extend that to nodes, `FieldsFact` to messages: a buffer
that begins as a message is written, or ends within it, and has nothing or a zero behind it
(`Holds`) shows the loop exactly the nodes up to the first that is malformed or not whole,
since a zero is a key without a field number (`ReadZero`), which is why the padding that
`NoPadding` leaves does no harm. `StoreFact` says that a turn of the loop makes of what was
understood of some nodes what is understood of one more, by cases on wire type and kind
(`ParseFact`) and on singular and repeated fields. `ReadAsMeant` joins them by induction on
the depth of messages, where the length of the buffer bounds the reader's own recursion.
`Followed` then carries the message through the stages: what was received decrypts to a
beginning of the padded stream (`BodyFact`), of which a plain one holds the message
(`LeftPlain`) and a compressed one decompresses to all of it or not at all (`LeftPacked`);
a whole one is a multiple of the block, so that only a message without bytes fails
(`LeftWhole`). Both properties follow from it.

Only model-checked: the liveness properties, since the prover has no support for fairness
and ENABLED. Of `EveryFetchEnds` the bound on the attempts is proved (`RetriesOnce`); that
a call ends is checked by TLC.

## Left out, and why

* AES, bzip2, the HTTP client and server and tokio's `OnceCell` are libraries. They are
  modelled as their use in the code requires: the ciphers and compression as functions
  that are undone, the cell as one permit, given back when the future is dropped.
* `RwLock` and `Mutex` are modelled by atomic sections. None is held across an
  `await`, none is nested, so they cannot deadlock.
* The tables of `garupa_schema.rs` that nothing looks into: their names and numbers
  belong to the game, and no other file of the repository says what they should be.
* `filtered_entries` and `normalize_music_difficulty`: a filter and a look-up in a list of
  five; which requests reach them is part of `Endpoints`.
* Settings that are only passed on (versions, user agent, time limits, log level), logging.
* A refill of the cache after `DELETE`, and concurrent probes of `/health`: the code makes
  no attempt to prevent either and no text promises it (`hazards` in `PROJECT.json`).

## Plan

1. Done: every component of the inventory, its runs, and proofs of every safety property.
2. `Endpoints` on top of `CachedJson`'s steps and `Response`'s replies instead of one
   atomic call.

The set of runs is to stay small: a module that joins takes the place of a run it
subsumes, or shares one; pure modules share one MC module.
