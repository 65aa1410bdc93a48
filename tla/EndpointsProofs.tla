--------------------------- MODULE EndpointsProofs ---------------------------
(***************************************************************************)
(* Theorems about Endpoints for any ids, event types and capacity.         *)
(***************************************************************************)
EXTENDS Endpoints, TLAPS

-----------------------------------------------------------------------------
(* The checks of each group of routes. *)

\* No route is in two groups.
LEMMA GroupsAreDisjoint ==
    /\ ConfiguredThenId \cap IdThenConfigured = {}
    /\ NumberedDetails \cap (ConfiguredThenId \cup IdThenConfigured) = {}
    /\ {"event_ranking", "user_music_status"}
           \cap (ConfiguredThenId \cup IdThenConfigured \cup NumberedDetails) = {}
    /\ CacheRoutes \cap TakesId = {}
<1> USE DEF ConfiguredThenId, IdThenConfigured, NumberedDetails, CacheRoutes, MonthlyViews,
            MasterEntryHandlers, FilteredMasterHandlers, CardSections, MapDetails
<1>1. ConfiguredThenId \cap IdThenConfigured = {}
  BY SMT
<1>2. NumberedDetails \cap (ConfiguredThenId \cup IdThenConfigured) = {}
  BY SMT
<1>3. {"event_ranking", "user_music_status"}
          \cap (ConfiguredThenId \cup IdThenConfigured \cup NumberedDetails) = {}
  BY SMT
<1>4. CacheRoutes \cap TakesId = {}
  BY SMT DEF TakesId
<1> QED BY <1>1, <1>2, <1>3, <1>4

\* The checks of a route, by its group.
LEMMA ChecksByGroup ==
    ASSUME NEW route
    PROVE  /\ route \in ConfiguredThenId
                  => HandlerChecks(route) = <<"path", "configured", "id">>
           /\ route \in IdThenConfigured
                  => HandlerChecks(route) = <<"path", "id", "configured">>
           /\ route \in NumberedDetails
                  => HandlerChecks(route) = <<"number", "id", "configured">>
           /\ route = "event_ranking"
                  => HandlerChecks(route) = <<"path", "query", "configured", "id", "type">>
           /\ route = "user_music_status"
                  => HandlerChecks(route) = <<"path", "id", "difficulty", "configured">>
           /\ route \in CacheRoutes => HandlerChecks(route) = <<>>
           /\ route \notin (TakesId \ {"area_item_spawn_single"}) \cup CacheRoutes
                  => HandlerChecks(route) = <<"configured">>
<1>0. CacheRoutes \cap (ConfiguredThenId \cup IdThenConfigured \cup NumberedDetails
                        \cup {"event_ranking", "user_music_status"}) = {}
  BY GroupsAreDisjoint DEF TakesId, NumberedDetails
<1>1. ASSUME route \in ConfiguredThenId
      PROVE  HandlerChecks(route) = <<"path", "configured", "id">>
  <2>1. /\ route \notin IdThenConfigured /\ route \notin NumberedDetails
        /\ route # "event_ranking" /\ route # "user_music_status" /\ route \notin CacheRoutes
    BY <1>0, <1>1, GroupsAreDisjoint
  <2> QED BY <1>1, <2>1, Zenon DEF HandlerChecks
<1>2. ASSUME route \in IdThenConfigured
      PROVE  HandlerChecks(route) = <<"path", "id", "configured">>
  <2>1. /\ route \notin ConfiguredThenId /\ route \notin NumberedDetails
        /\ route # "event_ranking" /\ route # "user_music_status" /\ route \notin CacheRoutes
    BY <1>0, <1>2, GroupsAreDisjoint
  <2> QED BY <1>2, <2>1, Zenon DEF HandlerChecks
<1>3. ASSUME route \in NumberedDetails
      PROVE  HandlerChecks(route) = <<"number", "id", "configured">>
  <2>1. /\ route \notin ConfiguredThenId /\ route \notin IdThenConfigured
        /\ route # "event_ranking" /\ route # "user_music_status" /\ route \notin CacheRoutes
    BY <1>0, <1>3, GroupsAreDisjoint
  <2> QED BY <1>3, <2>1, Zenon DEF HandlerChecks
<1>4. ASSUME route = "event_ranking"
      PROVE  HandlerChecks(route) = <<"path", "query", "configured", "id", "type">>
  <2>1. /\ route \notin ConfiguredThenId /\ route \notin IdThenConfigured
        /\ route \notin NumberedDetails /\ route # "user_music_status"
        /\ route \notin CacheRoutes
    BY <1>0, <1>4, GroupsAreDisjoint
  <2> QED BY <1>4, <2>1, Zenon DEF HandlerChecks
<1>5. ASSUME route = "user_music_status"
      PROVE  HandlerChecks(route) = <<"path", "id", "difficulty", "configured">>
  <2>1. /\ route \notin ConfiguredThenId /\ route \notin IdThenConfigured
        /\ route \notin NumberedDetails /\ route # "event_ranking" /\ route \notin CacheRoutes
    BY <1>0, <1>5, GroupsAreDisjoint
  <2> QED BY <1>5, <2>1, Zenon DEF HandlerChecks
<1>6. ASSUME route \in CacheRoutes PROVE HandlerChecks(route) = <<>>
  <2>1. /\ route \notin ConfiguredThenId /\ route \notin IdThenConfigured
        /\ route \notin NumberedDetails /\ route # "event_ranking"
        /\ route # "user_music_status"
    BY <1>0, <1>6
  <2> QED BY <1>6, <2>1, Zenon DEF HandlerChecks
<1>7. ASSUME route \notin (TakesId \ {"area_item_spawn_single"}) \cup CacheRoutes
      PROVE  HandlerChecks(route) = <<"configured">>
  <2>0. route = "area_item_spawn_single"
            => route \notin ConfiguredThenId \cup IdThenConfigured
    BY SMT DEF ConfiguredThenId, IdThenConfigured, MonthlyViews, MasterEntryHandlers,
           FilteredMasterHandlers, CardSections
  <2>1. /\ route \notin ConfiguredThenId /\ route \notin IdThenConfigured
        /\ route \notin NumberedDetails /\ route # "event_ranking"
        /\ route # "user_music_status" /\ route \notin CacheRoutes
    BY <1>7, <2>0 DEF TakesId, NumberedDetails
  <2> QED BY <2>1, Zenon DEF HandlerChecks
<1> QED BY <1>1, <1>2, <1>3, <1>4, <1>5, <1>6, <1>7

\* A request that passes has passed the three layers and every check of its
\* handler.
LEMMA PassedChecks ==
    ASSUME NEW r, Passes(r)
    PROVE  /\ keyed => r.key
           /\ r.server /\ r.method
           /\ \A i \in DOMAIN HandlerChecks(r.arg.route) :
                  ~Failing(HandlerChecks(r.arg.route)[i], r)
<1> DEFINE route == r.arg.route
           layers == <<"key", "server", "method">>
           own == HandlerChecks(route)
           names == {"path", "number", "query", "id", "type", "difficulty", "configured"}
<1>1. own \in Seq(names)
  <2>1. \/ route \in ConfiguredThenId \/ route \in IdThenConfigured
        \/ route \in NumberedDetails \/ route = "event_ranking"
        \/ route = "user_music_status" \/ route \in CacheRoutes
        \/ route \notin (TakesId \ {"area_item_spawn_single"}) \cup CacheRoutes
    BY DEF TakesId, NumberedDetails
  <2>2. \/ own = <<"path", "configured", "id">> \/ own = <<"path", "id", "configured">>
        \/ own = <<"number", "id", "configured">>
        \/ own = <<"path", "query", "configured", "id", "type">>
        \/ own = <<"path", "id", "difficulty", "configured">>
        \/ own = <<>> \/ own = <<"configured">>
    BY <2>1, ChecksByGroup, Zenon
  <2>3. /\ <<"path", "configured", "id">> \in Seq(names)
        /\ <<"path", "id", "configured">> \in Seq(names)
        /\ <<"number", "id", "configured">> \in Seq(names)
    OBVIOUS
  <2>4. /\ <<"path", "query", "configured", "id", "type">> \in Seq(names)
        /\ <<"path", "id", "difficulty", "configured">> \in Seq(names)
    OBVIOUS
  <2>5. <<>> \in Seq(names) /\ <<"configured">> \in Seq(names)
    OBVIOUS
  <2> QED BY <2>2, <2>3, <2>4, <2>5, Zenon
<1>2. \A i \in 1..3 : Checks(route)[i] = layers[i] /\ i \in DOMAIN Checks(route)
  BY <1>1 DEF Checks
<1>3. \A i \in DOMAIN own : Checks(route)[3 + i] = own[i] /\ 3 + i \in DOMAIN Checks(route)
  BY <1>1 DEF Checks
<1>4. ~Failing("key", r) /\ ~Failing("server", r) /\ ~Failing("method", r)
  BY <1>2 DEF Passes
<1> QED BY <1>3, <1>4 DEF Passes, Failing
\* An id that passes is a positive number.
LEMMA PassedId ==
    ASSUME NEW r \in Requests, Passes(r), r.arg.route \in TakesId \ {"area_item_spawn_single"}
    PROVE  r.arg.id \in Numbers /\ r.arg.id > 0 /\ configured
<1> DEFINE own == HandlerChecks(r.arg.route)
           Has(check) == \E i \in DOMAIN own : own[i] = check
<1>1. (Has("path") \/ Has("number")) /\ Has("id") /\ Has("configured")
  <2>1. \/ r.arg.route \in ConfiguredThenId \/ r.arg.route \in IdThenConfigured
        \/ r.arg.route \in NumberedDetails \/ r.arg.route = "event_ranking"
        \/ r.arg.route = "user_music_status"
    BY DEF TakesId, NumberedDetails
  <2>2. \/ own = <<"path", "configured", "id">> \/ own = <<"path", "id", "configured">>
        \/ own = <<"number", "id", "configured">>
        \/ own = <<"path", "query", "configured", "id", "type">>
        \/ own = <<"path", "id", "difficulty", "configured">>
    BY <2>1, ChecksByGroup, Zenon
  <2> HIDE DEF own
  <2> QED BY <2>2, SMT
<1>2. /\ ~Failing("path", r) \/ ~Failing("number", r)
      /\ ~Failing("id", r) /\ ~Failing("configured", r)
  BY <1>1, PassedChecks
<1>3. r.arg.id \in Numbers \cup {BadNumber}
  BY DEF Requests, Arguments
<1>4. r.arg.id \in Numbers /\ ~TooSmall(r.arg.id) /\ configured
  BY <1>2, <1>3 DEF Failing
<1>5. r.arg.id \in Int
  BY <1>4, NumbersAreIntegers
<1>6. ~(r.arg.id < 1)
  BY <1>4 DEF TooSmall
<1>7. r.arg.id > 0
  BY <1>5, <1>6
<1> QED BY <1>4, <1>7

\* A request that passes and is not about the cache itself is valid.
LEMMA PassedIsValid ==
    ASSUME NEW r \in Requests, Passes(r), r.arg.route \notin CacheRoutes
    PROVE  configured /\ Valid(r.arg)
<1> DEFINE own == HandlerChecks(r.arg.route)
<1>1. CASE r.arg.route = "event_ranking"
  <2>1. own = <<"path", "query", "configured", "id", "type">>
    BY <1>1, ChecksByGroup
  <2>2. 2 \in DOMAIN own /\ own[2] = "query" /\ 5 \in DOMAIN own /\ own[5] = "type"
    BY <2>1
  <2>3. ~Failing("query", r) /\ ~Failing("type", r)
    BY <2>2, PassedChecks
  <2>4. r.arg.id \in Numbers /\ r.arg.id > 0 /\ configured
    BY <1>1, PassedId DEF TakesId
  <2> QED BY <1>1, <2>3, <2>4 DEF Failing, Valid
<1>2. CASE r.arg.route = "user_music_status"
  <2>1. own = <<"path", "id", "difficulty", "configured">>
    BY <1>2, ChecksByGroup
  <2>2. 3 \in DOMAIN own /\ own[3] = "difficulty"
    BY <2>1
  <2>3. ~Failing("difficulty", r)
    BY <2>2, PassedChecks
  <2>4. r.arg.id \in Numbers /\ r.arg.id > 0 /\ configured
    BY <1>2, PassedId DEF TakesId
  <2>5. r.arg.difficulty = "expert" /\ r.arg.type = Omitted /\ r.arg.mid = Omitted
    BY <1>2, <2>3 DEF Failing, Requests, Arguments, TakesId
  <2> QED BY <1>2, <2>4, <2>5, MarkersAreNoValues DEF Valid
<1>3. CASE r.arg.route \notin {"event_ranking", "user_music_status"}
  <2>1. r.arg.type = Omitted /\ r.arg.mid = Omitted
    BY <1>3 DEF Requests, Arguments
  <2>2. CASE r.arg.route \in TakesId \ {"area_item_spawn_single"}
    BY <1>3, <2>1, <2>2, PassedId, MarkersAreNoValues DEF Valid
  <2>3. CASE r.arg.route \notin TakesId \ {"area_item_spawn_single"}
    <3>1. own = <<"configured">>
      BY <2>3, ChecksByGroup
    <3>2. 1 \in DOMAIN own /\ own[1] = "configured"
      BY <3>1
    <3>3. configured
      BY <3>2, PassedChecks DEF Failing
    <3> QED BY <1>3, <2>1, <2>3, <3>3, MarkersAreNoValues DEF Valid
  <2> QED BY <2>2, <2>3
<1> QED BY <1>1, <1>2, <1>3

-----------------------------------------------------------------------------
\* A request once accepted stays what it was until its reply.
LEMMA NextOnlyValid == OnlyValidRequestsCall /\ [Next]_vars => OnlyValidRequestsCall'
<1> SUFFICES ASSUME OnlyValidRequestsCall, [Next]_vars PROVE OnlyValidRequestsCall'
  OBVIOUS
<1>1. ASSUME NEW r \in Requests, Accept(r) PROVE OnlyValidRequestsCall'
  <2>1. configured /\ Valid(r.arg) /\ (keyed => r.key) /\ r.server /\ r.method
    BY <1>1, PassedIsValid, PassedChecks DEF Accept
  <2> QED BY <1>1, <2>1 DEF Accept, OnlyValidRequestsCall, Valid
<1>2. ASSUME NEW r \in Requests, Refuse(r) \/ CacheStats(r) \/ CacheClear(r)
      PROVE  pc' = "replied"
  BY <1>2 DEF Refuse, CacheStats, CacheClear, Reply
<1>3. CASE Hit \/ Fetch
  BY <1>3 DEF Hit, Fetch, Answered, OnlyValidRequestsCall, Valid
<1>4. CASE FetchFails
  BY <1>4 DEF FetchFails, Reply, OnlyValidRequestsCall
<1>5. CASE ResolveType \/ JoinCards \/ Deliver
  BY <1>5 DEF ResolveType, JoinCards, Deliver, CallNext, Finish, Reply, OnlyValidRequestsCall,
              Valid
<1>6. CASE Done
  BY <1>6 DEF Done, OnlyValidRequestsCall
<1>7. CASE Others \/ UNCHANGED vars
  BY <1>7 DEF Others, vars, OnlyValidRequestsCall, Valid
<1> QED BY <1>1, <1>2, <1>3, <1>4, <1>5, <1>6, <1>7 DEF Next, Handle, OnlyValidRequestsCall

\* No request without the key, for another server, by a wrong method, or with
\* an invalid id, type, mid or difficulty reaches the cache or the game server,
\* whatever ids and event types there are.
THEOREM NoInvalidCall == Spec => []OnlyValidRequestsCall
<1>1. Init => OnlyValidRequestsCall
  BY DEF Init, OnlyValidRequestsCall
<1> QED BY <1>1, NextOnlyValid, PTL DEF Spec

-----------------------------------------------------------------------------
(* The calls there are.  What tells two of them apart is a row: the key, its *)
(* URL builder and its schema, and the field of a map.                       *)

MasterRows ==
    {<<"application", "application_url", "APPLICATION">>,
     <<"music-master", "music_master_url", "MUSIC_LIST">>,
     <<"music-difficulty-master", "music_difficulty_master_url", "MUSIC_DIFFICULTY_LIST">>,
     <<"suite-master", "suite_master_url", "SUITE_MASTER_RESPONSE">>,
     <<"character-master", "character_master_url", "CHARACTER_LIST">>,
     <<"band-master", "band_master_url", "BAND_LIST">>,
     <<"area-master", "area_master_url", "AREA_LIST">>,
     <<"gacha-master", "gacha_master_url", "GACHA_LIST">>,
     <<"item-master", "item_master_url", "ITEM_LIST">>,
     <<"skill-master", "skill_master_url", "SKILL_LIST">>,
     <<"stamp-master", "stamp_master_url", "STAMP_LIST">>,
     <<"loginbonus-master", "login_bonus_master_url", "LOGIN_BONUS_LIST">>,
     <<"costume-master", "costume_master_url", "COSTUME_LIST">>,
     <<"shop-master", "shop_url", "SHOP_LIST">>,
     <<"situation-master", "situation_master_url", "SITUATION_LIST">>}

MapRows ==
    {<<"multi-live-difficulty-master", "multi_live_difficulty_master_url", "MULTI_LIVE_DIFFICULTY_MAP", "id">>,
     <<"weekly-multi-live-difficulty-master", "weekly_multi_live_difficulty_master_url", "WEEKLY_MULTI_LIVE_DIFFICULTY_MAP", "id">>,
     <<"area-item-master", "area_item_master_url", "AREA_ITEM_MAP", "areaItemId">>,
     <<"area-item-spawn-master", "area_item_spawn_master_url", "AREA_ITEM_SPAWN_MAP", "spawnPoint">>,
     <<"bonds-master", "bonds_master_url", "BONDS_MAP", "bondsId">>,
     <<"bonds-effect-master", "bonds_effect_master_url", "BONDS_EFFECT_MAP", "bondsEffectId">>,
     <<"action-set-master", "action_set_master_url", "ACTION_SET_MAP", "actionSetId">>,
     <<"music-shop-master", "music_shop_master_url", "MUSIC_SHOP_MAP", "musicShopId">>,
     <<"degree-master", "degree_master_url", "DEGREE_MAP", "degreeId">>}

UserRows ==
    {<<"user-decks", "user_deck_url", "USER_DECK_LIST">>,
     <<"user-situations", "user_situation_url", "USER_SITUATION_LIST">>,
     <<"user-title", "user_title_url", "USER_TITLE">>,
     <<"user-stamps", "user_stamp_url", "USER_STAMP_LIST">>,
     <<"user-items", "user_item_url", "USER_ITEM_LIST">>,
     <<"user-presents", "user_present_url", "USER_PRESENT_LIST">>,
     <<"user-gacha", "user_gacha_url", "USER_GACHA_LIST">>,
     <<"user-episodes", "user_episode_url", "USER_EPISODE_LIST">>,
     <<"user-missions", "user_mission_url", "USER_MISSION_LIST">>,
     <<"user-login-bonuses", "user_login_bonus_url", "USER_LOGIN_BONUS_LIST">>,
     <<"user-costumes", "user_costume_url", "USER_COSTUME_LIST">>,
     <<"user-area-statuses", "user_area_url", "USER_AREA_LIST">>,
     <<"user-character-affinity", "user_character_url", "USER_CHARACTER_LIST">>}

IsMaster(c) == \E x \in MasterRows : c = Master(x[1], x[2], x[3])
IsMap(c) == \E x \in MapRows : c = MapList(x[1], x[2], x[3], x[4])
IsUser(c) == \E x \in UserRows : c = User(x[1], x[2], x[3])
IsSingle(c) == c \in {UserHandlers.user_profile, SuiteUser, MonthlyMaster, EventMaster}
IsNumbered(c) == \E id \in Numbers : c \in {Monthly(id), MusicSingle(id), CharacterSingle(id)}
IsRanking(c) == \E id \in Numbers, type \in Types, mid \in Numbers \cup {Omitted} :
                    c = EventRanking(id, type, mid)

\* Every entry of the tables is one of the rows, or stands alone.
LEMMA TablesHoldRows ==
    ASSUME NEW table \in Tables, NEW route \in DOMAIN table
    PROVE  \/ IsMaster(table[route]) \/ IsMap(table[route]) \/ IsUser(table[route])
           \/ IsSingle(table[route])
<1>1. \A r \in DOMAIN MasterHandlers : IsMaster(MasterHandlers[r])
  BY DEF MasterHandlers, IsMaster, MasterRows
<1>2. \A r \in DOMAIN MasterEntryHandlers : IsMaster(MasterEntryHandlers[r])
  BY DEF MasterEntryHandlers, IsMaster, MasterRows
<1>3. \A r \in DOMAIN FilteredMasterHandlers : IsMaster(FilteredMasterHandlers[r])
  BY DEF FilteredMasterHandlers, IsMaster, MasterRows
<1>4. \A r \in DOMAIN CardSections : IsMaster(CardSections[r])
  BY DEF CardSections, CardSection, IsMaster, MasterRows
<1>5. \A r \in DOMAIN MapHandlers : IsMap(MapHandlers[r])
  BY DEF MapHandlers, IsMap, MapRows
<1>6. \A r \in DOMAIN MapDetails : \E s \in DOMAIN MapHandlers : MapDetails[r] = MapHandlers[s]
  BY DEF MapDetails, MapHandlers
<1>7. \A r \in DOMAIN SkillHandlers : IsMaster(SkillHandlers[r])
  BY DEF SkillHandlers, IsMaster, MasterRows
<1>8. \A r \in DOMAIN UserHandlers : IsUser(UserHandlers[r]) \/ IsSingle(UserHandlers[r])
  BY DEF UserHandlers, IsUser, UserRows, IsSingle
<1>9. \A r \in DOMAIN SuiteHandlers : IsSingle(SuiteHandlers[r])
  BY DEF SuiteHandlers, IsSingle
<1>10. IsMaster(BandMembers)
  BY DEF BandMembers, IsMaster, MasterRows
<1>11. IsSingle(MonthlyMaster) /\ IsSingle(EventMaster)
  BY DEF IsSingle
<1> QED BY <1>1, <1>2, <1>3, <1>4, <1>5, <1>6, <1>7, <1>8, <1>9, <1>10, <1>11 DEF Tables

\* A route makes its call by one rule.
LEMMA RoutesApart ==
    /\ FixedRoutes \cap (MonthlyViews \cup {"music_single", "character_single", "event_ranking"})
           = {}
    /\ MonthlyViews \cap {"music_single", "character_single", "event_ranking"} = {}
<1>1. MonthlyViews \cap {"music_single", "character_single", "event_ranking"} = {}
  BY DEF MonthlyViews
<1>2. \A table \in Tables :
         DOMAIN table \cap (MonthlyViews \cup {"music_single", "character_single", "event_ranking"})
             = {}
  BY DEF Tables, MonthlyViews, MasterHandlers, MasterEntryHandlers, FilteredMasterHandlers,
         CardSections, MapHandlers, MapDetails, SkillHandlers, UserHandlers, SuiteHandlers
<1> QED BY <1>1, <1>2 DEF FixedRoutes

\* No other call is ever made.
LEMMA CallsHaveShape ==
    ASSUME NEW c \in Calls
    PROVE  \/ IsMaster(c) \/ IsMap(c) \/ IsUser(c) \/ IsSingle(c) \/ IsNumbered(c)
           \/ IsRanking(c)
<1>1. IsMaster(BandSituations)
  BY DEF BandSituations, IsMaster, MasterRows
<1>2. ASSUME NEW a \in Arguments, a.route \in CallRoutes, Valid(a)
      PROVE  \/ IsMaster(FirstCall(a)) \/ IsMap(FirstCall(a)) \/ IsUser(FirstCall(a))
             \/ IsSingle(FirstCall(a)) \/ IsNumbered(FirstCall(a)) \/ IsRanking(FirstCall(a))
  <2>1. CASE a.route \in FixedRoutes
    <3>1. FirstCall(a) = FixedCall[a.route]
      BY <2>1, RoutesApart, Zenon DEF FirstCall
    <3>2. PICK table \in Tables : a.route \in DOMAIN table /\ FixedCall[a.route] = table[a.route]
      BY <2>1 DEF FixedRoutes, FixedCall
    <3> QED BY <3>1, <3>2, TablesHoldRows
  <2>2. CASE a.route \in MonthlyViews \cup {"music_single", "character_single"}
    <3>1. a.id \in Numbers
      BY <1>2, <2>2 DEF Valid, TakesId, ConfiguredThenId, MonthlyViews
    <3>2. FirstCall(a) \in {Monthly(a.id), MusicSingle(a.id), CharacterSingle(a.id)}
      <4>1. a.route \in MonthlyViews => FirstCall(a) = Monthly(a.id)
        BY RoutesApart, Zenon DEF FirstCall
      <4>2. a.route = "music_single" => FirstCall(a) = MusicSingle(a.id)
        BY RoutesApart, Zenon DEF FirstCall
      <4>3. a.route = "character_single" => FirstCall(a) = CharacterSingle(a.id)
        BY RoutesApart, Zenon DEF FirstCall
      <4> QED BY <2>2, <4>1, <4>2, <4>3
    <3> QED BY <3>1, <3>2 DEF IsNumbered
  <2>3. CASE a.route = "event_ranking" /\ a.type = Omitted
    <3>1. FirstCall(a) = EventMaster
      BY <2>3, RoutesApart, Zenon DEF FirstCall
    <3> QED BY <3>1 DEF IsSingle
  <2>4. CASE a.route = "event_ranking" /\ a.type # Omitted
    <3>1. FirstCall(a) = EventRanking(a.id, a.type, a.mid)
      BY <2>4, RoutesApart, Zenon DEF FirstCall
    <3>2. a.id \in Numbers /\ a.type \in Types /\ a.mid \in Numbers \cup {Omitted}
      BY <1>2, <2>4 DEF Valid, TakesId, Arguments
    <3> QED BY <3>1, <3>2 DEF IsRanking
  <2> QED BY <1>2, <2>1, <2>2, <2>3, <2>4 DEF CallRoutes
<1> QED BY <1>1, <1>2 DEF Calls

-----------------------------------------------------------------------------
(* Keys and URLs tell calls apart. *)

MasterKeys == {x[1] : x \in MasterRows}
MapKeys == {x[1] : x \in MapRows}
UserKeys == {x[1] : x \in UserRows}
SingleKeys == {"user-profile", "suite-user", "monthly-master", "event-master"}
NumberedKeys == {"monthly", "music-single", "character-single"}

\* What a key starts with tells the kind of call.
LEMMA KeysByShape ==
    ASSUME NEW c
    PROVE  /\ IsMaster(c) => c.key[1] \in MasterKeys
           /\ IsMap(c) => c.key[1] \in MapKeys
           /\ IsUser(c) => c.key[1] \in UserKeys
           /\ IsSingle(c) => c.key[1] \in SingleKeys
           /\ IsNumbered(c) => c.key[1] \in NumberedKeys
           /\ IsRanking(c) => c.key[1] = "event-ranking"
<1>1. IsMaster(c) => c.key[1] \in MasterKeys
  BY DEF IsMaster, MasterKeys, Master, Call
<1>2. IsMap(c) => c.key[1] \in MapKeys
  BY DEF IsMap, MapKeys, MapList, Call
<1>3. IsUser(c) => c.key[1] \in UserKeys
  BY DEF IsUser, UserKeys, User, Call
<1>4. IsSingle(c) => c.key[1] \in SingleKeys
  BY DEF IsSingle, SingleKeys, UserHandlers, SuiteUser, MonthlyMaster, EventMaster, Call
<1>5. IsNumbered(c) => c.key[1] \in NumberedKeys
  BY DEF IsNumbered, NumberedKeys, Monthly, MusicSingle, CharacterSingle, Call
<1>6. IsRanking(c) => c.key[1] = "event-ranking"
  BY DEF IsRanking, EventRanking, RankingKey, Call
<1> QED BY <1>1, <1>2, <1>3, <1>4, <1>5, <1>6

\* No two kinds start their keys alike.
LEMMA KeysApart ==
    /\ MasterKeys \cap (MapKeys \cup UserKeys \cup SingleKeys \cup NumberedKeys) = {}
    /\ MapKeys \cap (UserKeys \cup SingleKeys \cup NumberedKeys) = {}
    /\ UserKeys \cap (SingleKeys \cup NumberedKeys) = {}
    /\ SingleKeys \cap NumberedKeys = {}
    /\ "event-ranking"
           \notin MasterKeys \cup MapKeys \cup UserKeys \cup SingleKeys \cup NumberedKeys
<1> USE DEF MasterKeys, MapKeys, UserKeys, SingleKeys, NumberedKeys, MasterRows, MapRows,
            UserRows
<1>1. MasterKeys \cap (MapKeys \cup UserKeys \cup SingleKeys \cup NumberedKeys) = {}
  OBVIOUS
<1>2. MapKeys \cap (UserKeys \cup SingleKeys \cup NumberedKeys) = {}
  OBVIOUS
<1>3. UserKeys \cap (SingleKeys \cup NumberedKeys) = {} /\ SingleKeys \cap NumberedKeys = {}
  OBVIOUS
<1>4. "event-ranking" \notin MasterKeys \cup MapKeys \cup UserKeys \cup SingleKeys \cup NumberedKeys
  OBVIOUS
<1> QED BY <1>1, <1>2, <1>3, <1>4

\* A mid of 0 and none share a key; nothing else does.
LEMMA RankingsByKey ==
    ASSUME NEW b, NEW c, IsRanking(b), IsRanking(c), b.key = c.key
    PROVE  SameResource(b, c)
<1>1. PICK id \in Numbers, type \in Types, mid \in Numbers \cup {Omitted} :
          b = EventRanking(id, type, mid)
  BY DEF IsRanking
<1>2. PICK jd \in Numbers, uype \in Types, nid \in Numbers \cup {Omitted} :
          c = EventRanking(jd, uype, nid)
  BY DEF IsRanking
<1>3. /\ id = jd /\ type = uype
      /\ (IF mid = Omitted THEN 0 ELSE mid) = (IF nid = Omitted THEN 0 ELSE nid)
  BY <1>1, <1>2 DEF EventRanking, RankingKey, Call
<1>4. b.schema = c.schema /\ b.view = c.view /\ b.ttl = c.ttl
  BY <1>1, <1>2, <1>3 DEF EventRanking, Call
<1>5. /\ b.url = <<"user", "uid", "event", id, Segment[type], "ranking", mid>>
      /\ c.url = <<"user", "uid", "event", id, Segment[type], "ranking", nid>>
  BY <1>1, <1>2, <1>3 DEF EventRanking, EventRankingUrl, Call
<1>6. DOMAIN b.url = 1..7 /\ DOMAIN c.url = 1..7
  BY <1>5
<1>7. /\ \A i \in 1..6 : b.url[i] = c.url[i]
      /\ b.url[7] = mid /\ c.url[7] = nid
  BY <1>5
<1>8. \A i \in 1..7 : (IF b.url[i] = Omitted THEN 0 ELSE b.url[i])
                      = (IF c.url[i] = Omitted THEN 0 ELSE c.url[i])
  BY <1>3, <1>7
<1> QED BY <1>4, <1>6, <1>8 DEF SameResource

\* Calls with one key ask one resource.
LEMMA KeyNamesResource ==
    ASSUME NEW b \in Calls, NEW c \in Calls, b.key = c.key
    PROVE  SameResource(b, c)
<1>1. /\ IsMaster(b) /\ IsMaster(c) => b = c
      /\ IsMap(b) /\ IsMap(c) => b = c
      /\ IsUser(b) /\ IsUser(c) => b = c
  <2>1. \A x, y \in MasterRows : x[1] = y[1] => x = y
    BY DEF MasterRows
  <2>2. \A x, y \in MapRows : x[1] = y[1] => x = y
    BY DEF MapRows
  <2>3. \A x, y \in UserRows : x[1] = y[1] => x = y
    BY DEF UserRows
  <2>4. IsMaster(b) /\ IsMaster(c) => b = c
    BY <2>1 DEF IsMaster, Master, Call
  <2>5. IsMap(b) /\ IsMap(c) => b = c
    BY <2>2 DEF IsMap, MapList, Call
  <2>6. IsUser(b) /\ IsUser(c) => b = c
    BY <2>3 DEF IsUser, User, Call
  <2> QED BY <2>4, <2>5, <2>6
<1>2. IsSingle(b) /\ IsSingle(c) => b = c
  BY DEF IsSingle, UserHandlers, SuiteUser, MonthlyMaster, EventMaster, Call
<1>3. IsNumbered(b) /\ IsNumbered(c) => b = c
  BY DEF IsNumbered, Monthly, MusicSingle, CharacterSingle, Call
<1>4. b = c \/ (IsRanking(b) /\ IsRanking(c))
  <2>1. \/ IsMaster(b) \/ IsMap(b) \/ IsUser(b) \/ IsSingle(b) \/ IsNumbered(b) \/ IsRanking(b)
    BY CallsHaveShape
  <2>2. \/ IsMaster(c) \/ IsMap(c) \/ IsUser(c) \/ IsSingle(c) \/ IsNumbered(c) \/ IsRanking(c)
    BY CallsHaveShape
  <2>3. /\ IsMaster(b) => b.key[1] \in MasterKeys
        /\ IsMap(b) => b.key[1] \in MapKeys
        /\ IsUser(b) => b.key[1] \in UserKeys
        /\ IsSingle(b) => b.key[1] \in SingleKeys
        /\ IsNumbered(b) => b.key[1] \in NumberedKeys
        /\ IsRanking(b) => b.key[1] = "event-ranking"
    BY KeysByShape
  <2>4. /\ IsMaster(c) => b.key[1] \in MasterKeys
        /\ IsMap(c) => b.key[1] \in MapKeys
        /\ IsUser(c) => b.key[1] \in UserKeys
        /\ IsSingle(c) => b.key[1] \in SingleKeys
        /\ IsNumbered(c) => b.key[1] \in NumberedKeys
        /\ IsRanking(c) => b.key[1] = "event-ranking"
    BY KeysByShape
  <2>5. \/ IsMaster(b) /\ IsMaster(c)
        \/ IsMap(b) /\ IsMap(c)
        \/ IsUser(b) /\ IsUser(c)
        \/ IsSingle(b) /\ IsSingle(c)
        \/ IsNumbered(b) /\ IsNumbered(c)
        \/ IsRanking(b) /\ IsRanking(c)
    BY <2>1, <2>2, <2>3, <2>4, KeysApart, SMT
  <2> QED BY <1>1, <1>2, <1>3, <2>5
<1>5. b = c => SameResource(b, c)
  BY DEF SameResource
<1> QED BY <1>4, <1>5, RankingsByKey

\* The lists of the game: their rows by key and URL builder.
ListRows == MasterRows \cup MapRows
            \cup {<<"monthly-master", "monthly_ranking_master_url">>,
                  <<"event-master", "event_master_url">>}

IsList(c) == \E x \in ListRows : c.key = <<x[1]>> /\ c.url = <<EndpointUrl[x[2]]>>
IsSnapshot(c) == c \in {UserHandlers.user_profile, SuiteUser}

\* Lists have one part in their URL, users' resources three, and so on.
LEMMA UrlsByShape ==
    ASSUME NEW c \in Calls
    PROVE  \/ IsList(c) \/ IsUser(c) \/ IsSnapshot(c) \/ IsNumbered(c) \/ IsRanking(c)
<1>1. IsMaster(c) => IsList(c)
  <2>1. MasterRows \subseteq ListRows
    BY DEF ListRows
  <2> QED BY <2>1 DEF IsMaster, IsList, Master, Call
<1>2. IsMap(c) => IsList(c)
  <2>1. MapRows \subseteq ListRows
    BY DEF ListRows
  <2> QED BY <2>1 DEF IsMap, IsList, MapList, Call
<1>3. c \in {MonthlyMaster, EventMaster} => IsList(c)
  <2>1. /\ <<"monthly-master", "monthly_ranking_master_url">> \in ListRows
        /\ <<"event-master", "event_master_url">> \in ListRows
    BY DEF ListRows
  <2>2. c = MonthlyMaster => IsList(c)
    BY <2>1 DEF IsList, MonthlyMaster, Call
  <2>3. c = EventMaster => IsList(c)
    BY <2>1 DEF IsList, EventMaster, Call
  <2> QED BY <2>2, <2>3
<1> QED BY <1>1, <1>2, <1>3, CallsHaveShape DEF IsSingle, IsSnapshot

\* A resource is asked under one key.
LEMMA UrlNamesKey ==
    ASSUME NEW b \in Calls, NEW c \in Calls, b.url = c.url
    PROVE  b.key = c.key
<1> DEFINE Parts(d, n) == Len(d.url) = n
<1>1. ASSUME NEW d
      PROVE  /\ IsList(d) => Parts(d, 1)
             /\ IsUser(d) => Parts(d, 3) /\ d.url[1] = "user"
             /\ IsSnapshot(d) => \/ d = UserHandlers.user_profile /\ d.url = <<"user", "uid">>
                                 \/ d = SuiteUser /\ d.url = <<"suite", "user", "uid">>
             /\ IsNumbered(d) => \E id \in Numbers :
                    \/ d = Monthly(id) /\ Parts(d, 5)
                    \/ d = MusicSingle(id) /\ Parts(d, 2) /\ d.url[1] = "music"
                    \/ d = CharacterSingle(id) /\ Parts(d, 2) /\ d.url[1] = "character"
             /\ IsRanking(d) => Parts(d, 7)
  <2>1. IsList(d) => Parts(d, 1)
    BY DEF IsList
  <2>2. IsUser(d) => Parts(d, 3) /\ d.url[1] = "user"
    BY DEF IsUser, User, Call
  <2>3. IsSnapshot(d) => \/ d = UserHandlers.user_profile /\ d.url = <<"user", "uid">>
                         \/ d = SuiteUser /\ d.url = <<"suite", "user", "uid">>
    BY DEF IsSnapshot, UserHandlers, SuiteUser, Call
  <2>4. IsNumbered(d) => \E id \in Numbers :
            \/ d = Monthly(id) /\ Parts(d, 5)
            \/ d = MusicSingle(id) /\ Parts(d, 2) /\ d.url[1] = "music"
            \/ d = CharacterSingle(id) /\ Parts(d, 2) /\ d.url[1] = "character"
    BY DEF IsNumbered, Monthly, MusicSingle, CharacterSingle, Call
  <2>5. IsRanking(d) => Parts(d, 7)
    BY DEF IsRanking, EventRanking, EventRankingUrl, Call
  <2> QED BY <2>1, <2>2, <2>3, <2>4, <2>5
<1>2. IsList(b) /\ IsList(c) => b.key = c.key
  <2>1. \A x, y \in ListRows : EndpointUrl[x[2]] = EndpointUrl[y[2]] => x[1] = y[1]
    BY DEF ListRows, MasterRows, MapRows, EndpointUrl
  <2> SUFFICES ASSUME IsList(b), IsList(c) PROVE b.key = c.key
    OBVIOUS
  <2>2. PICK x \in ListRows : b.key = <<x[1]>> /\ b.url = <<EndpointUrl[x[2]]>>
    BY DEF IsList
  <2>3. PICK y \in ListRows : c.key = <<y[1]>> /\ c.url = <<EndpointUrl[y[2]]>>
    BY DEF IsList
  <2>4. \A u, v : <<u>> = <<v>> => u = v
    OBVIOUS
  <2>5. EndpointUrl[x[2]] = EndpointUrl[y[2]]
    BY <2>2, <2>3, <2>4, Zenon
  <2> QED BY <2>1, <2>2, <2>3, <2>4, <2>5
<1>3. IsUser(b) /\ IsUser(c) => b.key = c.key
  <2>1. \A x, y \in UserRows : UserUrl[x[2]] = UserUrl[y[2]] => x[1] = y[1]
    BY DEF UserRows, UserUrl
  <2> QED BY <2>1 DEF IsUser, User, Call
<1>4. IsRanking(b) /\ IsRanking(c) => b.key = c.key
  <2>1. \A s, t \in Types : Segment[s] = Segment[t] => s = t
    BY TypesSupported DEF EventTypes, Segment
  <2> QED BY <2>1 DEF IsRanking, EventRanking, EventRankingUrl, RankingKey, Call
<1>5. IsNumbered(b) /\ IsNumbered(c) => b.key = c.key
  BY DEF IsNumbered, Monthly, MusicSingle, CharacterSingle, Call
<1>6. IsSnapshot(b) /\ IsSnapshot(c) => b.key = c.key
  BY <1>1
<1>7. \/ IsList(b) /\ IsList(c)
      \/ IsUser(b) /\ IsUser(c)
      \/ IsSnapshot(b) /\ IsSnapshot(c)
      \/ IsNumbered(b) /\ IsNumbered(c)
      \/ IsRanking(b) /\ IsRanking(c)
  BY <1>1, UrlsByShape
<1> QED BY <1>2, <1>3, <1>4, <1>5, <1>6, <1>7
-----------------------------------------------------------------------------
(* What a request in progress calls. *)

\* The call an accepted request starts with is one of the calls.
LEMMA FirstCallIsCall ==
    ASSUME NEW r \in Requests, Passes(r), r.arg.route \notin CacheRoutes
    PROVE  FirstCall(r.arg) \in Calls
<1>1. r.arg \in Arguments /\ r.arg.route \in RouteNames \cup TakesId
  <2>1. r.arg \in Arguments
    BY DEF Requests
  <2> QED BY <2>1, GroupsAreDisjoint DEF Arguments, TakesId
<1>2. TakesId \subseteq RouteNames
  <2>1. \A table \in Tables : DOMAIN table \subseteq CallRoutes
    BY DEF FixedRoutes, CallRoutes
  <2>2. /\ DOMAIN MasterEntryHandlers \subseteq CallRoutes
        /\ DOMAIN FilteredMasterHandlers \subseteq CallRoutes
        /\ DOMAIN CardSections \subseteq CallRoutes
        /\ DOMAIN MapDetails \subseteq CallRoutes
    BY <2>1, Zenon DEF Tables
  <2>3. {"skill_single", "skill_cards"} \subseteq CallRoutes
    <3>1. SkillHandlers \in Tables /\ {"skill_single", "skill_cards"} \subseteq DOMAIN SkillHandlers
      BY DEF Tables, SkillHandlers
    <3> QED BY <2>1, <3>1
  <2>4. {"user_music_scores_single", "user_music_status"} \subseteq CallRoutes
    <3>1. /\ SuiteHandlers \in Tables
          /\ {"user_music_scores_single", "user_music_status"} \subseteq DOMAIN SuiteHandlers
      BY DEF Tables, SuiteHandlers
    <3> QED BY <2>1, <3>1
  <2>5. {"band_cards", "event_single", "monthly_ranking_info"} \subseteq CallRoutes
    <3> DEFINE others == [monthly_ranking_master |-> MonthlyMaster,
                          monthly_ranking_info |-> MonthlyMaster,
                          event_master |-> EventMaster, event_single |-> EventMaster,
                          band_cards |-> BandMembers]
    <3>1. others \in Tables
      BY Zenon DEF Tables
    <3>2. {"band_cards", "event_single", "monthly_ranking_info"} \subseteq DOMAIN others
      OBVIOUS
    <3> HIDE DEF others
    <3> QED BY <2>1, <3>1, <3>2
  <2>6. MonthlyViews \cup {"music_single", "character_single", "event_ranking"} \subseteq CallRoutes
    BY DEF CallRoutes
  <2> QED BY <2>2, <2>3, <2>4, <2>5, <2>6 DEF TakesId, ConfiguredThenId, IdThenConfigured,
                                           RouteNames
<1>3. r.arg.route \in CallRoutes
  BY <1>1, <1>2 DEF RouteNames
<1> QED BY <1>1, <1>3, PassedIsValid DEF Calls

\* So is the one that the event list's type leads to.
LEMMA ResolvedIsCall ==
    ASSUME NEW a \in Arguments, a.route = "event_ranking", Valid(a), NEW type \in Types
    PROVE  EventRanking(a.id, type, a.mid) \in Calls
<1> DEFINE b == [a EXCEPT !.type = type]
<1>1. b \in Arguments /\ b.route = "event_ranking" /\ b.id = a.id /\ b.mid = a.mid /\ b.type = type
  BY DEF Arguments, TakesId
<1>2. type # Omitted /\ type # Unsupported
  BY MarkersAreNoValues
<1>3. Valid(b)
  BY <1>1, <1>2 DEF Valid
<1> HIDE DEF b
<1>4. FirstCall(b) = EventRanking(b.id, b.type, b.mid)
  BY <1>1, <1>2, RoutesApart, Zenon DEF FirstCall
<1>5. b.route \in CallRoutes
  BY <1>1 DEF CallRoutes
<1> QED BY <1>1, <1>3, <1>4, <1>5 DEF Calls

\* What holds throughout: bodies are of calls, a request that calls upstream
\* is valid, and a body it holds names the resource it asks.
IInv == /\ OnlyValidRequestsCall
        /\ cache \subseteq Calls
        /\ pc \in {"calling", "served"} => request \in Requests /\ call \in Calls
        /\ pc \in {"idle", "calling"} => served = NoCall
        /\ AnswersOwnRequest

\* It holds at first.
LEMMA InitIInv == Init => IInv
BY DEF Init, IInv, OnlyValidRequestsCall, AnswersOwnRequest

\* And every step keeps it.
LEMMA NextIInv == IInv /\ [Next]_vars => IInv'
<1> SUFFICES ASSUME IInv, [Next]_vars PROVE IInv'
  OBVIOUS
<1> USE DEF IInv, AnswersOwnRequest
<1>0. OnlyValidRequestsCall'
  BY NextOnlyValid
<1>1. ASSUME NEW r \in Requests, Accept(r), pc = "idle" PROVE IInv'
  <2>1. FirstCall(r.arg) \in Calls
    BY <1>1, FirstCallIsCall DEF Accept
  <2> QED BY <1>0, <1>1, <2>1 DEF Accept
<1>2. ASSUME NEW r \in Requests, Refuse(r) \/ CacheStats(r) \/ CacheClear(r), pc = "idle"
      PROVE  IInv'
  BY <1>0, <1>2 DEF Refuse, CacheStats, CacheClear, Reply
<1>3. CASE Hit
  <2>1. PICK body \in Cached(call.key) : Answered(body)
    BY <1>3 DEF Hit
  <2>2. body \in Calls /\ body.key = call.key /\ call \in Calls
    BY <1>3, <2>1 DEF Cached, Hit
  <2>3. SameResource(body, call)
    BY <2>2, KeyNamesResource
  <2> QED BY <1>0, <1>3, <2>1, <2>3 DEF Hit, Answered, SameResource
<1>4. CASE Fetch
  <2>1. SameResource(call, call)
    BY DEF SameResource
  <2>2. cache' \subseteq Calls
    BY <1>4 DEF Fetch, Stores
  <2> QED BY <1>0, <1>4, <2>1, <2>2 DEF Fetch, Answered, SameResource
<1>5. CASE FetchFails
  BY <1>0, <1>5 DEF FetchFails, Reply
<1>6. CASE ResolveType
  <2>1. ASSUME NEW type \in Types, pc = "served", Resolving,
               CallNext(EventRanking(request.arg.id, type, request.arg.mid))
        PROVE  IInv'
    <3>1. request.arg \in Arguments /\ Valid(request.arg)
      BY <2>1 DEF Requests, OnlyValidRequestsCall
    <3>2. EventRanking(request.arg.id, type, request.arg.mid) \in Calls
      BY <2>1, <3>1, ResolvedIsCall DEF Resolving
    <3> QED BY <1>0, <2>1, <3>2 DEF CallNext
  <2>2. ASSUME Finish(404, TRUE) \/ Finish(400, TRUE) PROVE IInv'
    BY <1>0, <2>2 DEF Finish, Reply
  <2> QED BY <1>6, <2>1, <2>2 DEF ResolveType
<1>7. CASE JoinCards
  <2>1. BandSituations \in Calls
    BY DEF Calls
  <2> QED BY <1>0, <1>7, <2>1 DEF JoinCards, CallNext, Finish, Reply
<1>8. CASE Deliver
  BY <1>0, <1>8 DEF Deliver, Finish, Reply
<1>9. CASE Done
  BY <1>0, <1>9 DEF Done
<1>10. CASE Others
  <2>1. cache' \subseteq Calls
    BY <1>10 DEF Others, OthersStore, Stores, Forget
  <2> QED BY <1>0, <1>10, <2>1 DEF Others, SameResource
<1>11. CASE UNCHANGED vars
  BY <1>0, <1>11 DEF vars, SameResource
<1> QED BY <1>1, <1>2, <1>3, <1>4, <1>5, <1>6, <1>7, <1>8, <1>9, <1>10, <1>11 DEF Next, Handle

\* Whatever ids and event types there are, and however many bodies are kept, a
\* handler is only given a body of the resource it asked.
THEOREM OwnResource == Spec => []AnswersOwnRequest
BY InitIInv, NextIInv, PTL DEF Spec, IInv

\* And no resource is fetched while a body of it is in the cache, under
\* whatever key it was stored.
THEOREM NoSecondFetch == Spec => OneUpstreamPerWindow
<1>1. ASSUME IInv, [Next]_vars
      PROVE  [\A c \in cache' \ cache, b \in cache : c.url # b.url]_vars
  <2>1. ASSUME NEW new \in Calls, Stores(new), Cached(new.key) = {},
               NEW c \in cache' \ cache, NEW b \in cache
        PROVE  c.url # b.url
    <3>1. c = new
      BY <2>1 DEF Stores
    <3>2. b.key # new.key
      BY <2>1 DEF Cached
    <3> QED BY <1>1, <3>1, <3>2, UrlNamesKey DEF IInv
  <2>2. CASE Fetch
    BY <1>1, <2>1, <2>2 DEF Fetch, IInv
  <2>3. CASE Others
    BY <2>1, <2>3 DEF Others, OthersStore, Forget
  <2>4. CASE ~Fetch /\ ~Others
    <3>1. cache' \subseteq cache
      BY <1>1, <2>4 DEF Next, Handle, Refuse, Accept, CacheStats, CacheClear, Hit, FetchFails,
                        Answered, ResolveType, JoinCards, Deliver, Done, CallNext, Finish, vars
    <3> QED BY <3>1
  <2> QED BY <2>2, <2>3, <2>4
<1> QED BY <1>1, InitIInv, NextIInv, PTL DEF Spec, OneUpstreamPerWindow
==============================================================================
