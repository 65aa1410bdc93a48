------------------------------- MODULE Routes -------------------------------
(***************************************************************************)
(* The routes of the data API and what each asks of cached_json: the cache *)
(* key, the upstream URL, the schema that decodes the answer, the view     *)
(* that maps it before it is stored, and the class of its time-to-live.    *)
(* handlers.rs writes the first three by hand in every handler, so each    *)
(* row below copies them from its own handler.                             *)
(*                                                                         *)
(* A key or URL that the code formats is the sequence of its parts; "uid"  *)
(* stands for the one configured user.  A route has its handler's name.    *)
(***************************************************************************)
EXTENDS Integers, Sequences

CONSTANTS Omitted,     \* a query parameter that is not given
          BadNumber,   \* text where a number belongs
          Unsupported  \* an event type or difficulty nobody knows

Call(key, url, schema, view, ttl) ==
    [key |-> key, url |-> url, schema |-> schema, view |-> view, ttl |-> ttl]

-----------------------------------------------------------------------------
(* The URL builders of client/mod.rs. *)

EndpointUrl == [
    monthly_ranking_master_url |-> "monthlyranking", event_master_url |-> "event",
    application_url |-> "application", music_master_url |-> "music",
    music_difficulty_master_url |-> "musicdifficulty",
    multi_live_difficulty_master_url |-> "multilivedifficulty",
    weekly_multi_live_difficulty_master_url |-> "weeklymultilivedifficulty",
    area_item_master_url |-> "areaitem", area_item_spawn_master_url |-> "areaitemspawn",
    bonds_master_url |-> "bonds", bonds_effect_master_url |-> "bondseffect",
    action_set_master_url |-> "actionset", music_shop_master_url |-> "musicshop",
    degree_master_url |-> "degree", suite_master_url |-> "suite/master",
    character_master_url |-> "character", band_master_url |-> "band",
    area_master_url |-> "area", gacha_master_url |-> "gacha", item_master_url |-> "item",
    skill_master_url |-> "skill", stamp_master_url |-> "stamp",
    login_bonus_master_url |-> "loginbonus", costume_master_url |-> "costume",
    shop_url |-> "shop", situation_master_url |-> "situation"]

UserUrl == [
    user_deck_url |-> "deck", user_situation_url |-> "situation", user_title_url |-> "title",
    user_stamp_url |-> "stamp", user_area_url |-> "area", user_item_url |-> "item",
    user_present_url |-> "present", user_gacha_url |-> "gacha",
    user_episode_url |-> "episode", user_mission_url |-> "mission",
    user_login_bonus_url |-> "loginbonus", user_costume_url |-> "costume",
    user_character_url |-> "character"]

\* event_type_to_url_segment, on the types EVENT_TYPE_SCHEMAS supports.
Segment == [challenge |-> "challenge", live_try |-> "livetry", medley |-> "medley",
            mission_live |-> "mission", story |-> "story",
            team_live_festival |-> "festival", versus |-> "versus"]

EventTypes == DOMAIN Segment

-----------------------------------------------------------------------------
(* The calls behind each family of handlers. *)

Master(key, url, schema) ==
    Call(<<key>>, <<EndpointUrl[url]>>, schema, <<"passthrough">>, "master")

MapList(key, url, schema, field) ==
    Call(<<key>>, <<EndpointUrl[url]>>, schema, <<"flatten_map_values", field>>, "master")

User(key, url, schema) ==
    Call(<<key, "uid">>, <<"user", "uid", UserUrl[url]>>, schema, <<"passthrough">>, "user")

MasterHandlers == [
    application |-> Master("application", "application_url", "APPLICATION"),
    music_master |-> Master("music-master", "music_master_url", "MUSIC_LIST"),
    music_difficulty_master |-> Master("music-difficulty-master", "music_difficulty_master_url", "MUSIC_DIFFICULTY_LIST"),
    master_suite |-> Master("suite-master", "suite_master_url", "SUITE_MASTER_RESPONSE"),
    character_master |-> Master("character-master", "character_master_url", "CHARACTER_LIST"),
    band_master |-> Master("band-master", "band_master_url", "BAND_LIST"),
    area_master |-> Master("area-master", "area_master_url", "AREA_LIST"),
    gacha_master |-> Master("gacha-master", "gacha_master_url", "GACHA_LIST"),
    item_master |-> Master("item-master", "item_master_url", "ITEM_LIST"),
    skill_master |-> Master("skill-master", "skill_master_url", "SKILL_LIST"),
    stamp_master |-> Master("stamp-master", "stamp_master_url", "STAMP_LIST"),
    login_bonus_master |-> Master("loginbonus-master", "login_bonus_master_url", "LOGIN_BONUS_LIST"),
    costume_master |-> Master("costume-master", "costume_master_url", "COSTUME_LIST"),
    shops |-> Master("shop-master", "shop_url", "SHOP_LIST"),
    cards |-> Master("situation-master", "situation_master_url", "SITUATION_LIST")]

MasterEntryHandlers == [
    band_single |-> Master("band-master", "band_master_url", "BAND_LIST"),
    area_single |-> Master("area-master", "area_master_url", "AREA_LIST"),
    gacha_single |-> Master("gacha-master", "gacha_master_url", "GACHA_LIST"),
    item_single |-> Master("item-master", "item_master_url", "ITEM_LIST"),
    stamp_single |-> Master("stamp-master", "stamp_master_url", "STAMP_LIST"),
    login_bonus_single |-> Master("loginbonus-master", "login_bonus_master_url", "LOGIN_BONUS_LIST"),
    costume_single |-> Master("costume-master", "costume_master_url", "COSTUME_LIST"),
    shop_single |-> Master("shop-master", "shop_url", "SHOP_LIST"),
    card_single |-> Master("situation-master", "situation_master_url", "SITUATION_LIST")]

FilteredMasterHandlers == [
    music_difficulties |-> Master("music-difficulty-master", "music_difficulty_master_url", "MUSIC_DIFFICULTY_LIST"),
    character_cards |-> Master("situation-master", "situation_master_url", "SITUATION_LIST"),
    character_costumes |-> Master("costume-master", "costume_master_url", "COSTUME_LIST"),
    band_characters |-> Master("character-master", "character_master_url", "CHARACTER_LIST")]

CardSection_OwnKey == Master("card-sections", "situation_master_url", "SITUATION_LIST")  \* mutant
CardSection == Master("situation-master", "situation_master_url", "SITUATION_LIST")
CardSections == [card_levels |-> CardSection, card_episodes |-> CardSection,
                 card_training |-> CardSection]

MapHandlers == [
    multi_live_difficulty_master |-> MapList("multi-live-difficulty-master", "multi_live_difficulty_master_url", "MULTI_LIVE_DIFFICULTY_MAP", "id"),
    weekly_multi_live_difficulty_master |-> MapList("weekly-multi-live-difficulty-master", "weekly_multi_live_difficulty_master_url", "WEEKLY_MULTI_LIVE_DIFFICULTY_MAP", "id"),
    area_item_master |-> MapList("area-item-master", "area_item_master_url", "AREA_ITEM_MAP", "areaItemId"),
    area_item_spawn_master |-> MapList("area-item-spawn-master", "area_item_spawn_master_url", "AREA_ITEM_SPAWN_MAP", "spawnPoint"),
    bonds_master |-> MapList("bonds-master", "bonds_master_url", "BONDS_MAP", "bondsId"),
    bonds_effect_master |-> MapList("bonds-effect-master", "bonds_effect_master_url", "BONDS_EFFECT_MAP", "bondsEffectId"),
    action_set_master |-> MapList("action-set-master", "action_set_master_url", "ACTION_SET_MAP", "actionSetId"),
    music_shop_master |-> MapList("music-shop-master", "music_shop_master_url", "MUSIC_SHOP_MAP", "musicShopId"),
    degree_master |-> MapList("degree-master", "degree_master_url", "DEGREE_MAP", "degreeId")]

\* One row declares a list and its detail view, so they share the call.
MapDetails == [
    multi_live_difficulty_single |-> MapHandlers.multi_live_difficulty_master,
    weekly_multi_live_difficulty_single |-> MapHandlers.weekly_multi_live_difficulty_master,
    area_item_single |-> MapHandlers.area_item_master,
    area_item_spawn_single |-> MapHandlers.area_item_spawn_master,
    bonds_single |-> MapHandlers.bonds_master,
    bonds_effect_single |-> MapHandlers.bonds_effect_master,
    action_set_single |-> MapHandlers.action_set_master,
    music_shop_single |-> MapHandlers.music_shop_master,
    degree_single |-> MapHandlers.degree_master]

SkillHandlers == [
    skill_master_normalized |-> Master("skill-master", "skill_master_url", "SKILL_LIST"),
    skill_single |-> Master("skill-master", "skill_master_url", "SKILL_LIST"),
    skill_cards |-> Master("situation-master", "situation_master_url", "SITUATION_LIST")]

MonthlyMaster == Call(<<"monthly-master">>, <<EndpointUrl.monthly_ranking_master_url>>,
                      "MASTER_MONTHLY_RANKING_LIST", <<"monthly_ranking_list">>, "master")

Monthly(id) == Call(<<"monthly", id>>, <<"user", "uid", "monthlyranking", id, "ranking">>,
                    "USER_MONTHLY_RANKING_RANKING_RESPONSE", <<"monthly_ranking_report">>, "ranking")

EventMaster == Call(<<"event-master">>, <<EndpointUrl.event_master_url>>,
                    "MASTER_EVENT_LIST", <<"event_list">>, "master")

RankingKey_NoType(id, type, mid) == <<"event-ranking", id, "any", IF mid = Omitted THEN 0 ELSE mid>>  \* mutant

\* The key takes an absent mid for 0; the URL has mid only when it is given.
\* EVENT_TYPE_SCHEMAS has one schema per type, named here by its type.
RankingKey(id, type, mid) == <<"event-ranking", id, type, IF mid = Omitted THEN 0 ELSE mid>>

EventRankingUrl(id, type, mid) == <<"user", "uid", "event", id, Segment[type], "ranking", mid>>

EventRanking(id, type, mid) ==
    Call(RankingKey(id, type, mid), EventRankingUrl(id, type, mid), type,
         <<"event_ranking_report", type>>, "ranking")

\* The first call of band_cards, and the second, which it joins to it.
BandMembers == Master("character-master", "character_master_url", "CHARACTER_LIST")
BandSituations == Master("situation-master", "situation_master_url", "SITUATION_LIST")

MusicSingle(id) == Call(<<"music-single", id>>, <<"music", id>>, "MUSIC",
                        <<"passthrough">>, "master")
CharacterSingle(id) == Call(<<"character-single", id>>, <<"character", id>>, "CHARACTER",
                            <<"passthrough">>, "master")

UserHandlers == [
    user_profile |-> Call(<<"user-profile", "uid">>, <<"user", "uid">>, "USER_PROFILE_RESPONSE", <<"passthrough">>, "user"),
    user_decks |-> User("user-decks", "user_deck_url", "USER_DECK_LIST"),
    user_situations |-> User("user-situations", "user_situation_url", "USER_SITUATION_LIST"),
    user_title |-> User("user-title", "user_title_url", "USER_TITLE"),
    user_stamps |-> User("user-stamps", "user_stamp_url", "USER_STAMP_LIST"),
    user_items |-> User("user-items", "user_item_url", "USER_ITEM_LIST"),
    user_presents |-> User("user-presents", "user_present_url", "USER_PRESENT_LIST"),
    user_gacha |-> User("user-gacha", "user_gacha_url", "USER_GACHA_LIST"),
    user_episodes |-> User("user-episodes", "user_episode_url", "USER_EPISODE_LIST"),
    user_missions |-> User("user-missions", "user_mission_url", "USER_MISSION_LIST"),
    user_login_bonuses |-> User("user-login-bonuses", "user_login_bonus_url", "USER_LOGIN_BONUS_LIST"),
    user_costumes |-> User("user-costumes", "user_costume_url", "USER_COSTUME_LIST"),
    user_area_statuses |-> User("user-area-statuses", "user_area_url", "USER_AREA_LIST"),
    user_character_affinity |-> User("user-character-affinity", "user_character_url", "USER_CHARACTER_LIST")]

\* suite_user_value: every derived user view reads the one suite snapshot.
SuiteUser == Call(<<"suite-user", "uid">>, <<"suite", "user", "uid">>, "SUITE_USER_RESPONSE",
                  <<"passthrough">>, "user")

SuiteHandlers == [name \in {"user_areas", "user_music_scores", "user_music_scores_single",
                            "user_music_status", "user_music_clear_info", "user_characters",
                            "user_character_mission_bonuses"} |-> SuiteUser]

-----------------------------------------------------------------------------
(* Routes by the arguments they take, and the first call each makes. *)

MonthlyViews == {"monthly_ranking_full", "monthly_ranking_top", "monthly_ranking_border"}
CacheRoutes == {"cache_stats", "cache_clear"}

\* Routes whose call does not depend on the request: a name is in one table.
Tables == {MasterHandlers, MasterEntryHandlers, FilteredMasterHandlers, CardSections,
           MapHandlers, MapDetails, SkillHandlers, UserHandlers, SuiteHandlers,
           [monthly_ranking_master |-> MonthlyMaster, monthly_ranking_info |-> MonthlyMaster,
            event_master |-> EventMaster, event_single |-> EventMaster,
            band_cards |-> BandMembers]}

FixedRoutes == UNION {DOMAIN table : table \in Tables}

FixedCall == [route \in FixedRoutes |->
                 (CHOOSE table \in Tables : route \in DOMAIN table)[route]]

CallRoutes == FixedRoutes \cup MonthlyViews
              \cup {"music_single", "character_single", "event_ranking"}

RouteNames == CallRoutes \cup CacheRoutes

FirstCall(r) ==
    CASE r.route \in FixedRoutes -> FixedCall[r.route]
      [] r.route \in MonthlyViews -> Monthly(r.id)
      [] r.route = "music_single" -> MusicSingle(r.id)
      [] r.route = "character_single" -> CharacterSingle(r.id)
      [] r.route = "event_ranking" /\ r.type = Omitted -> EventMaster
      [] r.route = "event_ranking" /\ r.type # Omitted -> EventRanking(r.id, r.type, r.mid)

-----------------------------------------------------------------------------
(* What each handler checks before its first call, in its order. *)

ConfiguredThenId == DOMAIN MasterEntryHandlers \cup MonthlyViews
                    \cup {"music_single", "character_single"}

IdThenConfigured == DOMAIN FilteredMasterHandlers \cup DOMAIN CardSections
                    \cup {"band_cards", "skill_single", "skill_cards", "event_single",
                          "monthly_ranking_info", "user_music_scores_single"}

\* A spawn point is a string: any text will do.
NumberedDetails == DOMAIN MapDetails \ {"area_item_spawn_single"}

HandlerChecks(route) ==
    CASE route \in ConfiguredThenId -> <<"path", "configured", "id">>
      [] route \in IdThenConfigured -> <<"path", "id", "configured">>
      [] route \in NumberedDetails -> <<"number", "id", "configured">>
      [] route = "event_ranking" -> <<"path", "query", "configured", "id", "type">>
      [] route = "user_music_status" -> <<"path", "id", "difficulty", "configured">>
      [] route \in CacheRoutes -> <<>>
      [] OTHER -> <<"configured">>

\* Layers run outside in: the key, the server, then the method of the route.
Checks(route) == <<"key", "server", "method">> \o HandlerChecks(route)

\* Routes that look one object up and answer 404 when it is not there.
Lookups == DOMAIN MasterEntryHandlers \cup DOMAIN CardSections \cup DOMAIN MapDetails
           \cup {"skill_single", "event_single", "monthly_ranking_info"}

TakesId == ConfiguredThenId \cup IdThenConfigured \cup DOMAIN MapDetails
           \cup {"event_ranking", "user_music_status"}
=============================================================================
