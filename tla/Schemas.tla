------------------------------ MODULE Schemas ------------------------------
(***************************************************************************)
(* proto/garupa_schema.rs: the descriptors of the messages that transforms *)
(* and models look into (rankings, event and monthly masters, skills, the  *)
(* user's suite), and degrees for the nine masters that are maps.  The     *)
(* other descriptors belong to messages that are answered as they were     *)
(* decoded; they differ only in names and numbers.                         *)
(***************************************************************************)
EXTENDS Wire

\* The macros list_schema! and map_entry_schema!.
ListOf(schema)           == <<Repeated(Sub(1, "entries", schema))>>
EntryOf(key, schema)     == <<[key EXCEPT !.number = 1, !.name = "key"], Sub(2, "value", schema)>>
MapOf(key, schema)       == ListOf(EntryOf(key, schema))
IntKey    == Num(1, "key")
StringKey == Str(1, "key")

-----------------------------------------------------------------------------
(* Ranking user, shared by monthly and event rankings                      *)

USER_DECK_SCHEMA == <<
  Num(1, "deckId"), Str(2, "deckName"), Num(3, "leader"), Num(4, "member1"),
  Num(5, "member2"), Num(6, "member3"), Num(7, "member4"),
  Repeated(Num(8, "bondsEffectIds")), Str(10, "deckType") >>

USER_APPEND_PARAMETER_SCHEMA == <<
  Num(1, "userId"), Num(2, "situationId"), Num(3, "performance"), Num(4, "technique"),
  Num(5, "visual"), Num(6, "characterPotentialPerformance"),
  Num(7, "characterPotentialTechnique"), Num(8, "characterPotentialVisual"),
  Num(9, "characterBonusPerformance"), Num(10, "characterBonusTechnique"),
  Num(11, "characterBonusVisual") >>

USER_SITUATION_SCHEMA == <<
  Num(1, "userId"), Num(2, "situationId"), Num(3, "level"), Num(4, "exp"),
  Num(5, "createdAt"), Num(6, "addExp"), Str(7, "trainingStatus"),
  Num(8, "duplicateCount"), Str(9, "illust"), Num(10, "skillExp"), Num(11, "skillLevel"),
  Sub(12, "userAppendParameter", USER_APPEND_PARAMETER_SCHEMA), Num(13, "limitBreakRank") >>

USER_PROFILE_SITUATION_SCHEMA == <<
  Num(1, "userId"), Num(2, "situationId"), Str(3, "illust"),
  Str(4, "viewProfileSituationStatus") >>

USER_PROFILE_DEGREE_SCHEMA == <<
  Num(1, "userId"), Str(2, "profileDegreeType"), Num(3, "degreeId") >>

RANKING_USER_SCHEMA == <<
  Str(1, "name"), Flag(2, "ownFlg"), Num(3, "rankLevel"), Str(4, "introduction"),
  Num(5, "rank"), Num(6, "point"), Num(7, "userId"), Num(8, "degreeId"),
  Sub(9, "userDeck", USER_DECK_SCHEMA),
  Sub(10, "userSituationList", ListOf(USER_SITUATION_SCHEMA)),
  Sub(11, "userProfileSituation", USER_PROFILE_SITUATION_SCHEMA),
  Sub(12, "userProfileDegreeMap", MapOf(StringKey, USER_PROFILE_DEGREE_SCHEMA)) >>

\* A container of ranked users.
Users(number, name) == Sub(number, name, ListOf(RANKING_USER_SCHEMA))

-----------------------------------------------------------------------------
(* Monthly ranking                                                         *)

USER_MONTHLY_RANKING_RANKING_RESPONSE_SCHEMA == <<
  Users(1, "monthlyRankingPointNearUsers"), Users(2, "monthlyRankingPointTopUsers"),
  Users(3, "monthlyRankingPointBorderUsers") >>

MASTER_MONTHLY_RANKING_REWARD_SCHEMA == <<
  Num(1, "id"), Num(2, "monthlyRankingId"), Num(3, "fromRank"), Num(4, "toRank"),
  Str(5, "rewardType"), Num(6, "rewardId"), Num(7, "rewardQuantity") >>

MASTER_MONTHLY_RANKING_GRADE_SCHEMA == <<
  Num(1, "id"), Num(2, "monthlyRankingId"), Str(3, "gradeAheadType"), Num(4, "pt"),
  Str(5, "rewardType"), Num(6, "rewardId"), Num(7, "rewardQuantity"),
  Flag(8, "rankingThresholdFlg") >>

MASTER_MONTHLY_RANKING_SCHEMA == <<
  Num(1, "monthlyRankingId"), Str(2, "monthlyRankingName"), Str(3, "assetBundleName"),
  Str(4, "bgmAssetBundleName"), Str(5, "bgmFileName"), Num(6, "startAt"), Num(7, "endAt"),
  Flag(8, "enableFlg"), Num(9, "publicStartAt"), Num(10, "publicEndAt"),
  Num(11, "distributionStartAt"), Num(12, "distributionEndAt"),
  Num(13, "receptionEndAt"), Num(14, "aggregateEndAt"),
  Repeated(Sub(101, "rewards", MASTER_MONTHLY_RANKING_REWARD_SCHEMA)),
  Repeated(Sub(102, "grades", MASTER_MONTHLY_RANKING_GRADE_SCHEMA)) >>

-----------------------------------------------------------------------------
(* Event ranking, one response schema per event type                       *)

USER_MEDLEY_EVENT_RANKING_RESPONSE_SCHEMA == <<
  Users(1, "eventPointNearUsers"), Users(2, "eventPointTopUsers"),
  Users(3, "scoreNearUsers"), Users(4, "scoreTopUsers"),
  Users(5, "eventPointBorderUsers"), Users(6, "scoreBorderUsers") >>

USER_LIVE_TRY_EVENT_RANKING_RESPONSE_SCHEMA == <<
  Users(1, "nearUsers"), Users(2, "topUsers"), Users(3, "eventPointBorderUsers") >>

USER_STORY_EVENT_RANKING_RESPONSE_SCHEMA == <<
  Users(1, "nearUsers"), Users(2, "topUsers") >>

USER_CHALLENGE_MUSIC_RANKING_RESPONSE_SCHEMA == <<
  Num(1, "musicId"), Users(2, "scoreNearUsers"), Users(3, "scoreTopUsers"),
  Users(4, "scoreBorderUsers") >>

USER_CHALLENGE_EVENT_RANKING_RESPONSE_SCHEMA == <<
  Users(1, "eventPointNearUsers"), Users(2, "eventPointTopUsers"),
  Users(3, "eventPointBorderUsers"),
  Repeated(Sub(101, "challengeMusicRankings", USER_CHALLENGE_MUSIC_RANKING_RESPONSE_SCHEMA)) >>

USER_MISSION_LIVE_EVENT_RANKING_RESPONSE_SCHEMA == <<
  Users(1, "nearUsers"), Users(2, "topUsers"), Users(3, "borderUsers") >>

USER_TEAM_LIVE_FESTIVAL_EVENT_RANKING_RESPONSE_SCHEMA == <<
  Users(1, "nearUsers"), Users(2, "topUsers"), Users(3, "eventPointBorderUsers") >>

USER_VERSUS_MUSIC_RANKING_RESPONSE_SCHEMA == <<
  Num(1, "musicId"), Users(2, "scoreNearUsers"), Users(3, "scoreTopUsers"),
  Users(4, "scoreBorderUsers") >>

USER_VERSUS_EVENT_RANKING_RESPONSE_SCHEMA == <<
  Users(1, "eventPointNearUsers"), Users(2, "eventPointTopUsers"),
  Repeated(Sub(3, "versusMusicRankings", USER_VERSUS_MUSIC_RANKING_RESPONSE_SCHEMA)),
  Users(4, "eventPointBorderUsers") >>

EVENT_TYPE_SCHEMAS == [
  medley             |-> USER_MEDLEY_EVENT_RANKING_RESPONSE_SCHEMA,
  challenge          |-> USER_CHALLENGE_EVENT_RANKING_RESPONSE_SCHEMA,
  versus             |-> USER_VERSUS_EVENT_RANKING_RESPONSE_SCHEMA,
  live_try           |-> USER_LIVE_TRY_EVENT_RANKING_RESPONSE_SCHEMA,
  story              |-> USER_STORY_EVENT_RANKING_RESPONSE_SCHEMA,
  mission_live       |-> USER_MISSION_LIVE_EVENT_RANKING_RESPONSE_SCHEMA,
  team_live_festival |-> USER_TEAM_LIVE_FESTIVAL_EVENT_RANKING_RESPONSE_SCHEMA ]

-----------------------------------------------------------------------------
(* Event master, degrees and skills                                        *)

MASTER_EVENT_POINT_REWARD_SCHEMA == <<
  Num(1, "id"), Num(2, "eventId"), Num(3, "point"), Str(4, "rewardType"),
  Num(5, "rewardId"), Num(6, "rewardQuantity"), Flag(7, "recommendFlg") >>

MASTER_EVENT_RANKING_REWARD_SCHEMA == <<
  Num(1, "id"), Num(2, "eventId"), Num(3, "fromRank"), Num(4, "toRank"),
  Str(5, "rewardType"), Num(6, "rewardId"), Num(7, "rewardQuantity"),
  Flag(8, "recommendFlg") >>

MASTER_EVENT_SCHEMA == <<
  Num(1, "eventId"), Str(2, "eventType"), Str(3, "eventName"), Str(4, "assetBundleName"),
  Num(5, "startAt"), Num(6, "endAt"), Flag(7, "enableFlg"), Num(8, "publicStartAt"),
  Num(9, "publicEndAt"), Num(10, "distributionStartAt"), Num(11, "distributionEndAt"),
  Str(12, "bgmAssetBundleName"), Str(13, "bgmFileName"), Num(14, "aggregateEndAt"),
  Num(15, "eventExchangesEndAt"), Num(16, "receptionEndAt"), Num(18, "previousEventId"),
  Repeated(Sub(101, "pointRewards", MASTER_EVENT_POINT_REWARD_SCHEMA)),
  Repeated(Sub(102, "rankingRewards", MASTER_EVENT_RANKING_REWARD_SCHEMA)) >>

DEGREE_SCHEMA == <<
  Num(1, "degreeId"), Num(2, "seq"), Str(3, "baseImageName"), Str(4, "rank"),
  Str(5, "degreeName"), Str(6, "degreeType"), Str(7, "iconImageName"), Str(8, "description") >>

SKILL_SCHEMA == <<
  Num(1, "skillId"), Num(2, "skillLevel"), Float(3, "effectValue"), Str(4, "skillName"),
  Str(5, "description"), Str(6, "skillType") >>

-----------------------------------------------------------------------------
(* The complete suite user snapshot                                        *)

USER_MUSIC_SCORE_SCHEMA == <<
  Num(1, "userId"), Num(2, "musicId"), Str(3, "musicDifficulty"), Num(4, "soloHighScore"),
  Num(5, "maxCombo"), Str(6, "soloScoreRank"), Str(7, "clearStatus") >>

USER_MUSIC_CLEAR_INFO_SCHEMA == <<
  Num(1, "clearedMusicCount"), Num(2, "fullComboMusicCount"), Num(3, "allPerfectMusicCount") >>

USER_CHARACTER_RANK_SCHEMA == <<
  Num(1, "rank"), Num(2, "exp"), Num(3, "addExp"), Num(4, "nextExp"), Num(5, "totalExp"),
  Num(6, "releasedPotentialLevel") >>

USER_AREA_ITEM_SCHEMA == <<
  Num(1, "userId"), Num(2, "areaItemId"), Num(3, "areaItemCategory"), Num(4, "level") >>

USER_CHARACTER_POTENTIAL_LEVEL_SCHEMA == <<
  Num(1, "performanceLevel"), Num(2, "techniqueLevel"), Num(3, "visualLevel") >>

USER_CHARACTER_MISSION_BONUS_SCHEMA == <<
  Num(1, "characterId"), Str(2, "characterBonusType"), Float(3, "performance"),
  Float(4, "technique"), Float(5, "visual") >>

SUITE_USER_RESPONSE_SCHEMA == <<
  Sub(22, "userAreaItemMap", MapOf(IntKey, USER_AREA_ITEM_SCHEMA)),
  Sub(54, "userMusicScoreMap", MapOf(IntKey, ListOf(USER_MUSIC_SCORE_SCHEMA))),
  Sub(409, "userMusicClearInfoMap", MapOf(StringKey, USER_MUSIC_CLEAR_INFO_SCHEMA)),
  Sub(400, "userCharacterRankMap", MapOf(IntKey, USER_CHARACTER_RANK_SCHEMA)),
  Sub(401, "userCharacterPotentialLevelMap", MapOf(IntKey, USER_CHARACTER_POTENTIAL_LEVEL_SCHEMA)),
  Sub(456, "userCharacterMissionBonusMap",
      MapOf(IntKey, ListOf(USER_CHARACTER_MISSION_BONUS_SCHEMA))) >>

=============================================================================
