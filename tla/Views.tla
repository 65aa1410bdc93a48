-------------------------------- MODULE Views --------------------------------
(***************************************************************************)
(* api/transforms.rs and api/models.rs: what the handlers make of a        *)
(* decoded message.  Members are looked up by name, nothing is required to *)
(* be there, and a member that is missing has the default of its type.     *)
(***************************************************************************)
EXTENDS Schemas

Entries(root) == Get(root, "entries", << >>)

\* The elements of a sequence that are in a set, in order: a filter.
Kept(s, S) ==
  LET kept[n \in 0 .. Len(s)] ==
        IF n = 0 THEN << >>
        ELSE IF s[n] \in S THEN Append(kept[n - 1], s[n]) ELSE kept[n - 1]
  IN  kept[Len(s)]

\* The elements of a sequence that have the value in that member.
Having(s, name, default, value) == Kept(s, {e \in Range(s) : Get(e, name, default) = value})

\* A set of integers in the order of a BTreeMap.
Ascending(S) ==
  [n \in 1 .. Cardinality(S) |-> CHOOSE x \in S : Cardinality({y \in S : y < x}) = n - 1]

-----------------------------------------------------------------------------
(* transforms.rs: lists and maps                                           *)

\* The first entry with the id, as an Option.
find_entry(root, id_field, id) ==
  LET found == Having(Entries(root), id_field, Null, id)
  IN  IF found = << >> THEN {} ELSE {Head(found)}

\* mutant: the id an item carries is replaced by the key of the map around it.
NestedItemKeyed(map_entry, value, key_name) ==
  IF "key" \in DOMAIN map_entry THEN Over(Member(key_name, map_entry.key), value) ELSE value

\* An item of a nested list with the key of its map, unless it names its own.
NestedItem(map_entry, value, key_name) ==
  IF key_name \notin DOMAIN value /\ "key" \in DOMAIN map_entry
  THEN Over(Member(key_name, map_entry.key), value)
  ELSE value

flatten_nested_map_values(root, map_name, key_name) ==
  FlattenSeq([i \in DOMAIN Entries(Get(root, map_name, Empty)) |->
    LET map_entry == Entries(Get(root, map_name, Empty))[i]
        values    == Entries(Get(map_entry, "value", Empty))
    IN  [j \in DOMAIN values |-> NestedItem(map_entry, values[j], key_name)]])

\* The entries of a map that have a value.
Valued(root) ==
  LET entries == Entries(root) IN Kept(entries, {e \in Range(entries) : "value" \in DOMAIN e})

\* The members that the key of an entry becomes; key_names is an Option.
Keyed(entry, key_names) == [n \in IF "key" \in DOMAIN entry THEN key_names ELSE {} |-> entry.key]

\* mutant: the key of the map always wins.
FlattenOverwriting(root, key_names, overwrite_key) ==
  [i \in DOMAIN Valued(root) |->
     Over(Keyed(Valued(root)[i], key_names), Valued(root)[i].value)]

\* The values of a map as a list, the key wins over a member of its name if
\* overwrite_key.
flatten_map_values(root, key_names, overwrite_key) ==
  LET valued == Valued(root)
  IN  [i \in DOMAIN valued |->
         IF overwrite_key THEN Over(Keyed(valued[i], key_names), valued[i].value)
                          ELSE Over(valued[i].value, Keyed(valued[i], key_names))]

\* The list of a master that is a map, and the detail found in it.
map_list_body(root, key_field)  == flatten_map_values(root, {key_field}, FALSE)
map_detail(root, key_field, id) == find_entry([entries |-> map_list_body(root, key_field)], key_field, id)

suite_map_values(root, map_name, key_names) ==
  IF map_name \in DOMAIN root THEN flatten_map_values(root[map_name], key_names, TRUE) ELSE << >>

-----------------------------------------------------------------------------
(* transforms.rs: the views of the user's suite                            *)

\* GET user/areas and user/music-clear-info.
user_areas(root)            == suite_map_values(root, "userAreaItemMap", {})
user_music_clear_info(root) == suite_map_values(root, "userMusicClearInfoMap", {"difficulty"})

\* mutant: the key of the map wins over the id a score carries.
MusicScoresByKey(root, music_id) ==
  FlattenSeq([i \in DOMAIN Entries(Get(root, "userMusicScoreMap", Empty)) |->
    LET map    == Entries(Get(root, "userMusicScoreMap", Empty))[i]
        scores == Entries(Get(map, "value", Empty))
    IN  Kept(scores, {score \in Range(scores) :
                        Get(map, "key", Get(score, "musicId", Null)) = music_id})])

\* The scores of one song, by their own music id, else by the key around them.
music_scores(root, music_id) ==
  FlattenSeq([i \in DOMAIN Entries(Get(root, "userMusicScoreMap", Empty)) |->
    LET map == Entries(Get(root, "userMusicScoreMap", Empty))[i]
    IN  Having(Entries(Get(map, "value", Empty)), "musicId", Get(map, "key", Null), music_id)])

\* GET user/music-scores, user/music/{id}/scores and user/music/{id}/status.
user_music_scores(root) == flatten_nested_map_values(root, "userMusicScoreMap", "musicId")

user_music_scores_single(root, music_id) ==
  LET scores == music_scores(root, music_id)
  IN  [i \in DOMAIN scores |-> Over(scores[i], Member("musicId", music_id))]

suite_music_status_value(root, music_id, difficulty) ==
  LET rows   == Having(music_scores(root, music_id), "musicDifficulty", << >>, difficulty)
      score  == IF rows = << >> THEN Empty ELSE Last(rows)
      status == Get(score, "clearStatus", <<"not_cleared">>)
  IN  [musicId         |-> music_id,
       musicDifficulty |-> difficulty,
       played          |-> rows # << >>,
       clearStatus     |-> status,
       isCleared       |-> status \in {<<"cleared">>, <<"full_combo">>, <<"all_perfect">>},
       isFullCombo     |-> status \in {<<"full_combo">>, <<"all_perfect">>},
       isAllPerfect    |-> status = <<"all_perfect">>,
       soloHighScore   |-> Get(score, "soloHighScore", Null),
       maxCombo        |-> Get(score, "maxCombo", Null),
       soloScoreRank   |-> Get(score, "soloScoreRank", Null)]

\* GET user/character-mission-bonuses.
user_character_mission_bonuses(root) ==
  flatten_nested_map_values(root, "userCharacterMissionBonusMap", "characterId")

\* What the rank of a character is joined with: its potential level and its
\* bonuses, each from a map of its own.
CharacterExtras(root, key) ==
  LET potential == Having(Entries(Get(root, "userCharacterPotentialLevelMap", Empty)), "key", Null, key)
      bonuses   == Having(user_character_mission_bonuses(root), "characterId", Null, key)
  IN  Over(IF potential # << >> /\ "value" \in DOMAIN Head(potential)
           THEN Member("potentialLevel", Head(potential).value) ELSE Empty,
           IF bonuses # << >> THEN Member("characterMissionBonus", bonuses) ELSE Empty)

suite_character_rank_values(root) ==
  LET entries == Entries(Get(root, "userCharacterRankMap", Empty))
      ranked  == Kept(entries, {e \in Range(entries) : {"key", "value"} \subseteq DOMAIN e})
  IN  [i \in DOMAIN ranked |->
         Over(CharacterExtras(root, ranked[i].key),
              Over(Member("characterId", ranked[i].key), ranked[i].value))]

-----------------------------------------------------------------------------
(* models.rs: skills                                                       *)

\* mutant: the first row of a level is kept instead of the last.
InsertLevelOnce(grouped, row) ==
  LET id    == Get(row, "skillId", 0)
      level == Get(row, "skillLevel", 0)
  IN  IF id <= 0 \/ level <= 0 THEN grouped
      ELSE Over(Member(id, Over(Get(grouped, id, Empty), Member(level, row))), grouped)

InsertLevel(grouped, row) ==
  LET id    == Get(row, "skillId", 0)
      level == Get(row, "skillLevel", 0)
  IN  IF id <= 0 \/ level <= 0 THEN grouped
      ELSE Over(Member(id, Over(Member(level, row), Get(grouped, id, Empty))), grouped)

SkillInfo(skill_id, levels) ==
  LET order == Ascending(DOMAIN levels)
      Highest(name) ==     \* of the highest level where it is not empty
        LET told == {i \in DOMAIN order : Get(levels[order[i]], name, << >>) # << >>}
        IN  IF told = {} THEN << >> ELSE levels[order[Max(told)]][name]
  IN  [skillId           |-> skill_id,
       skillType         |-> Highest("skillType"),
       simpleDescription |-> Highest("skillName"),
       levels            |-> [i \in DOMAIN order |->
         [skillLevel  |-> order[i],
          duration    |-> Get(levels[order[i]], "effectValue", Null),
          description |-> Get(levels[order[i]], "description", << >>)]]]

\* The rows by id and level.
Grouped(rows) ==
  LET grouped[n \in 0 .. Len(rows)] ==
        IF n = 0 THEN Empty ELSE InsertLevel(grouped[n - 1], rows[n])
  IN  grouped[Len(rows)]

skill_list(root) ==
  LET grouped == Grouped(Entries(root))
      order   == Ascending(DOMAIN grouped)
  IN  [i \in DOMAIN order |-> SkillInfo(order[i], grouped[order[i]])]

-----------------------------------------------------------------------------
(* models.rs: rankings                                                     *)

Trained(card) == IF Get(card, "illust", << >>) = <<"after_training">> THEN 1 ELSE 0

\* mutant: the flag is always that of the profile's illustration.
DisplayCardOfProfile(v) ==
  LET profile == Get(v, "userProfileSituation", Empty)
      leader  == Get(Get(v, "userDeck", Empty), "leader", 0)
  IN  [sid      |-> IF Get(profile, "viewProfileSituationStatus", << >>) = <<"profile_situation">>
                    THEN Get(profile, "situationId", 0)
                    ELSE IF leader > 0 THEN leader ELSE 1,
       strained |-> Trained(profile)]

\* The card shown with a user and whether in its trained illustration.
DisplayCard(v) ==
  LET profile == Get(v, "userProfileSituation", Empty)
      leader  == Get(Get(v, "userDeck", Empty), "leader", 0)
      cards   == Having(Entries(Get(v, "userSituationList", Empty)), "situationId", 0, leader)
  IN  IF Get(profile, "viewProfileSituationStatus", << >>) = <<"profile_situation">>
      THEN [sid |-> Get(profile, "situationId", 0), strained |-> Trained(profile)]
      ELSE IF leader > 0
      THEN [sid |-> leader, strained |-> IF cards # << >> THEN Trained(Head(cards)) ELSE 0]
      ELSE [sid |-> 1, strained |-> 0]

parse_user(v) ==
  LET degreeEntries == Entries(Get(v, "userProfileDegreeMap", Empty))
      card          == DisplayCard(v)
  IN  [uid          |-> Get(v, "userId", 0),
       name         |-> Get(v, "name", << >>),
       introduction |-> Get(v, "introduction", << >>),
       rank         |-> Get(v, "rankLevel", 0),
       tier         |-> Get(v, "rank", 0),
       point        |-> Get(v, "point", 0),
       degrees      |-> [i \in DOMAIN degreeEntries |->
                           Get(Get(degreeEntries[i], "value", Empty), "degreeId", 0)],
       sid          |-> card.sid,
       strained     |-> card.strained]

\* The users of a container of the message, none if it is not there.
build_users(root, container) ==
  LET users == Entries(Get(root, container, Empty))
  IN  [i \in DOMAIN users |-> parse_user(users[i])]

monthly_ranking_report(root) ==
  [name \in {"monthlyRankingPointNearUsers", "monthlyRankingPointTopUsers",
             "monthlyRankingPointBorderUsers"} |-> build_users(root, name)]

build_music_rankings(root, name) ==
  [i \in DOMAIN Get(root, name, << >>) |->
     [musicId          |-> Get(root[name][i], "musicId", 0),
      scoreTopUsers    |-> build_users(root[name][i], "scoreTopUsers"),
      scoreBorderUsers |-> build_users(root[name][i], "scoreBorderUsers")]]

\* mutant: mission_live falls into the arm of the other types.
BorderOfMostTypes(event_type) == "eventPointBorderUsers"

\* The containers of event points by event type; a story event has no border.
TopContainer(event_type) ==
  IF event_type \in {"medley", "challenge", "versus"} THEN "eventPointTopUsers" ELSE "topUsers"

BorderContainer(event_type) ==
  IF event_type = "mission_live" THEN "borderUsers" ELSE "eventPointBorderUsers"

MusicRankings(root, event_type) ==
  CASE event_type = "medley" ->
         <<[musicId          |-> 1,
            scoreTopUsers    |-> build_users(root, "scoreTopUsers"),
            scoreBorderUsers |-> build_users(root, "scoreBorderUsers")]>>
    [] event_type = "challenge" -> build_music_rankings(root, "challengeMusicRankings")
    [] event_type = "versus"    -> build_music_rankings(root, "versusMusicRankings")
    [] OTHER                    -> << >>

event_ranking_report(root, event_type) ==
  [eventType             |-> event_type,
   eventPointTopUsers    |-> build_users(root, TopContainer(event_type)),
   eventPointBorderUsers |-> IF event_type = "story" THEN << >>
                             ELSE build_users(root, BorderContainer(event_type)),
   musicRankings         |-> MusicRankings(root, event_type)]

-----------------------------------------------------------------------------
(* models.rs: the typed rows of the masters.  A model is the members of a *)
(* row with their types.                                                   *)

Members(kind, names) == [name : names, kind : {kind}]
Rows(name, model)    == {[name |-> name, kind |-> "list", of |-> model]}

Reward == Members("int", {"id", "rewardId", "rewardQuantity"}) \cup Members("string", {"rewardType"})

EventPointReward ==
  Reward \cup Members("int", {"eventId", "point"}) \cup Members("bool", {"recommendFlg"})
EventRankingReward ==
  Reward \cup Members("int", {"eventId", "fromRank", "toRank"}) \cup Members("bool", {"recommendFlg"})

\* mutant: a member is misspelt.
PeriodMisspelt ==
  Members("string", {"assetBundleName", "bgmAssetBundleName", "bgmFileName"}) \cup
  Members("bool", {"enableFlg"}) \cup
  Members("int", {"startAt", "endAt", "publicStartAt", "publicEndAt", "distributionStartAt",
                  "distributionEndAt", "receptionEndAt", "aggregatedEndAt"})

\* What both masters have: names, bundles, flags and instants.
Period ==
  Members("string", {"assetBundleName", "bgmAssetBundleName", "bgmFileName"}) \cup
  Members("bool", {"enableFlg"}) \cup
  Members("int", {"startAt", "endAt", "publicStartAt", "publicEndAt", "distributionStartAt",
                  "distributionEndAt", "receptionEndAt", "aggregateEndAt"})

EventInfo ==
  Period \cup Members("string", {"eventType", "eventName"})
         \cup Members("int", {"eventId", "eventExchangesEndAt", "previousEventId"})
         \cup Rows("pointRewards", EventPointReward) \cup Rows("rankingRewards", EventRankingReward)

MonthlyRankingReward ==
  Reward \cup Members("int", {"monthlyRankingId", "fromRank", "toRank"})
MonthlyRankingGrade ==
  Reward \cup Members("int", {"monthlyRankingId", "pt"}) \cup Members("string", {"gradeAheadType"})
         \cup Members("bool", {"rankingThresholdFlg"})

MonthlyRankingInfo ==
  Period \cup Members("string", {"monthlyRankingName"}) \cup Members("int", {"monthlyRankingId"})
         \cup Rows("rewards", MonthlyRankingReward) \cup Rows("grades", MonthlyRankingGrade)

\* The type of a member, and the value it has where the row lacks it.
MemberOf(model, name) == CHOOSE member \in model : member.name = name

Default(kind) ==
  CASE kind = "int"    -> 0
    [] kind = "string" -> << >>
    [] kind = "bool"   -> FALSE
    [] kind = "list"   -> << >>

\* A row without lists, as parse_point_rewards and its like make it.
TypedRow(row, model) ==
  [name \in {member.name : member \in model} |->
     Get(row, name, Default(MemberOf(model, name).kind))]

Typed(row, model) ==
  [name \in {member.name : member \in model} |->
     LET member == MemberOf(model, name)
         value  == Get(row, name, Default(member.kind))
     IN  IF member.kind # "list" THEN value
         ELSE [i \in DOMAIN value |-> TypedRow(value[i], member.of)]]

TypedList(root, model) ==
  [i \in DOMAIN Entries(root) |-> Typed(Entries(root)[i], model)]

event_list(root)           == TypedList(root, EventInfo)
monthly_ranking_list(root) == TypedList(root, MonthlyRankingInfo)

=============================================================================
