------------------------------ MODULE Response ------------------------------
(***************************************************************************)
(* From the game server's reply to the answer: client/mod.rs 112-186 and   *)
(* 318-323 (fetch_raw, expect_success, decode_response_body,               *)
(* decompress_bzip2), crypto.rs, error.rs, and the decoding in             *)
(* handlers.rs cached_json.  The game writes a message, compresses it if   *)
(* it says so, fills the last block with zeros and encrypts; the transfer  *)
(* may end early.  What the game does, AES and bzip2 are external.         *)
(***************************************************************************)
EXTENDS Views

CONSTANTS
  Replies,    \* what the game may send: a kind, a message and the bytes it is
  Fragile,    \* those whose transfer also goes wrong: a bound
  Headers,    \* the X-Encoding headers of the fragile ones
  Statuses,   \* the HTTP statuses of the fragile ones
  Block       \* bytes of a cipher block: 16 in the code

ASSUME BlockAssumption == Block \in Nat \ {0}

VARIABLES
  stage,      \* how far the call is
  reply,      \* what the game sent, and whether all of it arrived
  raw,        \* FetchRaw; the body becomes plaintext, then a message
  root,       \* the decoded message
  outcome     \* the HTTP status the client gets; 0 while there is none

vars == <<stage, reply, raw, root, outcome>>

\* The descriptor each kind of reply is decoded with.
SchemaOf == Over(EVENT_TYPE_SCHEMAS,
  [skills          |-> ListOf(SKILL_SCHEMA),
   suite           |-> SUITE_USER_RESPONSE_SCHEMA,
   monthly_ranking |-> USER_MONTHLY_RANKING_RANKING_RESPONSE_SCHEMA,
   monthly         |-> ListOf(MASTER_MONTHLY_RANKING_SCHEMA),
   degrees         |-> MapOf(IntKey, DEGREE_SCHEMA),
   events          |-> ListOf(MASTER_EVENT_SCHEMA)])

\* Nothing is assumed of the bytes: the game may send any.
ASSUME RepliesAssumption ==
  /\ \A kind \in DOMAIN SchemaOf : SchemaOf[kind] \in Descriptors
  /\ \A r \in Replies \cup Fragile : r.kind \in DOMAIN SchemaOf /\ r.bytes \in Seq(Byte)

-----------------------------------------------------------------------------
(* The game server and its libraries                                       *)

Sealed(bytes)   == [i \in DOMAIN bytes |-> [sealed |-> bytes[i]]]
Unsealed(body)  == [i \in DOMAIN body |-> body[i].sealed]

Padded(bytes) == bytes \o [i \in 1 .. (-Len(bytes)) % Block |-> 0]

\* A bzip2 stream knows where it ends; what follows it is not read.
Compressed(bytes)    == <<Len(bytes)>> \o bytes
Decompressed(stream) ==
  IF Len(stream) > Head(stream) THEN {SubSeq(stream, 2, Head(stream) + 1)} ELSE {}

\* The header as fetch_raw reads it: no text is no header, and neither is a
\* blank one; the rest is trimmed and in lower case.
Encoding(header) ==
  CASE header \in {"absent", "blank", "no text"} -> "none"
    [] header \in {"bzip2", " BZip2 "}           -> "bzip2"
    [] OTHER                                     -> header

\* The body of a reply; the game compresses what it says it has compressed.
BodyOf(r, header) ==
  Sealed(Padded(IF Encoding(header) = "bzip2" THEN Compressed(r.bytes) ELSE r.bytes))

Received(r, header, status, kept) ==
  LET body == BodyOf(r, header)
  IN  /\ reply' = [kind |-> r.kind, nodes |-> r.nodes, whole |-> kept = Len(body)]
      /\ raw' = [status |-> status, encoding |-> Encoding(header), body |-> SubSeq(body, 1, kept)]

-----------------------------------------------------------------------------
Nothing == [status |-> 0, encoding |-> "none", body |-> << >>]

NoReply == [kind |-> "skills", nodes |-> << >>, whole |-> TRUE]

Init == stage = "idle" /\ outcome = 0 /\ raw = Nothing /\ root = Empty /\ reply = NoReply

Start == stage = "idle" /\ stage' = "received" /\ UNCHANGED <<root, outcome>>

\* The whole reply arrives.
Arrives ==
  /\ Start
  /\ \E r \in Replies : \E header \in {"absent", "bzip2"} :
       Received(r, header, 200, Len(BodyOf(r, header)))

\* As the last action, with any header and status.
ArrivesOddly ==
  /\ Start
  /\ \E r \in Fragile, header \in Headers, status \in Statuses :
       Received(r, header, status, Len(BodyOf(r, header)))

\* The connection closes early and nothing told the length of the body.
ArrivesTorn ==
  /\ Start
  /\ \E r \in Fragile, header \in Headers : \E kept \in 0 .. Len(BodyOf(r, header)) - 1 :
       Received(r, header, 200, kept)

\* The answer of an AppError: error.rs.
Fail(status) ==
  /\ stage' = "answered"
  /\ outcome' = status
  /\ raw' = Nothing
  /\ UNCHANGED <<reply, root>>

\* send() fails, times out, or the body ends before its announced length.
Breaks ==
  /\ stage = "idle"
  /\ stage' = "answered"
  /\ outcome' = 502
  /\ \E r \in Fragile : reply' = [kind |-> r.kind, nodes |-> r.nodes, whole |-> FALSE]
  /\ UNCHANGED <<raw, root>>

\* expect_success: a status that is not 2xx is AppError::Upstream.
Refused == stage = "received" /\ raw.status \notin 200 .. 299 /\ Fail(502)

\* The length check and the block cipher of decrypt_aes_128_cbc.
Undecryptable ==
  /\ stage = "received" /\ raw.status \in 200 .. 299
  /\ Len(raw.body) = 0 \/ Len(raw.body) % Block # 0
  /\ Fail(500)

Decrypt ==
  /\ stage = "received" /\ raw.status \in 200 .. 299
  /\ Len(raw.body) > 0 /\ Len(raw.body) % Block = 0
  /\ stage' = "decrypted"
  /\ raw' = [raw EXCEPT !.body = Unsealed(@)]
  /\ UNCHANGED <<reply, root, outcome>>

\* The match on the encoding.
TakePlain ==
  /\ stage = "decrypted" /\ raw.encoding = "none"
  /\ stage' = "plain"
  /\ UNCHANGED <<reply, raw, root, outcome>>

Decompress ==
  /\ stage = "decrypted" /\ raw.encoding = "bzip2"
  /\ IF Decompressed(raw.body) = {} THEN Fail(500)
     ELSE /\ stage' = "plain"
          /\ \E message \in Decompressed(raw.body) : raw' = [raw EXCEPT !.body = message]
          /\ UNCHANGED <<reply, root, outcome>>

Unsupported == stage = "decrypted" /\ raw.encoding \notin {"none", "bzip2"} /\ Fail(502)

\* decode, which never fails; every view is then taken from the root.
DecodeReply ==
  /\ stage = "plain"
  /\ stage' = "answered"
  /\ root' = Decode(raw.body, SchemaOf[reply.kind])
  /\ outcome' = 200
  /\ raw' = Nothing
  /\ UNCHANGED reply

\* The answer is sent and the next call begins with nothing of this one.
Done ==
  /\ stage = "answered"
  /\ stage' = "idle" /\ outcome' = 0 /\ raw' = Nothing /\ root' = Empty /\ reply' = NoReply

Next ==
  \/ Arrives \/ ArrivesOddly \/ ArrivesTorn \/ Breaks
  \/ Refused \/ Undecryptable \/ Decrypt \/ TakePlain \/ Decompress \/ Unsupported
  \/ DecodeReply \/ Done

Spec == Init /\ [][Next]_vars

-----------------------------------------------------------------------------
Answered == stage = "answered" /\ outcome = 200

-----------------------------------------------------------------------------
(* The views of one suite snapshot                                         *)

MUSIC_DIFFICULTIES == {<<"easy">>, <<"normal">>, <<"hard">>, <<"expert">>, <<"special">>}

\* The list of all scores, the list of one song and the status of one chart
\* are taken from the snapshot along two code paths (transforms.rs 61-88 and
\* 103-146); whoever asks all three is told the same scores, and the status
\* is that of the last score listed for the chart.
ScoresAgree ==
  Answered /\ reply.kind = "suite" =>
    LET listed == user_music_scores(root)
        ids    == {s.musicId : s \in {t \in Range(listed) : "musicId" \in DOMAIN t}} \cup {Limit}
        Of(id) == Having(listed, "musicId", Null, id)
        On(id, d) == Having(Of(id), "musicDifficulty", << >>, d)
    IN  \A id \in ids :
          /\ user_music_scores_single(root, id) = Of(id)
          /\ \A d \in MUSIC_DIFFICULTIES :
               LET status == suite_music_status_value(root, id, d)
               IN  /\ status.played = (On(id, d) # << >>)
                   /\ status.played =>
                        /\ status.clearStatus = Get(Last(On(id, d)), "clearStatus", <<"not_cleared">>)
                        /\ status.soloHighScore = Get(Last(On(id, d)), "soloHighScore", Null)

\* How often a list, or what a function gives, has the value; two that agree
\* in that are the same but for the order.
Times(value, f) == Cardinality({x \in DOMAIN f : f[x] = value})
SameElements(f, g) == \A value \in Range(f) \cup Range(g) : Times(value, f) = Times(value, g)

\* Every mission bonus of the snapshot is in the list of all bonuses, as often
\* as it was sent and with the id of its character: the one it carries, or else
\* the key of its map; one that has neither is there without.  Every rank with
\* a key and a value is one row, and shows all the bonuses of its character,
\* each as often as it was sent, no other bonus, and the potential level of the
\* first entry for the character, if and only if that has one.
\* transforms.rs 61-88 and 150-196.
BonusesReachTheirCharacter ==
  Answered /\ reply.kind = "suite" =>
    LET map      == Entries(Get(root, "userCharacterMissionBonusMap", Empty))
        ranks    == Entries(Get(root, "userCharacterRankMap", Empty))
        levels   == Entries(Get(root, "userCharacterPotentialLevelMap", Empty))
        rows     == suite_character_rank_values(root)
        Items(i) == Entries(Get(map[i], "value", Empty))
        Sent     == UNION {{<<i, j>> : j \in DOMAIN Items(i)} : i \in DOMAIN map}
        Owner(p) == Get(Items(p[1])[p[2]], "characterId", Get(map[p[1]], "key", Null))
        Bonus(p) == IF Owner(p) = Null THEN Items(p[1])[p[2]]
                    ELSE Over(Items(p[1])[p[2]], Member("characterId", Owner(p)))
        Ranked   == {i \in DOMAIN ranks : {"key", "value"} \subseteq DOMAIN ranks[i]}
    IN  /\ SameElements(user_character_mission_bonuses(root), [p \in Sent |-> Bonus(p)])
        /\ SameElements([i \in DOMAIN rows |-> rows[i].characterId], [i \in Ranked |-> ranks[i].key])
        /\ \A row \in Range(rows) :
             LET due == {p \in Sent : Owner(p) = row.characterId}
                 own == {i \in DOMAIN levels : Get(levels[i], "key", Null) = row.characterId}
             IN  /\ SameElements(Get(row, "characterMissionBonus", << >>), [p \in due |-> Bonus(p)])
                 /\ Get(row, "potentialLevel", Null) =
                    IF own = {} THEN Null ELSE Get(levels[Min(own)], "value", Null)

-----------------------------------------------------------------------------
(* Skills, rankings and masters                                            *)

\* The normalized skills are the valid rows of the raw list, each pair of id
\* and level once and as in its last row, in ascending order; the texts of a
\* skill are those of its highest level that has any.  models.rs 56-116 and
\* docs/api.md 149-151.
SkillsFollowRows ==
  Answered /\ reply.kind = "skills" =>
    LET rows    == Entries(root)
        skills  == skill_list(root)
        Pair(i) == <<Get(rows[i], "skillId", 0), Get(rows[i], "skillLevel", 0)>>
        valid   == {i \in DOMAIN rows : Pair(i)[1] > 0 /\ Pair(i)[2] > 0}
        LastRow(id, level) == rows[Max({i \in valid : Pair(i) = <<id, level>>})]
        Text(s, l, name)   == Get(LastRow(s.skillId, l.skillLevel), name, << >>)
        OfHighest(s, name, text) ==
          \A i \in DOMAIN s.levels :
            (\A j \in i + 1 .. Len(s.levels) : Text(s, s.levels[j], name) = << >>) =>
              Text(s, s.levels[i], name) \in {<< >>, text}
        TextOfNone(s, name, text) ==
          (\A l \in Range(s.levels) : Text(s, l, name) = << >>) => text = << >>
    IN  /\ \A i, j \in DOMAIN skills : i < j => skills[i].skillId < skills[j].skillId
        /\ UNION {{<<s.skillId, l.skillLevel>> : l \in Range(s.levels)} : s \in Range(skills)}
             = {Pair(i) : i \in valid}
        /\ \A s \in Range(skills) :
             /\ \A i, j \in DOMAIN s.levels : i < j => s.levels[i].skillLevel < s.levels[j].skillLevel
             /\ \A l \in Range(s.levels) :
                  /\ l.duration = Get(LastRow(s.skillId, l.skillLevel), "effectValue", Null)
                  /\ l.description = Text(s, l, "description")
             /\ OfHighest(s, "skillName", s.simpleDescription)
             /\ OfHighest(s, "skillType", s.skillType)
             /\ TextOfNone(s, "skillName", s.simpleDescription)
             /\ TextOfNone(s, "skillType", s.skillType)

Uids(users)      == {u.uid : u \in Range(users)}
SentIn(m, names) == UNION {{Get(u, "userId", 0) : u \in Range(Entries(m[n]))} : n \in names \cap DOMAIN m}

\* The rankings of single songs in an event reply; those of a medley are in
\* the reply itself.
SentRankings(m) ==
  {m} \cup UNION {Range(m[n]) : n \in {"challengeMusicRankings", "versusMusicRankings"} \cap DOMAIN m}

\* Whatever the type of the event, every top or border user of the reply is in
\* the report, in the list of that name: the containers models.rs 377-403
\* looks for are those that the descriptors in garupa_schema.rs 213-338 name.
\* Only an event's users near the player are left out.
NoRankedUserLost ==
  /\ Answered /\ reply.kind \in DOMAIN EVENT_TYPE_SCHEMAS =>
       LET report   == event_ranking_report(root, reply.kind)
           rankings == Range(report.musicRankings)
       IN  /\ Uids(report.eventPointTopUsers) = SentIn(root, {"eventPointTopUsers", "topUsers"})
           /\ Uids(report.eventPointBorderUsers)
                = SentIn(root, {"eventPointBorderUsers", "borderUsers"})
           /\ UNION {Uids(r.scoreTopUsers) : r \in rankings}
                = UNION {SentIn(m, {"scoreTopUsers"}) : m \in SentRankings(root)}
           /\ UNION {Uids(r.scoreBorderUsers) : r \in rankings}
                = UNION {SentIn(m, {"scoreBorderUsers"}) : m \in SentRankings(root)}
  /\ Answered /\ reply.kind = "monthly_ranking" =>
       \A name \in {f.name : f \in Range(SchemaOf["monthly_ranking"])} :
         Uids(monthly_ranking_report(root)[name]) = SentIn(root, {name})

\* A user is shown with a trained card only if the card shown is that of the
\* profile or of the deck and is trained there.  models.rs 155-176.
TrainedFlagIsOfShownCard ==
  Answered /\ reply.kind = "monthly_ranking" =>
    \A name \in DOMAIN root : \A v \in Range(Entries(root[name])) :
      parse_user(v).strained = 1 =>
        \E card \in {Get(v, "userProfileSituation", Empty)}
                     \cup Range(Entries(Get(v, "userSituationList", Empty))) :
          Trained(card) = 1 /\ Get(card, "situationId", 0) = parse_user(v).sid

\* A typed row against the row it was made of.
SameRow(row, info, schema) ==
  /\ DOMAIN info = {f.name : f \in Range(schema)}
  /\ \A f \in Range(schema) : f.name \in DOMAIN row =>
       IF f.type.kind # "message" THEN info[f.name] = row[f.name]
       ELSE /\ Len(info[f.name]) = Len(row[f.name])
            /\ \A i \in DOMAIN row[f.name] :
                 /\ DOMAIN info[f.name][i] = {g.name : g \in Range(f.type.of)}
                 /\ \A n \in DOMAIN row[f.name][i] : info[f.name][i][n] = row[f.name][i][n]

\* Every member the descriptor of a master has is answered, under its name and
\* with its value, nested rows included: models.rs 231-340 and 409-524 against
\* garupa_schema.rs 158-207 and 344-399.
RowsAreWhole ==
  /\ Answered /\ reply.kind = "events" =>
       \A i \in DOMAIN Entries(root) :
         SameRow(Entries(root)[i], event_list(root)[i], MASTER_EVENT_SCHEMA)
  /\ Answered /\ reply.kind = "monthly" =>
       \A i \in DOMAIN Entries(root) :
         SameRow(Entries(root)[i], monthly_ranking_list(root)[i], MASTER_MONTHLY_RANKING_SCHEMA)

\* The list made of a map has one row per entry that has a value, in order and
\* unchanged but for the member that names it: in a master the id the row
\* carries, else its key, so that the row is "self-contained for clients"
\* (transforms.rs 23-25) and its detail is found by that id; in the counts of
\* cleared songs the key.  An area item is not named at all: user_areas passes
\* no key_name (handlers.rs 845), and the row is exactly what was filed.
\* transforms.rs 26-57, handlers.rs 171-180, 195-224 and 842-846.
MapRowsAreKept ==
  LET Same(filed, listed, id, Named(_)) ==
        /\ Len(listed) = Len(filed)
        /\ \A i \in DOMAIN listed :
             /\ Get(listed[i], id, Null) = Named(filed[i])
             /\ DOMAIN listed[i] \ {id} = DOMAIN filed[i].value \ {id}
             /\ \A n \in DOMAIN listed[i] \ {id} : listed[i][n] = filed[i].value[n]
  IN  /\ Answered /\ reply.kind = "degrees" =>
           LET listed == map_list_body(root, "degreeId")
           IN  /\ Same(Valued(root), listed, "degreeId",
                       LAMBDA e : Get(e.value, "degreeId", Get(e, "key", Null)))
               /\ \A row \in Range(listed) : "degreeId" \in DOMAIN row =>
                    \E found \in map_detail(root, "degreeId", row.degreeId) :
                      found.degreeId = row.degreeId
      /\ Answered /\ reply.kind = "suite" =>
           LET items  == Valued(Get(root, "userAreaItemMap", Empty))
               counts == Get(root, "userMusicClearInfoMap", Empty)
           IN  /\ Len(user_areas(root)) = Len(items)
               /\ \A i \in DOMAIN items : user_areas(root)[i] = items[i].value
               /\ Same(Valued(counts), user_music_clear_info(root), "difficulty",
                       LAMBDA e : Get(e, "key", Null))

=============================================================================
