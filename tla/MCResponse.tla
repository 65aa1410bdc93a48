----------------------------- MODULE MCResponse -----------------------------
(* The messages the game sends in the run of Response.                     *)
EXTENDS Meaning

MCWords == <<"after_training", "profile_situation", "hard", "expert", "cleared",
             "full_combo", "all_perfect", "a", "b", "c">>
ByteOf(word) == CHOOSE b \in DOMAIN Words : Words[b] = word

Bytes(number, kind, bytes) == Node(number, kind, 0, bytes, << >>)
N(number, int)   == Node(number, "varint", int, << >>, << >>)
S(number, word)  == Bytes(number, "string", <<ByteOf(word)>>)
F(number, byte)  == Bytes(number, "fixed32", <<byte>>)
M(number, nodes) == Node(number, "message", 0, Write(nodes), nodes)

Sent(kind, messages) == {[kind |-> kind, nodes |-> nodes, bytes |-> Write(nodes)] : nodes \in messages}
AsList(lists) == {[i \in DOMAIN rows |-> M(1, rows[i])] : rows \in lists}

-----------------------------------------------------------------------------
(* Skills: rows that compete for a level, lack an id or have a bad one.    *)
SkillRows == {
  <<N(1, 1), N(2, 1), F(3, 3), S(4, "a"), S(5, "a"), S(6, "a")>>,
  <<N(1, 1), N(2, 2), S(5, "b")>>,
  <<N(1, 1), N(2, 2), F(3, NaNByte), S(4, "b")>>,
  <<N(1, 2), N(2, 1), S(4, "c"), Bytes(6, "string", << >>)>>,
  <<N(1, 1), N(2, Limit - 1), S(4, "c")>>,
  <<N(2, 1), S(4, "c"), S(6, "c")>> }
Skills == AsList(BoundedSeq(SkillRows, 3))

(* One row with any two or three oddities: sign and size boundaries, wrong *)
(* kinds, unknown fields, values that are none, a malformed field.         *)
Odd == {
  N(1, 1), N(1, Limit \div 2 - 1), N(1, Limit \div 2), N(1, Limit - 1), N(1, Limit),
  S(1, "a"), F(3, 3), F(3, NaNByte), N(3, 1), S(4, "a"), Bytes(4, "string", << >>),
  Bytes(4, "string", <<63, 2>>), F(4, 1), Bytes(9, "fixed64", <<8, 8>>), N(9, 1),
  N(TagLimit - 1, 1), N(TagLimit, 1), Bytes(1, "group", << >>), Bytes(1, "fixed64", <<1, 1>>) }
OddRows == {<<M(1, row)>> : row \in BoundedSeq(Odd, 2)}
  \cup {<<M(1, <<N(1, 2)>>), odd, M(1, <<N(1, 1)>>)>> : odd \in (Odd \ {S(1, "a")}) \cup {F(1, 1)}}

-----------------------------------------------------------------------------
(* Suites: scores and characters, with and without ids and keys.           *)
Key == {<< >>, <<N(1, 1)>>}
Scores == {
  <<S(3, "hard"), N(4, 5), S(7, "cleared")>>,
  <<N(2, 1), S(3, "hard"), S(7, "all_perfect")>>,
  <<N(2, 2), S(3, "expert"), N(4, 6), S(6, "a"), S(7, "full_combo")>> }
ScoreEntries == {<<M(1, key \o <<M(2, list)>>)>> : key \in Key, list \in AsList(BoundedSeq(Scores, 2))}
ScoreMaps == ScoreEntries \cup {e \o f : e, f \in ScoreEntries} \cup {<<M(1, <<N(1, 1)>>)>>}

Rank(key, level) == <<M(1, <<N(1, key), M(2, <<N(1, level)>>)>>)>>
RankMaps == {Rank(1, 5), Rank(1, 5) \o Rank(2, 6), Rank(2, 5) \o <<M(1, <<N(1, 1)>>)>>,
             <<M(1, <<M(2, <<N(1, 7)>>)>>)>> \o Rank(2, 8)}
PotentialMaps == {<< >>, Rank(1, 3), Rank(2, 3) \o Rank(1, 4), Rank(1, 3) \o Rank(1, 4),
                  <<M(1, <<N(1, 1)>>)>> \o Rank(1, 4)}
Bonuses == {<<F(3, 1)>>, <<N(1, 1), F(3, 2)>>, <<N(1, 2), S(2, "a"), F(4, 3)>>}
BonusEntries == {<<M(1, key \o <<M(2, list)>>)>> : key \in Key, list \in AsList(BoundedSeq(Bonuses, 2))}
Bonus(key) == {<<M(1, key \o <<M(2, list)>>)>> : list \in AsList(BoundedSeq(Bonuses, 1))}

FiledAreas  == {<<N(1, 2), M(2, <<N(2, 3), N(4, 5)>>)>>, <<N(1, 2)>>, <<M(2, << >>)>>}
FiledCounts == {<<S(1, "hard"), M(2, <<N(1, 9), N(3, 8)>>)>>, <<S(1, "expert"), M(2, << >>)>>,
                <<S(1, "hard")>>, <<M(2, <<N(2, 7)>>)>>}

Suites == {<<M(54, scores)>> : scores \in ScoreMaps}
  \cup {<<M(400, ranks), M(401, levels), M(456, bonuses)>> :
          ranks \in RankMaps, levels \in PotentialMaps, bonuses \in BonusEntries}
  \cup {<<M(400, Rank(1, 5) \o Rank(2, 6) \o Rank(1, 7)), M(456, one \o other)>> :
          one \in Bonus(<<N(1, 1)>>), other \in Bonus(<<N(1, 2)>>) \cup Bonus(<<N(1, 1)>>)}
  \cup {<<M(22, <<M(1, item)>> \o Rank(1, 1)), M(409, <<M(1, count), M(1, other)>>)>> :
          item \in FiledAreas, count \in FiledCounts, other \in FiledCounts}

-----------------------------------------------------------------------------
(* Rankings: each container alone and all at once, with users of their own;*)
(* users whose card comes from the profile, the deck or nowhere.           *)
User(uid) == <<S(1, "a"), N(3, 9), N(5, 1), N(6, 100), N(7, uid)>>
Card(id, words) == <<N(2, id)>> \o words
Cards == {
  << >>,
  <<M(9, <<N(3, 2)>>)>>,
  <<M(9, <<N(3, 2)>>), M(10, <<M(1, Card(2, <<S(9, "after_training")>>))>>)>>,
  <<M(9, <<N(3, 2)>>), M(10, <<M(1, Card(3, <<S(9, "after_training")>>)), M(1, Card(2, << >>))>>)>>,
  <<M(9, <<N(3, 2)>>), M(11, Card(4, <<S(3, "after_training")>>))>>,
  <<M(11, Card(4, <<S(3, "after_training"), S(4, "profile_situation")>>))>>,
  <<M(11, <<S(3, "a"), S(4, "profile_situation")>>),
    M(12, <<M(1, <<S(1, "a"), M(2, <<N(3, 7)>>)>>), M(1, <<S(1, "b")>>)>>)>> }

Container(number, uid) == M(number, <<M(1, User(uid))>>)
Ranking(schema, uid) ==     \* every container, and one song, of a descriptor
  [i \in DOMAIN schema |->
     IF schema[i].repeated
     THEN M(schema[i].number, <<N(1, 2), Container(2, uid + 20), Container(3, uid + 21),
                                Container(4, uid + 22)>>)
     ELSE Container(schema[i].number, uid + i)]
EventRankings(schema) ==
  LET full == Ranking(schema, 1)
  IN  {full, << >>} \cup {<<node>> : node \in Range(full)} \cup {full \o <<node>> : node \in Range(full)}
MonthlyRankings ==
  {<<M(number, <<M(1, User(1) \o card), M(1, User(2) \o other)>>)>> :
     number \in 1 .. 3, card \in Cards, other \in Cards}
  \cup {Ranking(SchemaOf["monthly_ranking"], 1)}

-----------------------------------------------------------------------------
(* Masters: a row with every member, each value telling its field, and rows*)
(* that lack one member.                                                   *)
Filled(field) ==
  CASE field.type.kind = "int"    -> N(field.number, field.number + 1)
    [] field.type.kind = "bool"   -> N(field.number, 1)
    [] field.type.kind = "string" -> S(field.number, "a")
Row(schema) ==
  [i \in DOMAIN schema |->
     IF schema[i].type.kind = "message"
     THEN M(schema[i].number, [j \in DOMAIN schema[i].type.of |-> Filled(schema[i].type.of[j])])
     ELSE Filled(schema[i])]
Masters(schema) ==
  LET row == Row(schema)
      partial == {RemoveAt(row, i) : i \in DOMAIN row} \cup {row \o <<Last(row)>>}
  IN  AsList({<<row>>} \cup {<<p>> : p \in partial} \cup {<<p, row>> : p \in partial})

(* Degrees, with and without ids, keys and values.                         *)
DegreeEntries == {<<N(1, 4), M(2, <<S(5, "a")>>)>>, <<N(1, 4), M(2, <<N(1, 5), S(5, "b")>>)>>,
                  <<M(2, <<N(1, 4), S(4, "c")>>)>>, <<M(2, << >>)>>, <<N(1, 4)>>}

-----------------------------------------------------------------------------
FragileLists == {
  << >>,
  <<M(1, <<N(1, 1), N(2, 1), S(4, "a")>>), M(1, <<N(1, 1), N(2, 2), F(3, 3), S(4, "b")>>),
    M(1, <<N(1, Limit - 1), S(5, "c")>>)>>,
  <<M(1, <<N(1, 1)>>), Bytes(9, "fixed64", <<1, 2>>), M(1, <<N(2, 300)>>), N(1, 5)>> }
MCFragile == Sent("skills", FragileLists)

\* The messages of each kind of reply.
Contents(kind) ==
  CASE kind = "skills"          -> FragileLists \cup Skills \cup OddRows
    [] kind = "suite"           -> Suites
    [] kind = "degrees"         -> AsList(BoundedSeq(DegreeEntries, 2))
    [] kind = "monthly_ranking" -> MonthlyRankings
    [] kind = "events"          -> Masters(MASTER_EVENT_SCHEMA)
    [] kind = "monthly"         -> Masters(MASTER_MONTHLY_RANKING_SCHEMA)
    [] OTHER                    -> EventRankings(EVENT_TYPE_SCHEMAS[kind])
MCReplies == UNION {Sent(kind, Contents(kind)) : kind \in DOMAIN SchemaOf}

RECURSIVE Reachable(_)
Reachable(schemas) ==
  LET more == schemas \cup UNION {Nested(schema) : schema \in schemas}
  IN  IF more = schemas THEN schemas ELSE Reachable(more)
MCDescriptors == Reachable(Range(SchemaOf))

MCHeaders  == {"absent", "blank", "no text", "bzip2", " BZip2 ", "gzip"}
MCStatuses == {200, 204, 299, 300, 426, 503}

=============================================================================
