-------------------------------- MODULE Wire --------------------------------
(***************************************************************************)
(* proto/schema.rs and proto/decoder.rs: the lenient protobuf reader that  *)
(* turns the bytes of a game response into a JSON value.                   *)
(*                                                                         *)
(* A byte below Continue ends a varint and carries itself, as one below    *)
(* 128 does in the code; Groups full bytes and one bit are the longest     *)
(* varint, as nine bytes of seven bits and one bit make 64.  An Option is  *)
(* a set of at most one element.  A JSON object is a function on the names *)
(* of the members it has, an array a sequence, a string a sequence of      *)
(* words.                                                                  *)
(***************************************************************************)
EXTENDS Integers, SequencesExt

CONSTANTS
  Continue,     \* the continuation bit of a byte: 128 in the code
  Groups,       \* full bytes of the longest varint: 9 in the code
  TagLimit,     \* the first field number that is too large: 2^29 in the code
  Fixed32,      \* bytes of a 32-bit value: 4 in the code
  Fixed64,      \* bytes of a 64-bit value: 8 in the code
  Words,        \* Words[b] is the word that byte b of a string stands for
  Lossy,        \* what from_utf8_lossy puts where no word is
  NaNByte,      \* the byte of a float that is no number
  Null,         \* JSON null
  Descriptors   \* the schemas that a message is read with, nested ones too

ASSUME WireAssumption ==
  /\ {Continue, Groups, TagLimit, Fixed32, Fixed64} \subseteq Nat \ {0}
  /\ Continue >= 8
  /\ NaNByte \in 0 .. 2 * Continue - 1

\* null is no number.
ASSUME NullAssumption == Null \notin Int

Byte  == 0 .. 2 * Continue - 1
Limit ==                            \* one more than the largest u64
  LET full[n \in 0 .. Groups] == IF n = 0 THEN 2 ELSE Continue * full[n - 1] IN full[Groups]
\* A key, which is a field number and three bits, fits a u64.
ASSUME KeyAssumption == 8 * TagLimit <= Limit

Empty == << >>                      \* the object without members

Get(object, name, default) ==
  IF name \in DOMAIN object THEN object[name] ELSE default

\* The members of one object, and those of another that it does not have.
Over(object, other) ==
  [name \in DOMAIN object \cup DOMAIN other |->
     IF name \in DOMAIN object THEN object[name] ELSE other[name]]

Member(name, value) == [n \in {name} |-> value]

\* The value of an Option that is not None.
Some(option) == CHOOSE value \in option : TRUE

-----------------------------------------------------------------------------
(* Schemas: sequences of (number, field), as in schema.rs.                 *)

Field(number, name, type) ==
  [number |-> number, name |-> name, type |-> type, repeated |-> FALSE]

\* ProtoType; Int and Long are read alike and are one kind.
Num(number, name)          == Field(number, name, [kind |-> "int"])
Str(number, name)          == Field(number, name, [kind |-> "string"])
Flag(number, name)         == Field(number, name, [kind |-> "bool"])
Float(number, name)        == Field(number, name, [kind |-> "float"])
Sub(number, name, schema)  == Field(number, name, [kind |-> "message", of |-> schema])
Repeated(field)            == [field EXCEPT !.repeated = TRUE]

\* The schemas of the messages in a message.
Nested(schema) == {schema[i].type.of : i \in {j \in DOMAIN schema : schema[j].type.kind = "message"}}

ASSUME DescriptorsAssumption ==
  \A schema \in Descriptors :
    /\ DOMAIN schema \subseteq Nat
    /\ \A i, j \in DOMAIN schema :
         schema[i].name = schema[j].name \/ schema[i].number = schema[j].number => i = j
    /\ Nested(schema) \subseteq Descriptors

-----------------------------------------------------------------------------
(* Reading.  A position is the index of the next byte, from 1.             *)

\* The number that the low bits of the bytes spell, least significant first.
Carried(bytes) ==
  LET high[n \in 0 .. Len(bytes)] ==     \* that of the last n bytes
        IF n = 0 THEN 0
        ELSE (bytes[Len(bytes) - n + 1] % Continue) + Continue * high[n - 1]
  IN  high[Len(bytes)]

Ends(buf, at) ==
  {n \in 1 .. Groups + 1 : at + n - 1 <= Len(buf) /\ buf[at + n - 1] < Continue}

ReadVarint(buf, at) ==
  LET n == Min(Ends(buf, at))
  IN  IF Ends(buf, at) = {} \/ (n = Groups + 1 /\ buf[at + Groups] > 1) THEN {}
      ELSE {[value |-> Carried(SubSeq(buf, at, at + n - 1)), next |-> at + n]}

\* How long the payload behind a key is, and where it begins.
Extent(buf, wire, at) ==
  CASE wire = 1 -> {[value |-> Fixed64, next |-> at]}
    [] wire = 2 -> ReadVarint(buf, at)
    [] wire = 5 -> {[value |-> Fixed32, next |-> at]}
    [] OTHER    -> {}

\* mutant: a payload that runs past the end is cut off instead of refused.
ReadPayloadClamped(buf, wire, at) ==
  {[data |-> SubSeq(buf, x.next, IF x.next + x.value <= Len(buf) + 1
                                 THEN x.next + x.value - 1 ELSE Len(buf)),
    next |-> IF x.next + x.value <= Len(buf) + 1 THEN x.next + x.value ELSE Len(buf) + 1] :
     x \in Extent(buf, wire, at)}

ReadPayload(buf, wire, at) ==
  {[data |-> SubSeq(buf, x.next, x.next + x.value - 1), next |-> x.next + x.value] :
     x \in {y \in Extent(buf, wire, at) : y.next + y.value <= Len(buf) + 1}}

ReadData(buf, wire, at) ==
  IF wire = 0 THEN {[data |-> v.value, next |-> v.next] : v \in ReadVarint(buf, at)}
              ELSE ReadPayload(buf, wire, at)

ReadField(buf, at) ==
  UNION { {[number |-> key.value \div 8, wire |-> key.value % 8,
            data |-> d.data, next |-> d.next] : d \in ReadData(buf, key.value % 8, key.next)} :
          key \in {k \in ReadVarint(buf, at) : k.value \div 8 \in 1 .. TagLimit - 1} }

\* The fields the loop of decode sees: all up to the first malformed one.
Fields(buf) ==
  LET from[at \in 1 .. Len(buf) + 1] ==
        LET read == ReadField(buf, at)
        IN  IF read = {} THEN << >> ELSE <<Some(read)>> \o from[Some(read).next]
  IN  from[1]

\* `v as i64`.
Signed(v) == IF 2 * v >= Limit THEN v - Limit ELSE v

\* `read` is what decode makes of the bytes of a nested message.
Parse(f, type, read) ==
  CASE type.kind = "int"     /\ f.wire = 0 -> {Signed(f.data)}
    [] type.kind = "bool"    /\ f.wire = 0 -> {f.data = 1}
    [] type.kind = "string"  /\ f.wire = 2 -> {[i \in DOMAIN f.data |-> Get(Words, f.data[i], Lossy)]}
    [] type.kind = "message" /\ f.wire = 2 -> {read[<<f.data, type.of>>]}
    [] type.kind = "float"   /\ f.wire = 5 -> {IF NaNByte \in Range(f.data) THEN Null ELSE f.data[1]}
    [] OTHER -> {}

\* mutant: the first valid occurrence of a singular field wins.
InsertFirst(object, field, value) ==
  IF field.repeated
  THEN LET values == Get(object, field.name, << >>)
       IN  Over(Member(field.name, IF value = {} THEN values ELSE Append(values, Some(value))), object)
  ELSE IF value = {} THEN object ELSE Over(object, Member(field.name, Some(value)))

\* A repeated field is present from its first occurrence on, of a singular one
\* the last valid value stays.
Insert(object, field, value) ==
  IF field.repeated
  THEN LET values == Get(object, field.name, << >>)
       IN  Over(Member(field.name, IF value = {} THEN values ELSE Append(values, Some(value))), object)
  ELSE IF value = {} THEN object ELSE Over(Member(field.name, Some(value)), object)

\* One turn of the loop; an unknown field is skipped.
Store(object, f, schema, read) ==
  LET known == {i \in DOMAIN schema : schema[i].number = f.number}
      field == schema[Min(known)]
  IN  IF known = {} THEN object ELSE Insert(object, field, Parse(f, field.type, read))

Loop(buf, schema, read) ==
  LET fields == Fields(buf)
      stored[n \in 0 .. Len(fields)] ==
        IF n = 0 THEN Empty ELSE Store(stored[n - 1], fields[n], schema, read)
  IN  stored[Len(fields)]

\* decode calls itself for a nested message, which is shorter than the one it
\* is in: d bounds the length.
Reader(n) ==
  LET reader[d \in 0 .. n] ==
        [message \in Seq(Byte) \X Descriptors |->
           IF d = 0 THEN Empty ELSE Loop(message[1], message[2], reader[d - 1])]
  IN  reader

Decode(buf, schema) == Reader(Len(buf))[Len(buf)][<<buf, schema>>]

=============================================================================
