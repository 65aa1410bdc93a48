------------------------------ MODULE Meaning ------------------------------
(***************************************************************************)
(* What the game writes and what it means by it, against what is read from *)
(* it: a message is a sequence of nodes, its bytes are what the game's     *)
(* protobuf writer, which is external, makes of them.                      *)
(***************************************************************************)
EXTENDS Response

CONSTANT Depth   \* how deep messages are nested

ASSUME DepthAssumption == Depth \in Nat

-----------------------------------------------------------------------------
(* Writing.  A node carries a number, or bytes; those of a nested message  *)
(* are what the writer makes of its nodes.                                 *)

Node(number, kind, int, bytes, nodes) ==
  [number |-> number, kind |-> kind, int |-> int, bytes |-> bytes, nodes |-> nodes]

WireOf(kind) ==
  CASE kind = "varint"  -> 0
    [] kind = "fixed64" -> 1
    [] kind = "group"   -> 3
    [] kind = "fixed32" -> 5
    [] OTHER            -> 2

WriteVarint(v) ==
  LET rest[n \in 0 .. v] ==
        IF n < Continue THEN <<n>> ELSE <<Continue + (n % Continue)>> \o rest[n \div Continue]
  IN  rest[v]

WriteNode(node) ==
  WriteVarint(node.number * 8 + WireOf(node.kind)) \o
  CASE node.kind = "varint"                -> WriteVarint(node.int)
    [] node.kind \in {"string", "message"} -> WriteVarint(Len(node.bytes)) \o node.bytes
    [] OTHER                               -> node.bytes

Write(nodes) == FlattenSeq([i \in DOMAIN nodes |-> WriteNode(nodes[i])])

\* The messages that nest at most d deep.
Messages(d) ==
  LET to[n \in 0 .. d] ==
        IF n = 0 THEN {<< >>}
        ELSE Seq([number : Nat, int : Nat, bytes : Seq(Byte), nodes : to[n - 1],
                  kind : {"varint", "fixed64", "group", "fixed32", "string", "message"}])
  IN  to[d]

\* The nodes of a message beside the fields that they are for.
Places(m) == {p \in Range(m[1]) \X Range(m[2]) : p[1].number = p[2].number}

\* The messages in a message.
Inner(m) ==
  {<<p[1].nodes, p[2].type.of>> :
     p \in {q \in Places(m) : q[1].kind = "message" /\ q[2].type.kind = "message"}}

\* A value of fixed size has that size; no length exceeds a u64.  Strings and
\* messages look alike on the wire: one where the descriptor has the other is
\* not sent.
WellFormed(m) ==
  /\ \A node \in Range(m[1]) :
       /\ node.kind = "fixed32" => Len(node.bytes) = Fixed32
       /\ node.kind = "fixed64" => Len(node.bytes) = Fixed64
       /\ Len(node.bytes) < Limit
  /\ \A p \in Places(m) :
       /\ {p[1].kind, p[2].type.kind} # {"string", "message"}
       /\ p[1].kind = "message" /\ p[2].type.kind = "message" => p[1].bytes = Write(p[1].nodes)

\* The messages the game sends, each with its descriptor.
Sendable(d) ==
  LET to[n \in 0 .. d] ==
        {m \in Messages(n) \X Descriptors :
           n # 0 => WellFormed(m) /\ Inner(m) \subseteq to[n - 1]}
  IN  to[d]

ASSUME WrittenAssumption ==
  \A r \in Replies \cup Fragile :
    r.bytes = Write(r.nodes) /\ <<r.nodes, SchemaOf[r.kind]>> \in Sendable(Depth)

-----------------------------------------------------------------------------
(* What a message means, without bytes and without a loop: a singular      *)
(* field has the value of its last occurrence of the right kind, a         *)
(* repeated one those of all of them, in order.  A node that is not        *)
(* protobuf is the end of the message it is in.                            *)

Malformed(node) ==
  \/ node.number \notin 1 .. TagLimit - 1
  \/ node.kind = "group"
  \/ node.kind = "varint" /\ node.int >= Limit

Heard(nodes) ==
  LET bad == {i \in DOMAIN nodes : Malformed(nodes[i])}
  IN  IF bad = {} THEN nodes ELSE SubSeq(nodes, 1, Min(bad) - 1)

Fits(node, type) ==
  \/ type.kind \in {"int", "bool"} /\ node.kind = "varint"
  \/ type.kind = "float" /\ node.kind = "fixed32"
  \/ type.kind \in {"string", "message"} /\ node.kind = type.kind

\* `meant` says what a nested message means.
Meaning(node, type, meant) ==
  CASE type.kind = "int"     -> IF node.int < Limit \div 2 THEN node.int ELSE node.int - Limit
    [] type.kind = "bool"    -> node.int = 1
    [] type.kind = "string"  -> [i \in DOMAIN node.bytes |-> Get(Words, node.bytes[i], Lossy)]
    [] type.kind = "float"   -> IF NaNByte \in Range(node.bytes) THEN Null ELSE Head(node.bytes)
    [] type.kind = "message" -> meant[<<node.nodes, type.of>>]

\* The nodes of a field, and those of them that have its type.
Of(field, heard)    == Kept(heard, {n \in Range(heard) : n.number = field.number})
Valid(field, heard) == Kept(heard, {n \in Range(heard) : n.number = field.number /\ Fits(n, field.type)})

Present(field, heard) == (IF field.repeated THEN Of(field, heard) ELSE Valid(field, heard)) # << >>

Value(field, heard, meant) ==
  LET valid  == Valid(field, heard)
      values == [i \in DOMAIN valid |-> Meaning(valid[i], field.type, meant)]
  IN  IF field.repeated THEN values ELSE Last(values)

Understood(nodes, schema, meant) ==
  LET present == {f \in Range(schema) : Present(f, Heard(nodes))}
  IN  [name \in {f.name : f \in present} |->
         Value(CHOOSE f \in present : f.name = name, Heard(nodes), meant)]

Means(nodes, schema) ==
  LET meant[n \in 0 .. Depth] ==
        [m \in Messages(n) \X Descriptors |->
           IF n = 0 THEN Empty ELSE Understood(m[1], m[2], meant[n - 1])]
  IN  meant[Depth][<<nodes, schema>>]

-----------------------------------------------------------------------------
\* A reply that arrives whole is answered with what it means: every valid
\* field in its place, whatever unknown, mistyped or repeated fields stand
\* between them and behind whatever padding or compression, up to the first
\* field that is no protobuf; and if it is answered with a 500, it had no byte.
\* What a status or an encoding that the code does not take is answered with
\* (a 502, before a byte is understood) is not the matter of this property.
\* decoder.rs 20-93, crypto.rs 22-34, client/mod.rs decode_response_body.
WholeRepliesAreUnderstood ==
  stage = "answered" /\ reply.whole =>
    /\ outcome = 200 => root = Means(reply.nodes, SchemaOf[reply.kind])
    /\ outcome = 500 => reply.nodes = << >>

\* A reply whose end is missing is refused or answered with a beginning of
\* what was sent, never with a field cut in two or with values of one field
\* under another.  decoder.rs 73-93: the loop ends at the first short field.
TornAnswersArePrefixes ==
  Answered /\ ~reply.whole =>
    \E n \in 0 .. Len(reply.nodes) :
      root = Means(SubSeq(reply.nodes, 1, n), SchemaOf[reply.kind])

=============================================================================
