--------------------------- MODULE ResponseProofs ---------------------------
(***************************************************************************)
(* Proofs about Response, whatever bytes the game sends.                   *)
(*                                                                         *)
(* A recursive function is reasoned about in two steps: induction over the *)
(* numbers, which follows from their well-foundedness, shows that there is *)
(* a function that satisfies its equation, and then what its values are.   *)
(***************************************************************************)
EXTENDS Meaning, TLAPS, WellFoundedInduction, FiniteSetTheorems, SequenceTheorems

-----------------------------------------------------------------------------
(* Induction                                                               *)

\* A set of numbers that is not empty has a least one: the iterators' find.
LEMMA Least ==
  ASSUME NEW S \in SUBSET Nat, S # {}
  PROVE  \E m \in S : \A k \in S : m <= k
<1>1. IsWellFoundedOn(OpToRel(<, Nat), Nat)
  BY NatLessThanWellFounded
<1>2. PICK m \in S : \A k \in S : ~ (<<k, m>> \in OpToRel(<, Nat))
  BY <1>1, WFMin
<1>3. \A k \in S : ~ (k < m)
  BY <1>2 DEF OpToRel
<1> QED
  BY <1>3

\* A set that has zero and with every number the next has all numbers.
LEMMA Induction ==
  ASSUME NEW S, 0 \in S, \A n \in Nat : n \in S => n + 1 \in S
  PROVE  \A n \in Nat : n \in S
<1> SUFFICES ASSUME Nat \ S # {} PROVE FALSE
  OBVIOUS
<1>1. PICK m \in Nat \ S : \A k \in Nat \ S : m <= k
  BY Least
<1>2. m # 0
  OBVIOUS
<1>3. m - 1 \in Nat /\ m - 1 \in S
  BY <1>1, <1>2
<1> QED
  BY <1>3

\* The least element of a set of numbers is in it and below the others.
LEMMA MinFact ==
  ASSUME NEW S \in SUBSET Nat, S # {}
  PROVE  Min(S) \in S /\ \A k \in S : Min(S) <= k
BY Least DEF Min

\* A function on the first numbers is a sequence.
LEMMA AsSeq ==
  ASSUME NEW S, NEW n \in Nat, NEW f \in [1 .. n -> S]
  PROVE  f \in Seq(S) /\ Len(f) = n
OBVIOUS

-----------------------------------------------------------------------------
(* The bytes of a message: proto/decoder.rs                                *)

IsHigh(f, bytes, m) ==
  f = [n \in 0 .. m |->
         IF n = 0 THEN 0 ELSE (bytes[Len(bytes) - n + 1] % Continue) + Continue * f[n - 1]]

HighOf(bytes) == CHOOSE f : IsHigh(f, bytes, Len(bytes))

\* The number is that of all bytes.
LEMMA HighFact ==
  ASSUME NEW bytes \in Seq(Byte)
  PROVE  /\ HighOf(bytes)[0] = 0
         /\ \A n \in 1 .. Len(bytes) :
              HighOf(bytes)[n] = (bytes[Len(bytes) - n + 1] % Continue) + Continue * HighOf(bytes)[n - 1]
         /\ Carried(bytes) = HighOf(bytes)[Len(bytes)]
<1> DEFINE High(m) == \E f : IsHigh(f, bytes, m)
           S == {m \in Nat : High(m)}
<1>1. 0 \in S
  <2>1. IsHigh([n \in 0 .. 0 |-> 0], bytes, 0)
    BY DEF IsHigh
  <2> QED BY <2>1
<1>2. ASSUME NEW m \in Nat, m \in S PROVE m + 1 \in S
  <2>1. PICK f : IsHigh(f, bytes, m)
    BY <1>2
  <2> DEFINE g == [n \in 0 .. m + 1 |->
                     IF n <= m THEN f[n]
                     ELSE (bytes[Len(bytes) - n + 1] % Continue) + Continue * f[m]]
  <2>2. \A n \in 0 .. m : n # 0 => n - 1 \in 0 .. m
    OBVIOUS
  <2>3. IsHigh(g, bytes, m + 1)
    BY <2>1, <2>2 DEF IsHigh
  <2> QED BY <2>3
<1>3. Len(bytes) \in S
  BY <1>1, <1>2, Induction, LenProperties
<1>4. IsHigh(HighOf(bytes), bytes, Len(bytes))
  BY <1>3 DEF HighOf
<1>5. Carried(bytes) = HighOf(bytes)[Len(bytes)]
  BY DEF Carried, IsHigh, HighOf
<1>6. HighOf(bytes)[0] = 0
  BY <1>4, LenProperties DEF IsHigh
<1>7. ASSUME NEW n \in 1 .. Len(bytes)
      PROVE  HighOf(bytes)[n] = (bytes[Len(bytes) - n + 1] % Continue) + Continue * HighOf(bytes)[n - 1]
  <2>1. n \in 0 .. Len(bytes) /\ n # 0
    OBVIOUS
  <2> QED BY <1>4, <2>1 DEF IsHigh
<1> QED
  BY <1>5, <1>6, <1>7

\* A varint carries a number.
LEMMA CarriedTyped ==
  ASSUME NEW bytes \in Seq(Byte)
  PROVE  /\ \A n \in 0 .. Len(bytes) : HighOf(bytes)[n] \in Nat
         /\ Carried(bytes) \in Nat
<1> DEFINE high == HighOf(bytes)
           T == {n \in Nat : n <= Len(bytes) => high[n] \in Nat}
<1>1. Continue \in Nat /\ Continue > 0
  BY WireAssumption
<1>2. /\ high[0] = 0
      /\ \A n \in 1 .. Len(bytes) :
           high[n] = (bytes[Len(bytes) - n + 1] % Continue) + Continue * high[n - 1]
      /\ Carried(bytes) = high[Len(bytes)]
  BY HighFact
<1> HIDE DEF high
<1>3. 0 \in T
  BY <1>2
<1>4. ASSUME NEW n \in Nat, n \in T PROVE n + 1 \in T
  <2> SUFFICES ASSUME n + 1 <= Len(bytes) PROVE high[n + 1] \in Nat
    OBVIOUS
  <2>1. high[n] \in Nat
    BY <1>4
  <2>2. high[n + 1] = (bytes[Len(bytes) - n] % Continue) + Continue * high[n]
    BY <1>2
  <2>3. bytes[Len(bytes) - n] \in Nat
    BY <1>1 DEF Byte
  <2>4. bytes[Len(bytes) - n] % Continue \in Nat
    BY <2>3, <1>1
  <2>5. Continue * high[n] \in Nat
    BY <2>1, <1>1
  <2> QED BY <2>2, <2>4, <2>5
<1>5. \A n \in Nat : n \in T
  BY <1>3, <1>4, Induction
<1>6. \A n \in 0 .. Len(bytes) : high[n] \in Nat
  BY <1>5
<1> QED
  BY <1>2, <1>6 DEF high

IsFull(full, m) == full = [n \in 0 .. m |-> IF n = 0 THEN 2 ELSE Continue * full[n - 1]]

\* One more than the largest number of n full bytes and a bit.
Full == CHOOSE full : IsFull(full, Groups)

\* The largest u64 is that of all the groups.
LEMMA FullFact ==
  /\ Full[0] = 2
  /\ \A n \in 1 .. Groups : Full[n] = Continue * Full[n - 1]
  /\ \A n \in 0 .. Groups : Full[n] \in Nat /\ Full[n] >= 2 /\ Full[n] = 2 * (Full[n] \div 2)
  /\ Limit = Full[Groups]
<1> DEFINE S == {m \in Nat : \E f : IsFull(f, m)}
<1>1. Continue \in Nat /\ Continue >= 8 /\ Groups \in Nat
  BY WireAssumption
<1>2. 0 \in S
  <2>1. IsFull([n \in 0 .. 0 |-> 2], 0)
    BY DEF IsFull
  <2> QED BY <2>1
<1>3. ASSUME NEW m \in Nat, m \in S PROVE m + 1 \in S
  <2>1. PICK f : IsFull(f, m)
    BY <1>3
  <2> DEFINE g == [n \in 0 .. m + 1 |-> IF n <= m THEN f[n] ELSE Continue * f[m]]
  <2>2. \A n \in 0 .. m : n # 0 => n - 1 \in 0 .. m
    OBVIOUS
  <2>3. IsFull(g, m + 1)
    BY <2>1, <2>2 DEF IsFull
  <2> QED BY <2>3
<1>4. \A m \in Nat : m \in S
  BY <1>2, <1>3, Induction
<1>5. IsFull(Full, Groups)
  BY <1>1, <1>4 DEF Full
<1>6. Full[0] = 2 /\ \A n \in 1 .. Groups : Full[n] = Continue * Full[n - 1]
  BY <1>1, <1>5 DEF IsFull
<1> DEFINE T == {n \in Nat : n <= Groups => \E half \in Nat \ {0} : Full[n] = 2 * half}
<1>7. 0 \in T
  BY <1>6
<1>8. ASSUME NEW n \in Nat, n \in T PROVE n + 1 \in T
  <2> SUFFICES ASSUME n + 1 <= Groups PROVE \E half \in Nat \ {0} : Full[n + 1] = 2 * half
    OBVIOUS
  <2>1. PICK half \in Nat \ {0} : Full[n] = 2 * half
    BY <1>1, <1>8
  <2>2. Full[n + 1] = Continue * (2 * half)
    BY <1>1, <1>6, <2>1
  <2>3. Continue * half \in Nat \ {0} /\ Continue * (2 * half) = 2 * (Continue * half)
    BY <1>1
  <2> QED BY <2>2, <2>3
<1>9. \A n \in Nat : n \in T
  BY <1>7, <1>8, Induction
<1>10. ASSUME NEW n \in 0 .. Groups
       PROVE  Full[n] \in Nat /\ Full[n] >= 2 /\ Full[n] = 2 * (Full[n] \div 2)
  <2>1. PICK half \in Nat \ {0} : Full[n] = 2 * half
    BY <1>9
  <2> QED BY <2>1
<1>11. Limit = Full[Groups]
  BY DEF Limit, Full, IsFull
<1> QED
  BY <1>6, <1>10, <1>11

\* The width of a u64 is even and not zero.
LEMMA LimitFact == Limit \in Nat \ {0} /\ Limit = 2 * (Limit \div 2)
<1>1. Groups \in 0 .. Groups
  BY WireAssumption
<1>2. Full[Groups] \in Nat /\ Full[Groups] >= 2 /\ Full[Groups] = 2 * (Full[Groups] \div 2)
  BY <1>1, FullFact
<1>3. Limit = Full[Groups]
  BY FullFact
<1> QED
  BY <1>2, <1>3

Positions(buf) == 1 .. Len(buf) + 1

\* A part of the buffer is bytes.
LEMMA SliceTyped ==
  ASSUME NEW buf \in Seq(Byte), NEW a \in Nat \ {0}, NEW z \in Int, z <= Len(buf)
  PROVE  SubSeq(buf, a, z) \in Seq(Byte)
<1>1. \A i \in a .. z : buf[i] \in Byte
  OBVIOUS
<1> QED
  BY <1>1, SubSeqProperties

\* A varint that is read ends behind its beginning and within the buffer.
LEMMA ReadVarintTyped ==
  ASSUME NEW buf \in Seq(Byte), NEW at \in Positions(buf), NEW v \in ReadVarint(buf, at)
  PROVE  v.value \in Nat /\ v.next \in Positions(buf) /\ v.next > at
<1> USE WireAssumption
<1> DEFINE n == Min(Ends(buf, at))
<1>1. Ends(buf, at) # {} /\ v = [value |-> Carried(SubSeq(buf, at, at + n - 1)), next |-> at + n]
  BY DEF ReadVarint
<1>2. Ends(buf, at) \in SUBSET Nat
  BY DEF Ends
<1>3. n \in Ends(buf, at)
  BY <1>1, <1>2, MinFact
<1>4. n \in Nat /\ n >= 1 /\ at + n - 1 <= Len(buf)
  BY <1>3 DEF Ends
<1> HIDE DEF n
<1>5. SubSeq(buf, at, at + n - 1) \in Seq(Byte)
  BY <1>4, SubSeqProperties DEF Positions
<1>6. Carried(SubSeq(buf, at, at + n - 1)) \in Nat
  BY <1>5, CarriedTyped
<1>7. at + n \in Positions(buf) /\ at + n > at
  BY <1>4 DEF Positions
<1> QED
  BY <1>1, <1>6, <1>7

\* A payload is a part of the buffer.
LEMMA ReadPayloadTyped ==
  ASSUME NEW buf \in Seq(Byte), NEW at \in Positions(buf), NEW wire, NEW d \in ReadPayload(buf, wire, at)
  PROVE  d.data \in Seq(Byte) /\ d.next \in Positions(buf) /\ d.next >= at
<1> USE WireAssumption
<1>1. PICK x \in Extent(buf, wire, at) :
         /\ x.next + x.value <= Len(buf) + 1
         /\ d = [data |-> SubSeq(buf, x.next, x.next + x.value - 1), next |-> x.next + x.value]
  BY DEF ReadPayload
<1>2. \/ x \in {[value |-> Fixed64, next |-> at]}
      \/ x \in ReadVarint(buf, at)
      \/ x \in {[value |-> Fixed32, next |-> at]}
  <2>1. CASE wire = 1
    BY <2>1, Zenon DEF Extent
  <2>2. CASE wire = 2
    <3>1. wire # 1 /\ wire # 5
      BY <2>2
    <3> QED BY <2>2, <3>1, Zenon DEF Extent
  <2>3. CASE wire = 5
    <3>1. wire # 1 /\ wire # 2
      BY <2>3
    <3> QED BY <2>3, <3>1, Zenon DEF Extent
  <2>4. CASE wire # 1 /\ wire # 2 /\ wire # 5
    <3>1. Extent(buf, wire, at) = {}
      BY <2>4, Zenon DEF Extent
    <3> QED BY <3>1
  <2> QED BY <2>1, <2>2, <2>3, <2>4
<1>3. x.value \in Nat /\ x.next \in Positions(buf) /\ x.next >= at
  BY <1>2, ReadVarintTyped DEF Positions
<1>4. PICK a \in Positions(buf), k \in Nat :
         /\ a + k <= Len(buf) + 1 /\ a >= at
         /\ d = [data |-> SubSeq(buf, a, a + k - 1), next |-> a + k]
  BY <1>1, <1>3
<1>5. SubSeq(buf, a, a + k - 1) \in Seq(Byte)
  BY <1>4, SliceTyped DEF Positions
<1> QED
  BY <1>4, <1>5 DEF Positions

\* What a turn of the loop may see.
Seen == [number : Nat, wire : {0}, data : Nat, next : Nat]
          \cup [number : Nat, wire : Nat \ {0}, data : Seq(Byte), next : Nat]

\* What is read is of that kind, and the reader has moved on.
LEMMA ReadFieldTyped ==
  ASSUME NEW buf \in Seq(Byte), NEW at \in Positions(buf), NEW f \in ReadField(buf, at)
  PROVE  f \in Seen /\ f.next \in Positions(buf) /\ f.next > at
<1>1. PICK key \in ReadVarint(buf, at) : \E d \in ReadData(buf, key.value % 8, key.next) :
         f = [number |-> key.value \div 8, wire |-> key.value % 8, data |-> d.data, next |-> d.next]
  BY DEF ReadField
<1>2. PICK d \in ReadData(buf, key.value % 8, key.next) :
         f = [number |-> key.value \div 8, wire |-> key.value % 8, data |-> d.data, next |-> d.next]
  BY <1>1
<1>3. key.value \in Nat /\ key.next \in Positions(buf) /\ key.next > at
  BY ReadVarintTyped
<1>4. key.value \div 8 \in Nat /\ key.value % 8 \in Nat
  BY <1>3
<1>5. CASE key.value % 8 = 0
  <2>1. PICK v \in ReadVarint(buf, key.next) : d = [data |-> v.value, next |-> v.next]
    BY <1>5 DEF ReadData
  <2>2. v.value \in Nat /\ v.next \in Positions(buf) /\ v.next > key.next
    BY <1>3, ReadVarintTyped
  <2> QED BY <1>2, <1>3, <1>4, <1>5, <2>1, <2>2 DEF Seen, Positions
<1>6. CASE key.value % 8 # 0
  <2>1. d \in ReadPayload(buf, key.value % 8, key.next)
    BY <1>6 DEF ReadData
  <2>2. d.data \in Seq(Byte) /\ d.next \in Positions(buf) /\ d.next >= key.next
    BY <1>3, <2>1, ReadPayloadTyped
  <2> QED BY <1>2, <1>3, <1>4, <1>6, <2>2 DEF Seen, Positions
<1> QED
  BY <1>5, <1>6

NextField(buf, at) == Some(ReadField(buf, at))

IsFrom(f, buf, low) ==
  f = [at \in low .. Len(buf) + 1 |->
         IF ReadField(buf, at) = {} THEN << >> ELSE <<NextField(buf, at)>> \o f[NextField(buf, at).next]]

FromOf(buf) == CHOOSE f : IsFrom(f, buf, 1)

\* The loop sees the fields from the first byte on.
LEMMA FromFact ==
  ASSUME NEW buf \in Seq(Byte)
  PROVE  /\ Fields(buf) = FromOf(buf)[1]
         /\ \A at \in Positions(buf) :
              /\ ReadField(buf, at) = {} => FromOf(buf)[at] = << >>
              /\ ReadField(buf, at) # {} =>
                   FromOf(buf)[at] = <<NextField(buf, at)>> \o FromOf(buf)[NextField(buf, at).next]
<1> DEFINE end == Len(buf) + 1
           S == {k \in Nat : k < end => \E f : IsFrom(f, buf, end - k)}
<1>1. end \in Nat \ {0} /\ Positions(buf) = 1 .. end
  BY LenProperties DEF Positions
<1>2. ASSUME NEW at \in Positions(buf), ReadField(buf, at) # {}
      PROVE  /\ NextField(buf, at) \in Seen
             /\ NextField(buf, at).next \in Positions(buf) /\ NextField(buf, at).next > at
  <2>1. NextField(buf, at) \in ReadField(buf, at)
    BY <1>2 DEF NextField, Some
  <2> QED BY <2>1, ReadFieldTyped
<1> HIDE DEF end
<1>3. 0 \in S
  <2>1. ReadField(buf, end) = {}
    BY <1>1, <1>2
  <2>2. IsFrom([at \in end .. end |-> << >>], buf, end)
    BY <1>1, <2>1 DEF IsFrom, end
  <2> QED BY <1>1, <2>2
<1>4. ASSUME NEW k \in Nat, k \in S PROVE k + 1 \in S
  <2> SUFFICES ASSUME k + 1 < end PROVE \E f : IsFrom(f, buf, end - (k + 1))
    OBVIOUS
  <2> DEFINE low == end - k
             new == end - (k + 1)
  <2>1. low \in Positions(buf) /\ new \in Positions(buf) /\ new = low - 1 /\ end - k = low
    BY <1>1
  <2>2. PICK f : IsFrom(f, buf, low)
    BY <1>1, <1>4
  <2> HIDE DEF low, new
  <2> DEFINE g == [at \in new .. end |->
                     IF at >= low THEN f[at]
                     ELSE IF ReadField(buf, at) = {} THEN << >>
                     ELSE <<NextField(buf, at)>> \o f[NextField(buf, at).next]]
  <2>3. \A at \in new .. end : ReadField(buf, at) # {} =>
           NextField(buf, at).next \in low .. end
    BY <1>1, <1>2, <2>1
  <2>4. \A at \in low .. end : g[at] = f[at]
    BY <1>1, <2>1
  <2>5. \A at \in low .. end :
           f[at] = IF ReadField(buf, at) = {} THEN << >>
                   ELSE <<NextField(buf, at)>> \o f[NextField(buf, at).next]
    BY <2>2 DEF IsFrom, end
  <2>6. \A at \in new .. end :
           g[at] = IF ReadField(buf, at) = {} THEN << >>
                   ELSE <<NextField(buf, at)>> \o f[NextField(buf, at).next]
    BY <1>1, <2>1, <2>5
  <2>7. \A at \in new .. end :
           g[at] = IF ReadField(buf, at) = {} THEN << >>
                   ELSE <<NextField(buf, at)>> \o g[NextField(buf, at).next]
    BY <2>3, <2>4, <2>6
  <2>8. IsFrom(g, buf, new)
    BY <2>7 DEF IsFrom, end
  <2> QED BY <2>8 DEF new
<1>5. \A k \in Nat : k \in S
  BY <1>3, <1>4, Induction
<1>6. \E f : IsFrom(f, buf, 1)
  <2>1. end - 1 \in Nat /\ end - 1 < end /\ end - (end - 1) = 1
    BY <1>1
  <2>2. \E f : IsFrom(f, buf, end - (end - 1))
    BY <1>5, <2>1
  <2> QED BY <2>1, <2>2
<1>7. IsFrom(FromOf(buf), buf, 1)
  BY <1>6 DEF FromOf
<1>8. Fields(buf) = FromOf(buf)[1]
  BY DEF Fields, IsFrom, NextField, FromOf
<1>9. ASSUME NEW at \in Positions(buf)
      PROVE  /\ ReadField(buf, at) = {} => FromOf(buf)[at] = << >>
             /\ ReadField(buf, at) # {} =>
                  FromOf(buf)[at] = <<NextField(buf, at)>> \o FromOf(buf)[NextField(buf, at).next]
  BY <1>1, <1>7 DEF IsFrom, end
<1> QED
  BY <1>8, <1>9

\* The loop sees a sequence of such fields.
LEMMA FieldsTyped ==
  ASSUME NEW buf \in Seq(Byte)
  PROVE  /\ Fields(buf) \in Seq(Seen)
         /\ \A at \in Positions(buf) : FromOf(buf)[at] \in Seq(Seen)
<1> DEFINE end == Len(buf) + 1
           from == FromOf(buf)
           T == {k \in Nat : \A at \in Positions(buf) : at >= end - k => from[at] \in Seq(Seen)}
<1>1. end \in Nat \ {0} /\ Positions(buf) = 1 .. end
  BY LenProperties DEF Positions
<1>2. ASSUME NEW at \in Positions(buf), ReadField(buf, at) # {}
      PROVE  /\ NextField(buf, at) \in Seen
             /\ NextField(buf, at).next \in Positions(buf) /\ NextField(buf, at).next > at
  <2>1. NextField(buf, at) \in ReadField(buf, at)
    BY <1>2 DEF NextField, Some
  <2> QED BY <2>1, ReadFieldTyped
<1>3. /\ Fields(buf) = from[1]
      /\ \A at \in Positions(buf) :
           /\ ReadField(buf, at) = {} => from[at] = << >>
           /\ ReadField(buf, at) # {} =>
                from[at] = <<NextField(buf, at)>> \o from[NextField(buf, at).next]
  BY FromFact
<1> HIDE DEF end, from
<1>4. << >> \in Seq(Seen)
  OBVIOUS
<1>5. 0 \in T
  <2> SUFFICES ASSUME NEW at \in Positions(buf), at >= end - 0 PROVE from[at] \in Seq(Seen)
    OBVIOUS
  <2>1. ReadField(buf, at) = {}
    BY <1>1, <1>2
  <2> QED BY <1>3, <1>4, <2>1
<1>6. ASSUME NEW k \in Nat, k \in T PROVE k + 1 \in T
  <2> SUFFICES ASSUME NEW at \in Positions(buf), at >= end - (k + 1) PROVE from[at] \in Seq(Seen)
    OBVIOUS
  <2>1. CASE ReadField(buf, at) = {}
    BY <1>3, <1>4, <2>1
  <2>2. CASE ReadField(buf, at) # {}
    <3>1. NextField(buf, at) \in Seen /\ NextField(buf, at).next \in Positions(buf)
      BY <1>2, <2>2
    <3>2. NextField(buf, at).next >= end - k
      BY <1>1, <1>2, <2>2
    <3>3. from[NextField(buf, at).next] \in Seq(Seen)
      BY <1>6, <3>1, <3>2
    <3>4. <<NextField(buf, at)>> \o from[NextField(buf, at).next] \in Seq(Seen)
      BY <3>1, <3>3
    <3> QED BY <1>3, <2>2, <3>4
  <2> QED BY <2>1, <2>2
<1>7. \A k \in Nat : k \in T
  BY <1>5, <1>6, Induction
<1>8. ASSUME NEW at \in Positions(buf) PROVE from[at] \in Seq(Seen)
  <2>1. end \in T /\ at >= end - end
    BY <1>1, <1>7
  <2> QED BY <2>1
<1>9. 1 \in Positions(buf)
  BY <1>1
<1> QED
  BY <1>3, <1>8, <1>9 DEF from

-----------------------------------------------------------------------------
(* The shape of an object: its members are those of its descriptor, and    *)
(* each has the type that the descriptor says.                             *)

IsArray(value) == \E S : value \in Seq(S)

\* The value is an object that was read with the schema, however deep.
Message(value, schema) ==
  \E n \in Nat : \E d \in 0 .. n : \E bytes \in Seq(Byte) : value = Reader(n)[d][<<bytes, schema>>]

OfType(value, type) ==
  /\ type.kind = "int" => value \in Int
  /\ type.kind = "message" => Message(value, type.of)

OfField(value, field) ==
  IF field.repeated THEN IsArray(value) /\ \A i \in DOMAIN value : OfType(value[i], field.type)
  ELSE OfType(value, field.type)

IsObject(value) == value = [name \in DOMAIN value |-> value[name]]

Shaped(object, schema) ==
  /\ IsObject(object)
  /\ \A name \in DOMAIN object :
       \E i \in DOMAIN schema : schema[i].name = name /\ OfField(object[name], schema[i])

\* An array with one more element.
LEMMA AppendArray ==
  ASSUME NEW s, IsArray(s), NEW v
  PROVE  /\ IsArray(Append(s, v)) /\ Len(s) \in Nat
         /\ DOMAIN s = 1 .. Len(s) /\ DOMAIN Append(s, v) = 1 .. Len(s) + 1
         /\ \A i \in 1 .. Len(s) : Append(s, v)[i] = s[i]
         /\ Append(s, v)[Len(s) + 1] = v
<1>1. PICK S : s \in Seq(S)
  BY DEF IsArray
<1>2. s \in Seq(S \cup {v})
  BY <1>1
<1>3. Append(s, v) \in Seq(S \cup {v})
  BY <1>2
<1> QED
  BY <1>2, <1>3 DEF IsArray

\* The object with no members.
LEMMA EmptyObject == IsObject(Empty) /\ DOMAIN Empty = {}
<1> QED
  BY DEF Empty, IsObject

\* A value of the right type keeps the shape.
LEMMA InsertShaped ==
  ASSUME NEW schema \in Descriptors, NEW i \in DOMAIN schema,
         NEW object, Shaped(object, schema),
         NEW value, \A v \in value : OfType(v, schema[i].type)
  PROVE  Shaped(Insert(object, schema[i], value), schema)
<1> DEFINE field == schema[i]
           name == field.name
           object2 == Insert(object, field, value)
<1>1. \A j \in DOMAIN schema : schema[j].name = name => j = i
  BY DescriptorsAssumption
<1>2. value # {} => Some(value) \in value
  BY DEF Some
<1>3. ASSUME NEW new, OfField(new, field)
      PROVE  Shaped(Over(Member(name, new), object), schema)
  <2>1. IsObject(Over(Member(name, new), object))
    BY DEF Over, IsObject
  <2> SUFFICES ASSUME NEW n \in DOMAIN Over(Member(name, new), object)
               PROVE  \E j \in DOMAIN schema : schema[j].name = n /\
                        OfField(Over(Member(name, new), object)[n], schema[j])
    BY <2>1 DEF Shaped
  <2> DEFINE object3 == Over(Member(name, new), object)
  <2>2. /\ DOMAIN object3 = {name} \cup DOMAIN object
        /\ object3[name] = new
        /\ \A m \in DOMAIN object \ {name} : object3[m] = object[m]
    BY DEF Over, Member
  <2>3. CASE n = name
    <3>1. Over(Member(name, new), object)[n] = new
      BY <2>2, <2>3
    <3> QED BY <1>3, <2>3, <3>1
  <2>4. CASE n # name
    <3>1. n \in DOMAIN object /\ Over(Member(name, new), object)[n] = object[n]
      BY <2>2, <2>4
    <3> QED BY <3>1 DEF Shaped
  <2> QED BY <2>3, <2>4
<1>4. CASE ~ field.repeated
  <2>1. CASE value = {}
    <3>1. object2 = object
      BY <1>4, <2>1 DEF Insert
    <3> QED BY <3>1
  <2>2. CASE value # {}
    <3>1. object2 = Over(Member(name, Some(value)), object)
      BY <1>4, <2>2 DEF Insert
    <3>2. OfField(Some(value), field)
      BY <1>2, <1>4, <2>2 DEF OfField
    <3> QED BY <1>3, <3>1, <3>2
  <2> QED BY <2>1, <2>2
<1>5. CASE field.repeated
  <2> DEFINE old == Get(object, name, << >>)
             new == IF value = {} THEN old ELSE Append(old, Some(value))
  <2>1. object2 = Over(Member(name, new), object)
    BY <1>5 DEF Insert
  <2>2. OfField(old, field)
    <3>1. CASE name \in DOMAIN object
      <4>1. PICK j \in DOMAIN schema : schema[j].name = name /\ OfField(object[name], schema[j])
        BY <3>1 DEF Shaped
      <4>2. j = i
        BY <1>1, <4>1
      <4>3. old = object[name]
        BY <3>1 DEF Get
      <4> QED BY <4>1, <4>2, <4>3
    <3>2. CASE name \notin DOMAIN object
      <4>1. old = << >>
        BY <3>2 DEF Get
      <4>2. << >> \in Seq({}) /\ DOMAIN << >> = {}
        OBVIOUS
      <4> QED BY <1>5, <4>1, <4>2 DEF OfField, IsArray
    <3> QED BY <3>1, <3>2
  <2>3. OfField(new, field)
    <3>1. CASE value = {}
      BY <2>2, <3>1
    <3>2. CASE value # {}
      <4>1. IsArray(old) /\ \A k \in DOMAIN old : OfType(old[k], field.type)
        BY <1>5, <2>2 DEF OfField
      <4>2. new = Append(old, Some(value)) /\ OfType(Some(value), field.type)
        BY <1>2, <3>2
      <4> HIDE DEF new, old
      <4>3. IsArray(new) /\ \A k \in DOMAIN new : OfType(new[k], field.type)
        <5>1. \A k \in 1 .. Len(old) + 1 : k \in 1 .. Len(old) \/ k = Len(old) + 1
          BY <4>1, AppendArray
        <5> QED BY <4>1, <4>2, <5>1, AppendArray
      <4> QED BY <1>5, <4>3 DEF OfField
    <3> QED BY <3>1, <3>2
  <2> HIDE DEF new
  <2> QED BY <1>3, <2>1, <2>3
<1> QED
  BY <1>4, <1>5

ReadAs(value, type, read) ==
  /\ type.kind = "int" => value \in Int
  /\ type.kind = "message" => \E bytes \in Seq(Byte) : value = read[<<bytes, type.of>>]

\* A field is parsed into a value of its type.
LEMMA ParseTyped ==
  ASSUME NEW f \in Seen, NEW type, NEW read, NEW v \in Parse(f, type, read)
  PROVE  ReadAs(v, type, read)
<1> USE DEF ReadAs
<1>1. CASE type.kind = "int" /\ f.wire = 0
  <2>1. Parse(f, type, read) = {Signed(f.data)}
    BY <1>1, Zenon DEF Parse
  <2>2. f.data \in Nat
    BY <1>1 DEF Seen
  <2>3. Signed(f.data) \in Int
    BY <2>2, LimitFact DEF Signed
  <2> QED BY <1>1, <2>1, <2>3
<1>2. CASE type.kind = "message" /\ f.wire = 2
  <2>1. Parse(f, type, read) = {read[<<f.data, type.of>>]}
    BY <1>2, Zenon DEF Parse
  <2>2. f.data \in Seq(Byte)
    BY <1>2 DEF Seen
  <2> QED BY <1>2, <2>1, <2>2
<1>3. CASE type.kind = "int" /\ f.wire # 0
  <2>1. Parse(f, type, read) = {}
    BY <1>3, Zenon DEF Parse
  <2> QED BY <2>1
<1>4. CASE type.kind = "message" /\ f.wire # 2
  <2>1. Parse(f, type, read) = {}
    BY <1>4, Zenon DEF Parse
  <2> QED BY <2>1
<1> QED
  BY <1>1, <1>2, <1>3, <1>4

IsStored(stored, fields, schema, read, m) ==
  stored = [n \in 0 .. m |-> IF n = 0 THEN Empty ELSE Store(stored[n - 1], fields[n], schema, read)]

StoredOf(buf, schema, read) ==
  CHOOSE f : IsStored(f, Fields(buf), schema, read, Len(Fields(buf)))

\* The loop stores field by field.
LEMMA LoopFact ==
  ASSUME NEW buf \in Seq(Byte), NEW schema, NEW read
  PROVE  /\ StoredOf(buf, schema, read)[0] = Empty
         /\ \A n \in 1 .. Len(Fields(buf)) :
              StoredOf(buf, schema, read)[n] =
                Store(StoredOf(buf, schema, read)[n - 1], Fields(buf)[n], schema, read)
         /\ Loop(buf, schema, read) = StoredOf(buf, schema, read)[Len(Fields(buf))]
<1> DEFINE fields == Fields(buf)
           stored == StoredOf(buf, schema, read)
           S == {m \in Nat : \E f : IsStored(f, fields, schema, read, m)}
<1>1. Len(fields) \in Nat
  BY FieldsTyped, LenProperties
<1>2. Loop(buf, schema, read) = stored[Len(fields)]
  BY DEF Loop, IsStored, StoredOf
<1> HIDE DEF fields
<1>3. 0 \in S
  <2>1. IsStored([n \in 0 .. 0 |-> Empty], fields, schema, read, 0)
    BY DEF IsStored
  <2> QED BY <2>1
<1>4. ASSUME NEW m \in Nat, m \in S PROVE m + 1 \in S
  <2>1. PICK f : IsStored(f, fields, schema, read, m)
    BY <1>4
  <2> DEFINE g == [n \in 0 .. m + 1 |-> IF n <= m THEN f[n] ELSE Store(f[m], fields[n], schema, read)]
  <2>2. \A n \in 0 .. m : n # 0 => n - 1 \in 0 .. m
    OBVIOUS
  <2>3. IsStored(g, fields, schema, read, m + 1)
    BY <2>1, <2>2 DEF IsStored
  <2> QED BY <2>3
<1>5. \A m \in Nat : m \in S
  BY <1>3, <1>4, Induction
<1>6. IsStored(stored, fields, schema, read, Len(fields))
  BY <1>1, <1>5 DEF StoredOf, fields
<1> HIDE DEF stored
<1>7. stored[0] = Empty
  BY <1>1, <1>6 DEF IsStored
<1>8. ASSUME NEW n \in 1 .. Len(fields)
      PROVE  stored[n] = Store(stored[n - 1], fields[n], schema, read)
  <2>1. n \in 0 .. Len(fields) /\ n # 0
    BY <1>1
  <2> QED BY <1>6, <2>1 DEF IsStored
<1> QED
  BY <1>2, <1>7, <1>8 DEF fields, stored

\* The loop makes an object of that shape if `read` makes messages.
LEMMA LoopShaped ==
  ASSUME NEW schema \in Descriptors, NEW buf \in Seq(Byte), NEW read,
         \A sub \in Descriptors : \A bytes \in Seq(Byte) : Message(read[<<bytes, sub>>], sub)
  PROVE  Shaped(Loop(buf, schema, read), schema)
<1> DEFINE fields == Fields(buf)
           stored == StoredOf(buf, schema, read)
<1>1. fields \in Seq(Seen) /\ Len(fields) \in Nat
  BY FieldsTyped, LenProperties
<1>2. stored[0] = Empty
  BY LoopFact
<1>3. \A n \in 1 .. Len(fields) : stored[n] = Store(stored[n - 1], fields[n], schema, read)
  BY LoopFact
<1>4. Loop(buf, schema, read) = stored[Len(fields)]
  BY LoopFact
<1> HIDE DEF fields, stored
<1>5. ASSUME NEW object, Shaped(object, schema), NEW f \in Seen
      PROVE  Shaped(Store(object, f, schema, read), schema)
  <2> DEFINE known == {i \in DOMAIN schema : schema[i].number = f.number}
             field == schema[Min(known)]
             value == Parse(f, field.type, read)
  <2>1. CASE known = {}
    <3>1. Store(object, f, schema, read) = object
      BY <2>1 DEF Store
    <3> QED BY <1>5, <3>1
  <2>2. CASE known # {}
    <3>1. Store(object, f, schema, read) = Insert(object, field, value)
      BY <2>2 DEF Store
    <3>2. known \in SUBSET Nat
      BY DescriptorsAssumption
    <3>3. Min(known) \in DOMAIN schema
      BY <2>2, <3>2, MinFact
    <3>4. ASSUME NEW v \in value PROVE OfType(v, field.type)
      <4>1. field.type.kind = "message" => field.type.of \in Descriptors
        BY <3>3, DescriptorsAssumption DEF Nested
      <4>2. v \in Parse(f, field.type, read)
        BY <3>4
      <4> HIDE DEF value, field
      <4>3. ReadAs(v, field.type, read)
        BY <4>2, ParseTyped
      <4> QED BY <4>1, <4>3 DEF OfType, ReadAs
    <3> QED BY <1>5, <3>1, <3>3, <3>4, InsertShaped
  <2> QED BY <2>1, <2>2
<1> DEFINE T == {n \in Nat : n <= Len(fields) => Shaped(stored[n], schema)}
<1>6. 0 \in T
  BY <1>2, EmptyObject DEF Shaped
<1>7. ASSUME NEW n \in Nat, n \in T PROVE n + 1 \in T
  <2> SUFFICES ASSUME n + 1 <= Len(fields) PROVE Shaped(stored[n + 1], schema)
    OBVIOUS
  <2>1. stored[n + 1] = Store(stored[n], fields[n + 1], schema, read)
    BY <1>1, <1>3
  <2>2. Shaped(stored[n], schema) /\ fields[n + 1] \in Seen
    BY <1>1, <1>7
  <2> QED BY <1>5, <2>1, <2>2
<1>8. \A n \in Nat : n \in T
  BY <1>6, <1>7, Induction
<1> QED
  BY <1>1, <1>4, <1>8

Level(d, below) ==
  [message \in Seq(Byte) \X Descriptors |->
     IF d = 0 THEN Empty ELSE Loop(message[1], message[2], below)]

IsReader(reader, m) == reader = [d \in 0 .. m |-> Level(d, reader[d - 1])]

\* The reader satisfies its equation.
LEMMA ReaderFact ==
  ASSUME NEW m \in Nat
  PROVE  IsReader(Reader(m), m)
<1> DEFINE S == {k \in Nat : \E f : IsReader(f, k)}
<1>1. 0 \in S
  <2> DEFINE g == [d \in 0 .. 0 |-> Level(0, Empty)]
  <2>1. Level(0, Empty) = Level(0, g[0 - 1])
    BY DEF Level
  <2>2. IsReader(g, 0)
    BY <2>1 DEF IsReader
  <2> QED BY <2>2
<1>2. ASSUME NEW k \in Nat, k \in S PROVE k + 1 \in S
  <2>1. PICK f : IsReader(f, k)
    BY <1>2
  <2> DEFINE g == [d \in 0 .. k + 1 |-> IF d <= k THEN f[d] ELSE Level(k + 1, f[k])]
  <2>2. \A d \in 0 .. k : d # 0 => d - 1 \in 0 .. k
    OBVIOUS
  <2>3. \A below, other : Level(0, below) = Level(0, other)
    BY DEF Level
  <2>4. IsReader(g, k + 1)
    BY <2>1, <2>2, <2>3 DEF IsReader
  <2> QED BY <2>4
<1>3. \A k \in Nat : k \in S
  BY <1>1, <1>2, Induction
<1>4. \E f : IsReader(f, m)
  BY <1>3
<1> QED
  BY <1>4 DEF Reader, IsReader, Level

\* Whatever is read with a schema has its shape.
LEMMA MessageShaped ==
  ASSUME NEW schema \in Descriptors, NEW value, Message(value, schema)
  PROVE  Shaped(value, schema)
<1>1. PICK n \in Nat : \E d \in 0 .. n : \E bytes \in Seq(Byte) : value = Reader(n)[d][<<bytes, schema>>]
  BY DEF Message
<1>2. PICK d \in 0 .. n, bytes \in Seq(Byte) : value = Reader(n)[d][<<bytes, schema>>]
  BY <1>1
<1>3. IsReader(Reader(n), n)
  BY ReaderFact
<1>4. <<bytes, schema>> \in Seq(Byte) \X Descriptors
  OBVIOUS
<1>5. value = Level(d, Reader(n)[d - 1])[<<bytes, schema>>]
  BY <1>2, <1>3 DEF IsReader
<1>6. CASE d = 0
  <2>1. value = Empty
    BY <1>4, <1>5, <1>6 DEF Level
  <2> QED BY <2>1, EmptyObject DEF Shaped
<1>7. CASE d # 0
  <2>1. value = Loop(bytes, schema, Reader(n)[d - 1])
    BY <1>4, <1>5, <1>7 DEF Level
  <2>2. \A sub \in Descriptors : \A b \in Seq(Byte) : Message(Reader(n)[d - 1][<<b, sub>>], sub)
    <3>1. d - 1 \in 0 .. n
      BY <1>7
    <3> QED BY <3>1 DEF Message
  <2> QED BY <2>1, <2>2, LoopShaped
<1> QED
  BY <1>6, <1>7

-----------------------------------------------------------------------------
(* The way of a reply through the client                                   *)

\* What is in a body: bytes, behind the length of the stream if compressed.
IsBody(body, encoding) ==
  /\ body \in Seq(Nat)
  /\ \A i \in DOMAIN body : body[i] \in Byte \/ (encoding = "bzip2" /\ i = 1)

\* The inductive invariant: what is decoded is bytes, what is answered was
\* decoded with the descriptor of the reply.
Handled ==
  /\ reply.kind \in DOMAIN SchemaOf
  /\ DOMAIN raw = {"status", "encoding", "body"}
  /\ stage = "received" => IsBody(Unsealed(raw.body), raw.encoding) /\ raw.body \in Seq(Range(raw.body))
  /\ stage = "decrypted" => IsBody(raw.body, raw.encoding) /\ Len(raw.body) > 0
  /\ stage = "plain" => raw.body \in Seq(Byte)
  /\ Answered => Message(root, SchemaOf[reply.kind])

\* Bytes are numbers.
LEMMA BytesFact ==
  ASSUME NEW bytes \in Seq(Byte)
  PROVE  /\ bytes \in Seq(Nat) /\ Len(bytes) \in Nat /\ DOMAIN bytes = 1 .. Len(bytes)
         /\ \A i \in DOMAIN bytes : bytes[i] \in Byte
<1>1. Len(bytes) \in Nat /\ bytes \in [1 .. Len(bytes) -> Byte]
  BY LenProperties
<1>2. Byte \subseteq Nat
  BY WireAssumption DEF Byte
<1> DEFINE n == Len(bytes)
<1>3. n \in Nat /\ bytes \in [1 .. n -> Nat]
  BY <1>1, <1>2
<1> HIDE DEF n
<1>4. bytes \in Seq(Nat)
  BY <1>3, AsSeq
<1> QED
  BY <1>1, <1>4

\* A compressed stream is bytes behind their number.
LEMMA CompressedTyped ==
  ASSUME NEW bytes \in Seq(Byte), NEW encoding
  PROVE  IsBody(IF encoding = "bzip2" THEN Compressed(bytes) ELSE bytes, encoding)
<1> DEFINE n == Len(bytes)
           all == <<n>> \o bytes
<1>1. /\ bytes \in Seq(Nat) /\ n \in Nat /\ DOMAIN bytes = 1 .. n
      /\ \A i \in DOMAIN bytes : bytes[i] \in Byte
  BY BytesFact
<1>2. IsBody(bytes, encoding)
  BY <1>1 DEF IsBody
<1> HIDE DEF n
<1>3. <<n>> \in Seq(Nat) /\ Len(<<n>>) = 1
  BY <1>1
<1>4. /\ all \in Seq(Nat) /\ Len(all) = 1 + n
      /\ \A i \in 1 .. 1 + n : all[i] = IF i <= 1 THEN <<n>>[i] ELSE bytes[i - 1]
  BY <1>1, <1>3, ConcatProperties DEF n
<1> HIDE DEF all
<1>5. DOMAIN all = 1 .. 1 + n
  BY <1>4
<1>6. \A i \in DOMAIN all : i # 1 => i - 1 \in DOMAIN bytes /\ all[i] = bytes[i - 1]
  BY <1>1, <1>4, <1>5
<1>7. IsBody(all, "bzip2")
  BY <1>1, <1>4, <1>6 DEF IsBody
<1> QED
  BY <1>2, <1>7 DEF Compressed, all, n

\* So is a padded one.
LEMMA PaddedTyped ==
  ASSUME NEW stream, NEW encoding, IsBody(stream, encoding)
  PROVE  IsBody(Padded(stream), encoding)
<1> DEFINE k == (-Len(stream)) % Block
           zeros == [i \in 1 .. k |-> 0]
           all == stream \o zeros
<1>1. stream \in Seq(Nat) /\ Len(stream) \in Nat /\ DOMAIN stream = 1 .. Len(stream)
  BY LenProperties DEF IsBody
<1>2. k \in Nat
  BY <1>1, BlockAssumption
<1> HIDE DEF k
<1>3. zeros \in [1 .. k -> Nat] /\ \A i \in 1 .. k : zeros[i] = 0
  OBVIOUS
<1> HIDE DEF zeros
<1>4. zeros \in Seq(Nat) /\ Len(zeros) = k
  BY <1>2, <1>3, AsSeq
<1>5. /\ all \in Seq(Nat) /\ Len(all) = Len(stream) + Len(zeros)
      /\ \A i \in 1 .. Len(stream) + Len(zeros) :
           all[i] = IF i <= Len(stream) THEN stream[i] ELSE zeros[i - Len(stream)]
  BY <1>1, <1>4, ConcatProperties
<1> HIDE DEF all
<1>6. DOMAIN all = 1 .. Len(stream) + k
  BY <1>4, <1>5
<1>7. \A i \in DOMAIN all : (i \in DOMAIN stream /\ all[i] = stream[i]) \/ all[i] = 0
  BY <1>1, <1>2, <1>3, <1>4, <1>5, <1>6
<1>8. 0 \in Byte
  BY WireAssumption DEF Byte
<1>9. IsBody(all, encoding)
  BY <1>5, <1>7, <1>8 DEF IsBody
<1> QED
  BY <1>9 DEF Padded, all, zeros, k

\* Whatever part of a reply arrives decrypts to a part of such a stream.
LEMMA BodyTyped ==
  ASSUME NEW r \in Replies \cup Fragile, NEW header, NEW kept \in 0 .. Len(BodyOf(r, header))
  PROVE  LET body == SubSeq(BodyOf(r, header), 1, kept)
         IN  IsBody(Unsealed(body), Encoding(header)) /\ body \in Seq(Range(body))
<1> DEFINE stream == IF Encoding(header) = "bzip2" THEN Compressed(r.bytes) ELSE r.bytes
           padded == Padded(stream)
           all == BodyOf(r, header)
           body == SubSeq(all, 1, kept)
<1>1. r.bytes \in Seq(Byte)
  BY RepliesAssumption
<1>2. IsBody(stream, Encoding(header))
  BY <1>1, CompressedTyped
<1> HIDE DEF stream
<1>3. IsBody(padded, Encoding(header))
  BY <1>2, PaddedTyped
<1>4. all = [i \in DOMAIN padded |-> [sealed |-> padded[i]]]
  BY DEF BodyOf, Sealed, stream
<1> HIDE DEF padded, all
<1>5. /\ padded \in Seq(Nat) /\ Len(padded) \in Nat /\ DOMAIN padded = 1 .. Len(padded)
      /\ \A i \in 1 .. Len(padded) : padded[i] \in Nat
  BY <1>3, LenProperties DEF IsBody
<1>6. all \in [1 .. Len(padded) -> [sealed : Nat]]
  BY <1>4, <1>5
<1>7. Len(all) = Len(padded)
  BY <1>5, <1>6, AsSeq
<1>8. kept \in Int /\ 1 .. kept \subseteq DOMAIN padded /\ kept \in Nat
  BY <1>5, <1>7 DEF all
<1>9. \A i \in 1 .. kept : all[i] \in [sealed : Nat]
  BY <1>4, <1>5, <1>6, <1>8
<1>10. /\ body \in Seq([sealed : Nat])
       /\ Len(body) = IF 1 <= kept THEN kept - 1 + 1 ELSE 0
       /\ \A i \in 1 .. kept - 1 + 1 : body[i] = all[1 + i - 1]
  BY <1>8, <1>9, SubSeqProperties
<1> HIDE DEF body
<1>11. Len(body) = kept /\ DOMAIN body = 1 .. kept /\ \A i \in 1 .. kept : body[i] = all[i]
  BY <1>8, <1>10
<1>12. \A i \in 1 .. kept : body[i].sealed = padded[i]
  BY <1>4, <1>8, <1>11
<1>13. Unsealed(body) = [i \in 1 .. kept |-> padded[i]]
  BY <1>11, <1>12 DEF Unsealed
<1>14. Unsealed(body) \in [1 .. kept -> Nat]
  BY <1>5, <1>8, <1>13
<1>15. Unsealed(body) \in Seq(Nat)
  BY <1>8, <1>14, AsSeq
<1>16. IsBody(Unsealed(body), Encoding(header))
  BY <1>3, <1>8, <1>13, <1>15 DEF IsBody
<1>17. body \in [1 .. kept -> Range(body)]
  BY <1>10, <1>11 DEF Range
<1>18. body \in Seq(Range(body))
  BY <1>8, <1>17, AsSeq
<1> QED
  BY <1>16, <1>18 DEF body, all

\* A body has a length.
LEMMA BodyLength ==
  ASSUME NEW r \in Replies \cup Fragile, NEW header
  PROVE  Len(BodyOf(r, header)) \in Nat
<1> DEFINE stream == IF Encoding(header) = "bzip2" THEN Compressed(r.bytes) ELSE r.bytes
           padded == Padded(stream)
<1>1. IsBody(stream, Encoding(header))
  BY RepliesAssumption, CompressedTyped
<1> HIDE DEF stream
<1>2. IsBody(padded, Encoding(header))
  BY <1>1, PaddedTyped
<1>3. BodyOf(r, header) = [i \in DOMAIN padded |-> [sealed |-> padded[i]]]
  BY DEF BodyOf, Sealed, stream
<1> HIDE DEF padded
<1>4. Len(padded) \in Nat /\ DOMAIN padded = 1 .. Len(padded) /\ padded \in [1 .. Len(padded) -> Nat]
  BY <1>2, LenProperties DEF IsBody
<1>5. BodyOf(r, header) \in [1 .. Len(padded) -> [sealed : Nat]]
  BY <1>3, <1>4
<1> QED
  BY <1>4, <1>5, AsSeq

\* A body that is not compressed is bytes.
LEMMA PlainBody ==
  ASSUME NEW body, IsBody(body, "none")
  PROVE  body \in Seq(Byte)
<1> DEFINE n == Len(body)
<1>1. n \in Nat /\ body \in [1 .. n -> Nat] /\ \A i \in DOMAIN body : body[i] \in Byte
  BY LenProperties DEF IsBody
<1>2. body \in [1 .. n -> Byte]
  BY <1>1
<1> HIDE DEF n
<1> QED
  BY <1>1, <1>2, AsSeq

\* What a reply becomes when it arrives, in any of the three ways.
LEMMA ReceivedHandled ==
  ASSUME NEW r \in Replies \cup Fragile, NEW header, NEW status,
         NEW kept \in 0 .. Len(BodyOf(r, header)),
         Received(r, header, status, kept), stage' = "received"
  PROVE  Handled'
<1> DEFINE body == SubSeq(BodyOf(r, header), 1, kept)
<1>1. reply'.kind \in DOMAIN SchemaOf
  BY RepliesAssumption DEF Received
<1>2. raw' = [status |-> status, encoding |-> Encoding(header), body |-> body]
  BY DEF Received
<1>3. IsBody(Unsealed(body), Encoding(header)) /\ body \in Seq(Range(body))
  BY BodyTyped
<1> HIDE DEF body
<1>4. DOMAIN raw' = {"status", "encoding", "body"} /\ raw'.body = body /\ raw'.encoding = Encoding(header)
  BY <1>2
<1> QED
  BY <1>1, <1>3, <1>4 DEF Handled, Answered

\* A stream that decompresses does so to bytes.
LEMMA DecompressedTyped ==
  ASSUME NEW stream, IsBody(stream, "bzip2"), Len(stream) > 0, NEW bytes \in Decompressed(stream)
  PROVE  bytes \in Seq(Byte)
<1>1. stream \in Seq(Nat) /\ Len(stream) \in Nat /\ DOMAIN stream = 1 .. Len(stream) /\ stream # << >>
  BY LenProperties DEF IsBody
<1>2. Head(stream) = stream[1] /\ Head(stream) \in Nat
  BY <1>1, HeadTailProperties
<1> DEFINE z == Head(stream) + 1
<1>3. bytes = SubSeq(stream, 2, z) /\ z \in Int /\ z <= Len(stream)
  BY <1>1, <1>2 DEF Decompressed
<1> HIDE DEF z
<1>4. \A i \in DOMAIN stream : i # 1 => stream[i] \in Byte
  BY DEF IsBody
<1>5. \A i \in 2 .. z : i \in 1 .. Len(stream) /\ i # 1
  BY <1>1, <1>3
<1>6. \A i \in 2 .. z : stream[i] \in Byte
  BY <1>1, <1>4, <1>5, Zenon
<1>7. SubSeq(stream, 2, z) \in Seq(Byte)
  BY <1>3, <1>6, SubSeqProperties
<1> QED
  BY <1>3, <1>7

\* Every answer was decoded with its descriptor: Handled is inductive.
THEOREM HandledInvariant == Spec => []Handled
<1>1. Init => Handled
  <2> SUFFICES ASSUME Init PROVE Handled
    OBVIOUS
  <2>1. reply.kind = "skills" /\ "skills" \in DOMAIN SchemaOf
    BY DEF Init, NoReply, SchemaOf, Over
  <2> QED BY <2>1 DEF Init, Handled, Nothing, Answered
<1>2. Handled /\ [Next]_vars => Handled'
  <2> SUFFICES ASSUME Handled, [Next]_vars PROVE Handled'
    OBVIOUS
  <2>1. CASE Arrives
    <3>1. PICK r \in Replies, header \in {"absent", "bzip2"} :
             Received(r, header, 200, Len(BodyOf(r, header)))
      BY <2>1 DEF Arrives
    <3>2. Len(BodyOf(r, header)) \in 0 .. Len(BodyOf(r, header)) /\ r \in Replies \cup Fragile
      BY BodyLength
    <3> QED BY <2>1, <3>1, <3>2, ReceivedHandled DEF Arrives, Start
  <2>2. CASE ArrivesOddly
    <3>1. PICK r \in Fragile, header \in Headers, status \in Statuses :
             Received(r, header, status, Len(BodyOf(r, header)))
      BY <2>2 DEF ArrivesOddly
    <3>2. Len(BodyOf(r, header)) \in 0 .. Len(BodyOf(r, header)) /\ r \in Replies \cup Fragile
      BY BodyLength
    <3> QED BY <2>2, <3>1, <3>2, ReceivedHandled DEF ArrivesOddly, Start
  <2>3. CASE ArrivesTorn
    <3>1. PICK r \in Fragile, header \in Headers : \E kept \in 0 .. Len(BodyOf(r, header)) - 1 :
             Received(r, header, 200, kept)
      BY <2>3 DEF ArrivesTorn
    <3>2. PICK kept \in 0 .. Len(BodyOf(r, header)) - 1 : Received(r, header, 200, kept)
      BY <3>1
    <3>3. kept \in 0 .. Len(BodyOf(r, header)) /\ r \in Replies \cup Fragile
      BY BodyLength
    <3> QED BY <2>3, <3>2, <3>3, ReceivedHandled DEF ArrivesTorn, Start
  <2>4. CASE Breaks
    <3>1. \E r \in Fragile : reply'.kind = r.kind
      BY <2>4 DEF Breaks
    <3> QED BY <2>4, <3>1, RepliesAssumption DEF Breaks, Handled, Answered
  <2>5. ASSUME NEW status, Fail(status), status # 200 PROVE Handled'
    BY <2>5 DEF Fail, Handled, Nothing, Answered
  <2>6. CASE Refused \/ Undecryptable \/ Unsupported
    BY <2>5, <2>6 DEF Refused, Undecryptable, Unsupported
  <2>7. CASE Decrypt
    <3>1. IsBody(Unsealed(raw.body), raw.encoding) /\ raw.body \in Seq(Range(raw.body))
      BY <2>7 DEF Handled, Decrypt
    <3>2. DOMAIN raw' = {"status", "encoding", "body"} /\ raw'.body = Unsealed(raw.body)
             /\ raw'.encoding = raw.encoding
      BY <2>7 DEF Handled, Decrypt
    <3>3. Len(Unsealed(raw.body)) = Len(raw.body)
      <4>1. DOMAIN Unsealed(raw.body) = DOMAIN raw.body
        BY DEF Unsealed
      <4>2. /\ Len(raw.body) \in Nat /\ DOMAIN raw.body = 1 .. Len(raw.body)
            /\ Len(Unsealed(raw.body)) \in Nat
            /\ DOMAIN Unsealed(raw.body) = 1 .. Len(Unsealed(raw.body))
        BY <3>1, LenProperties DEF IsBody
      <4> QED BY <4>1, <4>2
    <3> QED BY <2>7, <3>1, <3>2, <3>3 DEF Decrypt, Handled, Answered
  <2>8. CASE TakePlain
    <3>1. IsBody(raw.body, raw.encoding) /\ raw.encoding = "none"
      BY <2>8 DEF TakePlain, Handled
    <3>2. raw.body \in Seq(Byte)
      BY <3>1, PlainBody
    <3> QED BY <2>8, <3>2 DEF TakePlain, Handled, Answered
  <2>9. CASE Decompress
    <3>1. CASE Decompressed(raw.body) = {}
      BY <2>5, <2>9, <3>1 DEF Decompress
    <3>2. CASE Decompressed(raw.body) # {}
      <4>1. PICK message \in Decompressed(raw.body) : raw' = [raw EXCEPT !.body = message]
        BY <2>9, <3>2 DEF Decompress
      <4>2. message \in Seq(Byte)
        BY <2>9, DecompressedTyped DEF Decompress, Handled
      <4>3. DOMAIN raw' = {"status", "encoding", "body"} /\ raw'.body = message
        BY <4>1 DEF Handled
      <4> QED BY <2>9, <3>2, <4>2, <4>3 DEF Decompress, Handled, Answered
    <3> QED BY <3>1, <3>2
  <2>10. CASE DecodeReply
    <3>1. raw.body \in Seq(Byte) /\ Len(raw.body) \in Nat
      BY <2>10, LenProperties DEF DecodeReply, Handled
    <3>2. Message(root', SchemaOf[reply.kind])
      <4> DEFINE n == Len(raw.body)
      <4>1. root' = Reader(n)[n][<<raw.body, SchemaOf[reply.kind]>>]
        BY <2>10 DEF DecodeReply, Decode
      <4>2. n \in Nat /\ n \in 0 .. n
        BY <3>1
      <4> HIDE DEF n
      <4> QED BY <3>1, <4>1, <4>2 DEF Message
    <3> QED BY <2>10, <3>2 DEF DecodeReply, Handled, Answered, Nothing
  <2>11. CASE Done
    <3>1. "skills" \in DOMAIN SchemaOf
      BY DEF SchemaOf, Over
    <3> QED BY <2>11, <3>1 DEF Done, Handled, Nothing, NoReply, Answered
  <2>12. CASE UNCHANGED vars
    BY <2>12 DEF vars, Handled, Answered
  <2> QED
    BY <2>1, <2>2, <2>3, <2>4, <2>6, <2>7, <2>8, <2>9, <2>10, <2>11, <2>12 DEF Next
<1> QED
  BY <1>1, <1>2, PTL DEF Spec

-----------------------------------------------------------------------------
(* What is known of the members of a decoded object                        *)

\* What is answered has a descriptor that it was decoded with.
LEMMA AnsweredMessage ==
  ASSUME Handled, Answered
  PROVE  SchemaOf[reply.kind] \in Descriptors /\ Message(root, SchemaOf[reply.kind])
BY RepliesAssumption DEF Handled

NamesOf(schema) == {schema[i].name : i \in DOMAIN schema}

\* It has no member but those of the descriptor,
LEMMA MessageNames ==
  ASSUME NEW schema \in Descriptors, NEW object, Message(object, schema)
  PROVE  DOMAIN object \subseteq NamesOf(schema)
BY MessageShaped DEF Shaped, NamesOf

\* and each is as its field says.
LEMMA MessageField ==
  ASSUME NEW schema \in Descriptors, NEW object, Message(object, schema),
         NEW i \in DOMAIN schema, schema[i].name \in DOMAIN object
  PROVE  OfField(object[schema[i].name], schema[i])
<1>1. PICK j \in DOMAIN schema : schema[j].name = schema[i].name /\ OfField(object[schema[i].name], schema[j])
  BY MessageShaped DEF Shaped
<1>2. i = j
  BY <1>1, DescriptorsAssumption
<1> QED
  BY <1>1, <1>2

\* The object without members is a message of any kind.
LEMMA EmptyMessage ==
  ASSUME NEW schema \in Descriptors
  PROVE  Message(Empty, schema)
<1>1. IsReader(Reader(0), 0) /\ 0 \in Nat /\ 0 \in 0 .. 0
  BY ReaderFact
<1>2. << >> \in Seq(Byte)
  OBVIOUS
<1>3. <<(<< >>), schema>> \in Seq(Byte) \X Descriptors
  BY <1>2
<1>4. Reader(0)[0] = Level(0, Reader(0)[0 - 1])
  BY <1>1 DEF IsReader
<1>5. Reader(0)[0][<<(<< >>), schema>>] = Empty
  BY <1>3, <1>4 DEF Level
<1> QED
  BY <1>1, <1>2, <1>5 DEF Message

\* A member that is a message is one, and so is what stands in for it.
LEMMA MemberMessage ==
  ASSUME NEW schema \in Descriptors, NEW object, Message(object, schema),
         NEW i \in DOMAIN schema, NEW sub, NEW name,
         schema[i].name = name, ~ schema[i].repeated,
         schema[i].type.kind = "message", schema[i].type.of = sub
  PROVE  sub \in Descriptors /\ Message(Get(object, name, Empty), sub)
<1>1. sub \in Descriptors
  BY DescriptorsAssumption DEF Nested
<1>2. CASE name \in DOMAIN object
  <2>1. OfField(object[name], schema[i])
    BY <1>2, MessageField
  <2>2. Message(object[name], sub)
    BY <2>1 DEF OfField, OfType
  <2> QED BY <1>1, <1>2, <2>2 DEF Get
<1>3. CASE name \notin DOMAIN object
  BY <1>1, <1>3, EmptyMessage DEF Get
<1> QED
  BY <1>1, <1>2, <1>3

\* An array of messages, and what stands in for it.
LEMMA MemberMessages ==
  ASSUME NEW schema \in Descriptors, NEW object, Message(object, schema),
         NEW i \in DOMAIN schema, NEW sub, NEW name,
         schema[i].name = name, schema[i].repeated,
         schema[i].type.kind = "message", schema[i].type.of = sub
  PROVE  /\ sub \in Descriptors /\ IsArray(Get(object, name, << >>))
         /\ \A k \in DOMAIN Get(object, name, << >>) : Message(Get(object, name, << >>)[k], sub)
<1>1. sub \in Descriptors
  BY DescriptorsAssumption DEF Nested
<1>2. CASE name \in DOMAIN object
  <2>1. OfField(object[name], schema[i])
    BY <1>2, MessageField
  <2>2. IsArray(object[name]) /\ \A k \in DOMAIN object[name] : Message(object[name][k], sub)
    BY <2>1 DEF OfField, OfType
  <2> QED BY <1>1, <1>2, <2>2 DEF Get
<1>3. CASE name \notin DOMAIN object
  <2>1. Get(object, name, << >>) = << >>
    BY <1>3 DEF Get
  <2>2. IsArray(<< >>) /\ DOMAIN << >> = {}
    <3>1. << >> \in Seq({})
      OBVIOUS
    <3> QED BY <3>1 DEF IsArray
  <2> QED BY <1>1, <2>1, <2>2
<1> QED
  BY <1>1, <1>2, <1>3

\* The entries of a list.
LEMMA ListEntries ==
  ASSUME NEW sub, ListOf(sub) \in Descriptors, NEW object, Message(object, ListOf(sub))
  PROVE  /\ sub \in Descriptors /\ IsArray(Entries(object))
         /\ \A k \in DOMAIN Entries(object) : Message(Entries(object)[k], sub)
<1>1. /\ 1 \in DOMAIN ListOf(sub) /\ ListOf(sub)[1].name = "entries" /\ ListOf(sub)[1].repeated
      /\ ListOf(sub)[1].type.kind = "message" /\ ListOf(sub)[1].type.of = sub
  BY DEF ListOf, Repeated, Sub, Field
<1> QED
  BY <1>1, MemberMessages DEF Entries

-----------------------------------------------------------------------------
(* Rankings                                                                *)

\* The users of a container are those of the report.
LEMMA BuildUsers ==
  ASSUME NEW m, NEW name
  PROVE  Uids(build_users(m, name)) = SentIn(m, {name})
<1> DEFINE users == Entries(Get(m, name, Empty))
<1>1. Uids(build_users(m, name)) = {Get(u, "userId", 0) : u \in Range(users)}
  <2>1. \A v : parse_user(v).uid = Get(v, "userId", 0)
    BY DEF parse_user
  <2> QED BY <2>1 DEF Uids, build_users, Range
<1>2. CASE name \in DOMAIN m
  BY <1>1, <1>2 DEF SentIn, Get
<1>3. CASE name \notin DOMAIN m
  <2>1. Get(m, name, Empty) = << >>
    BY <1>3 DEF Get, Empty
  <2>2. users = << >>
    BY <2>1 DEF Entries, Get
  <2>3. Range(users) = {}
    BY <2>2 DEF Range
  <2> QED BY <1>1, <1>3, <2>3 DEF SentIn
<1> QED
  BY <1>2, <1>3

\* A container that is not in the message has sent nobody.
LEMMA SentBy ==
  ASSUME NEW m, NEW a, NEW b, b \notin DOMAIN m
  PROVE  SentIn(m, {a, b}) = SentIn(m, {a}) /\ SentIn(m, {b, a}) = SentIn(m, {a})
BY DEF SentIn

\* A member that is not there was not sent.
LEMMA SentByNone ==
  ASSUME NEW m, NEW a, a \notin DOMAIN m
  PROVE  SentIn(m, {a}) = {}
BY DEF SentIn

\* The containers that the replies of events have.
LEMMA EventContainers ==
  /\ NamesOf(EVENT_TYPE_SCHEMAS["medley"]) =
       {"eventPointNearUsers", "eventPointTopUsers", "scoreNearUsers", "scoreTopUsers",
        "eventPointBorderUsers", "scoreBorderUsers"}
  /\ NamesOf(EVENT_TYPE_SCHEMAS["challenge"]) =
       {"eventPointNearUsers", "eventPointTopUsers", "eventPointBorderUsers", "challengeMusicRankings"}
  /\ NamesOf(EVENT_TYPE_SCHEMAS["versus"]) =
       {"eventPointNearUsers", "eventPointTopUsers", "eventPointBorderUsers", "versusMusicRankings"}
  /\ NamesOf(EVENT_TYPE_SCHEMAS["live_try"]) = {"nearUsers", "topUsers", "eventPointBorderUsers"}
  /\ NamesOf(EVENT_TYPE_SCHEMAS["story"]) = {"nearUsers", "topUsers"}
  /\ NamesOf(EVENT_TYPE_SCHEMAS["mission_live"]) = {"nearUsers", "topUsers", "borderUsers"}
  /\ NamesOf(EVENT_TYPE_SCHEMAS["team_live_festival"]) = {"nearUsers", "topUsers", "eventPointBorderUsers"}
<1> USE DEF NamesOf, EVENT_TYPE_SCHEMAS, Users, Repeated, Sub, Num, Field
<1>1. NamesOf(EVENT_TYPE_SCHEMAS["medley"]) =
       {"eventPointNearUsers", "eventPointTopUsers", "scoreNearUsers", "scoreTopUsers",
        "eventPointBorderUsers", "scoreBorderUsers"}
  BY DEF USER_MEDLEY_EVENT_RANKING_RESPONSE_SCHEMA
<1>2. NamesOf(EVENT_TYPE_SCHEMAS["challenge"]) =
       {"eventPointNearUsers", "eventPointTopUsers", "eventPointBorderUsers", "challengeMusicRankings"}
  BY DEF USER_CHALLENGE_EVENT_RANKING_RESPONSE_SCHEMA
<1>3. NamesOf(EVENT_TYPE_SCHEMAS["versus"]) =
       {"eventPointNearUsers", "eventPointTopUsers", "eventPointBorderUsers", "versusMusicRankings"}
  BY DEF USER_VERSUS_EVENT_RANKING_RESPONSE_SCHEMA
<1>4. NamesOf(EVENT_TYPE_SCHEMAS["live_try"]) = {"nearUsers", "topUsers", "eventPointBorderUsers"}
  BY DEF USER_LIVE_TRY_EVENT_RANKING_RESPONSE_SCHEMA
<1>5. NamesOf(EVENT_TYPE_SCHEMAS["story"]) = {"nearUsers", "topUsers"}
  BY DEF USER_STORY_EVENT_RANKING_RESPONSE_SCHEMA
<1>6. NamesOf(EVENT_TYPE_SCHEMAS["mission_live"]) = {"nearUsers", "topUsers", "borderUsers"}
  BY DEF USER_MISSION_LIVE_EVENT_RANKING_RESPONSE_SCHEMA
<1>7. NamesOf(EVENT_TYPE_SCHEMAS["team_live_festival"]) = {"nearUsers", "topUsers", "eventPointBorderUsers"}
  BY DEF USER_TEAM_LIVE_FESTIVAL_EVENT_RANKING_RESPONSE_SCHEMA
<1> QED
  BY <1>1, <1>2, <1>3, <1>4, <1>5, <1>6, <1>7

SongsSent(m, name) == UNION {SentIn(s, {name}) : s \in SentRankings(m)}

\* The users of the single songs are those of the report.
LEMMA SongUsers ==
  ASSUME NEW m, NEW name \in {"challengeMusicRankings", "versusMusicRankings"},
         NEW other \in {"challengeMusicRankings", "versusMusicRankings"} \ {name},
         other \notin DOMAIN m, "scoreTopUsers" \notin DOMAIN m, "scoreBorderUsers" \notin DOMAIN m
  PROVE  /\ UNION {Uids(r.scoreTopUsers) : r \in Range(build_music_rankings(m, name))}
              = SongsSent(m, "scoreTopUsers")
         /\ UNION {Uids(r.scoreBorderUsers) : r \in Range(build_music_rankings(m, name))}
              = SongsSent(m, "scoreBorderUsers")
<1> DEFINE songs == Get(m, name, << >>)
           rankings == build_music_rankings(m, name)
<1>1. SentRankings(m) = {m} \cup Range(songs)
  <2>1. CASE name \in DOMAIN m
    <3>1. {"challengeMusicRankings", "versusMusicRankings"} \cap DOMAIN m = {name}
      BY <2>1
    <3> QED BY <2>1, <3>1 DEF SentRankings, Get
  <2>2. CASE name \notin DOMAIN m
    <3>1. {"challengeMusicRankings", "versusMusicRankings"} \cap DOMAIN m = {}
      BY <2>2
    <3>2. songs = << >> /\ Range(<< >>) = {}
      BY <2>2 DEF Get, Range
    <3> QED BY <3>1, <3>2 DEF SentRankings
  <2> QED BY <2>1, <2>2
<1>2. /\ SongsSent(m, "scoreTopUsers") = UNION {SentIn(s, {"scoreTopUsers"}) : s \in Range(songs)}
      /\ SongsSent(m, "scoreBorderUsers") = UNION {SentIn(s, {"scoreBorderUsers"}) : s \in Range(songs)}
  BY <1>1, SentByNone DEF SongsSent
<1>3. /\ DOMAIN rankings = DOMAIN songs
      /\ \A i \in DOMAIN songs :
           /\ rankings[i].scoreTopUsers = build_users(songs[i], "scoreTopUsers")
           /\ rankings[i].scoreBorderUsers = build_users(songs[i], "scoreBorderUsers")
  <2>1. CASE name \in DOMAIN m
    BY <2>1 DEF build_music_rankings, Get
  <2>2. CASE name \notin DOMAIN m
    BY <2>2 DEF build_music_rankings, Get
  <2> QED BY <2>1, <2>2
<1> HIDE DEF songs, rankings
<1>4. \A i \in DOMAIN songs :
        /\ Uids(rankings[i].scoreTopUsers) = SentIn(songs[i], {"scoreTopUsers"})
        /\ Uids(rankings[i].scoreBorderUsers) = SentIn(songs[i], {"scoreBorderUsers"})
  BY <1>3, BuildUsers
<1>5. /\ UNION {Uids(r.scoreTopUsers) : r \in Range(rankings)}
           = UNION {SentIn(s, {"scoreTopUsers"}) : s \in Range(songs)}
      /\ UNION {Uids(r.scoreBorderUsers) : r \in Range(rankings)}
           = UNION {SentIn(s, {"scoreBorderUsers"}) : s \in Range(songs)}
  BY <1>3, <1>4 DEF Range
<1> QED
  BY <1>2, <1>5 DEF rankings

\* The report of an event has the users of the reply.
IsWholeReport(report, m) ==
  LET rankings == Range(report.musicRankings)
  IN  /\ Uids(report.eventPointTopUsers) = SentIn(m, {"eventPointTopUsers", "topUsers"})
      /\ Uids(report.eventPointBorderUsers) = SentIn(m, {"eventPointBorderUsers", "borderUsers"})
      /\ UNION {Uids(r.scoreTopUsers) : r \in rankings} = SongsSent(m, "scoreTopUsers")
      /\ UNION {Uids(r.scoreBorderUsers) : r \in rankings} = SongsSent(m, "scoreBorderUsers")

\* The users of the whole event are those of the containers of its type.
LEMMA PointUsers ==
  ASSUME NEW kind \in DOMAIN EVENT_TYPE_SCHEMAS, NEW m,
         DOMAIN m \subseteq NamesOf(EVENT_TYPE_SCHEMAS[kind])
  PROVE  LET report == event_ranking_report(m, kind)
         IN  /\ Uids(report.eventPointTopUsers) = SentIn(m, {"eventPointTopUsers", "topUsers"})
             /\ Uids(report.eventPointBorderUsers) = SentIn(m, {"eventPointBorderUsers", "borderUsers"})
<1> DEFINE report == event_ranking_report(m, kind)
<1>1. /\ report.eventPointTopUsers = build_users(m, TopContainer(kind))
      /\ report.eventPointBorderUsers = IF kind = "story" THEN << >>
                                        ELSE build_users(m, BorderContainer(kind))
  BY DEF event_ranking_report
<1>2. kind \in {"medley", "challenge", "versus", "live_try", "story", "mission_live", "team_live_festival"}
  BY DEF EVENT_TYPE_SCHEMAS
<1>3. Uids(report.eventPointTopUsers) = SentIn(m, {"eventPointTopUsers", "topUsers"})
  <2>1. CASE kind \in {"medley", "challenge", "versus"}
    <3>1. "topUsers" \notin DOMAIN m
      BY <2>1, EventContainers
    <3>2. report.eventPointTopUsers = build_users(m, "eventPointTopUsers")
      BY <1>1, <2>1 DEF TopContainer
    <3>3. SentIn(m, {"eventPointTopUsers", "topUsers"}) = SentIn(m, {"eventPointTopUsers"})
      BY <3>1, SentBy
    <3> QED BY <3>2, <3>3, BuildUsers
  <2>2. CASE kind \notin {"medley", "challenge", "versus"}
    <3>1. "eventPointTopUsers" \notin DOMAIN m
      BY <1>2, <2>2, EventContainers
    <3>2. report.eventPointTopUsers = build_users(m, "topUsers")
      BY <1>1, <2>2 DEF TopContainer
    <3>3. SentIn(m, {"eventPointTopUsers", "topUsers"}) = SentIn(m, {"topUsers"})
      BY <3>1, SentBy
    <3> QED BY <3>2, <3>3, BuildUsers
  <2> QED BY <2>1, <2>2
<1>4. Uids(report.eventPointBorderUsers) = SentIn(m, {"eventPointBorderUsers", "borderUsers"})
  <2>1. CASE kind = "story"
    <3>1. DOMAIN m \cap {"eventPointBorderUsers", "borderUsers"} = {}
      BY <2>1, EventContainers
    <3>2. report.eventPointBorderUsers = << >> /\ Uids(<< >>) = {}
      BY <1>1, <2>1 DEF Uids, Range
    <3> QED BY <3>1, <3>2 DEF SentIn
  <2>2. CASE kind = "mission_live"
    <3>1. "eventPointBorderUsers" \notin DOMAIN m
      BY <2>2, EventContainers
    <3>2. report.eventPointBorderUsers = build_users(m, "borderUsers")
      BY <1>1, <2>2 DEF BorderContainer
    <3>3. SentIn(m, {"eventPointBorderUsers", "borderUsers"}) = SentIn(m, {"borderUsers"})
      BY <3>1, SentBy
    <3> QED BY <3>2, <3>3, BuildUsers
  <2>3. CASE kind \notin {"story", "mission_live"}
    <3>1. "borderUsers" \notin DOMAIN m
      BY <1>2, <2>3, EventContainers
    <3>2. report.eventPointBorderUsers = build_users(m, "eventPointBorderUsers")
      BY <1>1, <2>3 DEF BorderContainer
    <3>3. SentIn(m, {"eventPointBorderUsers", "borderUsers"}) = SentIn(m, {"eventPointBorderUsers"})
      BY <3>1, SentBy
    <3> QED BY <3>2, <3>3, BuildUsers
  <2> QED BY <2>1, <2>2, <2>3
<1> QED
  BY <1>3, <1>4

\* The descriptors of the events name the containers the report looks for.
LEMMA EventReport ==
  ASSUME NEW kind \in DOMAIN EVENT_TYPE_SCHEMAS, NEW m,
         DOMAIN m \subseteq NamesOf(EVENT_TYPE_SCHEMAS[kind])
  PROVE  IsWholeReport(event_ranking_report(m, kind), m)
<1> DEFINE report == event_ranking_report(m, kind)
           rankings == MusicRankings(m, kind)
<1>1. /\ report.musicRankings = rankings
      /\ Uids(report.eventPointTopUsers) = SentIn(m, {"eventPointTopUsers", "topUsers"})
      /\ Uids(report.eventPointBorderUsers) = SentIn(m, {"eventPointBorderUsers", "borderUsers"})
  BY PointUsers DEF event_ranking_report
<1>2. /\ UNION {Uids(r.scoreTopUsers) : r \in Range(rankings)} = SongsSent(m, "scoreTopUsers")
      /\ UNION {Uids(r.scoreBorderUsers) : r \in Range(rankings)} = SongsSent(m, "scoreBorderUsers")
  <2>1. CASE kind = "medley"
    <3> DEFINE song == [musicId          |-> 1,
                        scoreTopUsers    |-> build_users(m, "scoreTopUsers"),
                        scoreBorderUsers |-> build_users(m, "scoreBorderUsers")]
    <3>1. rankings = <<song>>
      BY <2>1, Zenon DEF MusicRankings
    <3>2. Range(<<song>>) = {song}
      BY DEF Range
    <3>3. SentRankings(m) = {m}
      <4>1. {"challengeMusicRankings", "versusMusicRankings"} \cap DOMAIN m = {}
        BY <2>1, EventContainers
      <4> QED BY <4>1 DEF SentRankings
    <3> QED BY <3>1, <3>2, <3>3, BuildUsers DEF SongsSent
  <2>2. CASE kind = "challenge"
    <3>1. rankings = build_music_rankings(m, "challengeMusicRankings")
      BY <2>2 DEF MusicRankings
    <3>2. DOMAIN m \cap {"versusMusicRankings", "scoreTopUsers", "scoreBorderUsers"} = {}
      BY <2>2, EventContainers
    <3> QED BY <3>1, <3>2, SongUsers
  <2>3. CASE kind = "versus"
    <3>1. rankings = build_music_rankings(m, "versusMusicRankings")
      BY <2>3 DEF MusicRankings
    <3>2. DOMAIN m \cap {"challengeMusicRankings", "scoreTopUsers", "scoreBorderUsers"} = {}
      BY <2>3, EventContainers
    <3> QED BY <3>1, <3>2, SongUsers
  <2>4. CASE kind \notin {"medley", "challenge", "versus"}
    <3>1. rankings = << >> /\ Range(<< >>) = {}
      BY <2>4 DEF MusicRankings, Range
    <3>2. DOMAIN m \cap {"challengeMusicRankings", "versusMusicRankings",
                         "scoreTopUsers", "scoreBorderUsers"} = {}
      <4>1. kind \in {"live_try", "story", "mission_live", "team_live_festival"}
        BY <2>4 DEF EVENT_TYPE_SCHEMAS
      <4> QED BY <4>1, EventContainers
    <3>3. SentRankings(m) = {m}
      <4>1. {"challengeMusicRankings", "versusMusicRankings"} \cap DOMAIN m = {}
        BY <3>2
      <4> QED BY <4>1 DEF SentRankings
    <3>4. SentIn(m, {"scoreTopUsers"}) = {} /\ SentIn(m, {"scoreBorderUsers"}) = {}
      BY <3>2, SentByNone
    <3> QED BY <3>1, <3>3, <3>4 DEF SongsSent
  <2> QED BY <2>1, <2>2, <2>3, <2>4
<1> HIDE DEF report, rankings
<1>3. IsWholeReport(report, m)
  BY <1>1, <1>2 DEF IsWholeReport
<1> QED
  BY <1>3 DEF report

\* No ranked user of a reply is lost, whatever the reply holds.
THEOREM NoRankedUserIsLost == Spec => []NoRankedUserLost
<1>1. Handled => NoRankedUserLost
  <2> SUFFICES ASSUME Handled, Answered PROVE NoRankedUserLost
    BY DEF NoRankedUserLost
  <2>1. SchemaOf[reply.kind] \in Descriptors /\ DOMAIN root \subseteq NamesOf(SchemaOf[reply.kind])
    BY AnsweredMessage, MessageNames
  <2>2. CASE reply.kind \in DOMAIN EVENT_TYPE_SCHEMAS
    <3>1. SchemaOf[reply.kind] = EVENT_TYPE_SCHEMAS[reply.kind]
      BY <2>2 DEF SchemaOf, Over
    <3>2. IsWholeReport(event_ranking_report(root, reply.kind), root)
      BY <2>1, <2>2, <3>1, EventReport
    <3>3. reply.kind # "monthly_ranking"
      BY <2>2 DEF EVENT_TYPE_SCHEMAS
    <3> QED BY <3>2, <3>3 DEF NoRankedUserLost, IsWholeReport, SongsSent
  <2>3. CASE reply.kind \notin DOMAIN EVENT_TYPE_SCHEMAS
    <3>1. ASSUME NEW name \in {f.name : f \in Range(SchemaOf["monthly_ranking"])}
          PROVE  Uids(monthly_ranking_report(root)[name]) = SentIn(root, {name})
      <4>1. name \in {"monthlyRankingPointNearUsers", "monthlyRankingPointTopUsers",
                      "monthlyRankingPointBorderUsers"}
        <5>1. SchemaOf["monthly_ranking"] = USER_MONTHLY_RANKING_RANKING_RESPONSE_SCHEMA
          BY DEF SchemaOf, Over, EVENT_TYPE_SCHEMAS
        <5> QED BY <5>1 DEF USER_MONTHLY_RANKING_RANKING_RESPONSE_SCHEMA, Users, Sub, Field, Range
      <4>2. monthly_ranking_report(root)[name] = build_users(root, name)
        BY <4>1 DEF monthly_ranking_report
      <4> QED BY <4>2, BuildUsers
    <3> QED BY <2>3, <3>1 DEF NoRankedUserLost
  <2> QED BY <2>2, <2>3
<1> QED
  BY <1>1, HandledInvariant, PTL

-----------------------------------------------------------------------------
(* Filters: Kept is defined over the prefixes of a sequence                *)

\* What holds of the empty sequence and with one of every longer one holds of all.
LEMMA SeqInduction ==
  ASSUME NEW A, NEW T, << >> \in T,
         \A s \in Seq(A) : \A x \in A : s \in T => Append(s, x) \in T
  PROVE  \A s \in Seq(A) : s \in T
<1> DEFINE S == {n \in Nat : \A s \in Seq(A) : Len(s) = n => s \in T}
<1>1. 0 \in S
  <2>1. \A s \in Seq(A) : Len(s) = 0 => s = << >>
    BY EmptySeq
  <2> QED BY <2>1
<1>2. ASSUME NEW n \in Nat, n \in S PROVE n + 1 \in S
  <2> SUFFICES ASSUME NEW s \in Seq(A), Len(s) = n + 1 PROVE s \in T
    OBVIOUS
  <2>1. s # << >>
    BY EmptySeq
  <2>2. PICK t \in Seq(A), x \in A : s = Append(t, x)
    BY <2>1, SequenceEmptyOrAppend
  <2>3. Len(t) \in Nat /\ Len(s) = Len(t) + 1
    BY <2>2, AppendProperties, LenProperties
  <2>4. t \in T
    BY <1>2, <2>3
  <2> QED BY <2>2, <2>4
<1>3. \A n \in Nat : n \in S
  BY <1>1, <1>2, Induction
<1> QED
  BY <1>3, LenProperties

Keep(kept, x, S) == IF x \in S THEN Append(kept, x) ELSE kept

IsKept(kept, s, S, m) ==
  kept = [n \in 0 .. m |-> IF n = 0 THEN << >> ELSE Keep(kept[n - 1], s[n], S)]

\* The filter is that of the whole prefix.
LEMMA KeptFact ==
  ASSUME NEW s, NEW S, Len(s) \in Nat
  PROVE  \E kept : IsKept(kept, s, S, Len(s)) /\ Kept(s, S) = kept[Len(s)]
<1> DEFINE T == {m \in Nat : \E f : IsKept(f, s, S, m)}
<1>1. 0 \in T
  <2>1. IsKept([n \in 0 .. 0 |-> << >>], s, S, 0)
    BY DEF IsKept
  <2> QED BY <2>1
<1>2. ASSUME NEW m \in Nat, m \in T PROVE m + 1 \in T
  <2>1. PICK f : IsKept(f, s, S, m)
    BY <1>2
  <2> DEFINE g == [n \in 0 .. m + 1 |->
                     IF n <= m THEN f[n] ELSE Keep(f[m], s[n], S)]
  <2>2. \A n \in 0 .. m : n # 0 => n - 1 \in 0 .. m
    OBVIOUS
  <2>3. IsKept(g, s, S, m + 1)
    BY <2>1, <2>2 DEF IsKept
  <2> QED BY <2>3
<1>3. \A m \in Nat : m \in T
  BY <1>1, <1>2, Induction
<1>4. \E f : IsKept(f, s, S, Len(s))
  BY <1>3
<1> DEFINE kept == CHOOSE f : IsKept(f, s, S, Len(s))
<1>5. IsKept(kept, s, S, Len(s))
  BY <1>4
<1>6. Kept(s, S) = kept[Len(s)]
  BY DEF Kept, IsKept, Keep
<1> QED
  BY <1>5, <1>6

\* Nothing is kept of nothing.
LEMMA KeptEmpty ==
  ASSUME NEW S
  PROVE  Kept(<< >>, S) = << >>
<1>1. Len(<< >>) = 0
  OBVIOUS
<1>2. PICK kept : IsKept(kept, << >>, S, 0) /\ Kept(<< >>, S) = kept[0]
  BY <1>1, KeptFact
<1> QED
  BY <1>2 DEF IsKept

\* One more element is kept if it is in the set.
LEMMA KeptAppend ==
  ASSUME NEW A, NEW s \in Seq(A), NEW x \in A, NEW S
  PROVE  Kept(Append(s, x), S) = IF x \in S THEN Append(Kept(s, S), x) ELSE Kept(s, S)
<1> DEFINE m == Len(s)
           t == Append(s, x)
<1>1. m \in Nat /\ Len(t) = m + 1 /\ t[m + 1] = x /\ \A n \in 1 .. m : t[n] = s[n]
  BY LenProperties, AppendProperties
<1> HIDE DEF t, m
<1>2. PICK f : IsKept(f, s, S, m) /\ Kept(s, S) = f[m]
  BY <1>1, KeptFact DEF m
<1>3. PICK g : IsKept(g, t, S, m + 1) /\ Kept(t, S) = g[m + 1]
  BY <1>1, KeptFact
<1> DEFINE T == {n \in Nat : n <= m => g[n] = f[n]}
<1>4. 0 \in T
  BY <1>1, <1>2, <1>3 DEF IsKept
<1>5. ASSUME NEW n \in Nat, n \in T PROVE n + 1 \in T
  <2> SUFFICES ASSUME n + 1 <= m PROVE g[n + 1] = f[n + 1]
    OBVIOUS
  <2>1. f[n + 1] = Keep(f[n], s[n + 1], S)
    BY <1>1, <1>2 DEF IsKept
  <2>2. g[n + 1] = Keep(g[n], t[n + 1], S)
    BY <1>1, <1>3 DEF IsKept
  <2>3. g[n] = f[n] /\ t[n + 1] = s[n + 1]
    BY <1>1, <1>5
  <2> QED BY <2>1, <2>2, <2>3
<1>6. \A n \in Nat : n \in T
  BY <1>4, <1>5, Induction
<1>7. g[m] = f[m]
  BY <1>1, <1>6
<1>8. g[m + 1] = Keep(g[m], t[m + 1], S)
  BY <1>1, <1>3 DEF IsKept
<1> QED
  BY <1>1, <1>2, <1>3, <1>7, <1>8 DEF t, Keep

\* One more element in the range.
LEMMA RangeAppend ==
  ASSUME NEW A, NEW s \in Seq(A), NEW x \in A
  PROVE  Range(Append(s, x)) = Range(s) \cup {x}
<1>1. Append(s, x) = s \o <<x>> /\ <<x>> \in Seq(A)
  BY AppendIsConcat
<1>2. Range(<<x>>) = {x}
  BY DEF Range
<1>3. Range(s \o <<x>>) = Range(s) \cup Range(<<x>>)
  BY <1>1, RangeConcatenation
<1> QED
  BY <1>1, <1>2, <1>3

\* What is kept is a sequence of just the elements that are in the set.
LEMMA KeptTyped ==
  ASSUME NEW A, NEW s \in Seq(A), NEW S
  PROVE  Kept(s, S) \in Seq(A) /\ Range(Kept(s, S)) = Range(s) \cap S
<1> DEFINE T == {t \in Seq(A) : Kept(t, S) \in Seq(A) /\ Range(Kept(t, S)) = Range(t) \cap S}
<1>1. << >> \in T
  <2>1. << >> \in Seq(A) /\ Range(<< >>) = {}
    BY DEF Range
  <2> QED BY <2>1, KeptEmpty
<1>2. ASSUME NEW t \in Seq(A), NEW x \in A, t \in T PROVE Append(t, x) \in T
  <2> DEFINE old == Kept(t, S)
             new == Kept(Append(t, x), S)
  <2>1. old \in Seq(A) /\ Range(old) = Range(t) \cap S
    BY <1>2
  <2>2. new = IF x \in S THEN Append(old, x) ELSE old
    BY KeptAppend
  <2>3. Append(t, x) \in Seq(A)
    OBVIOUS
  <2> HIDE DEF old, new
  <2>4. Range(Append(t, x)) = Range(t) \cup {x}
    BY RangeAppend
  <2>5. CASE x \in S
    <3>1. new = Append(old, x) /\ Range(Append(old, x)) = Range(old) \cup {x}
      BY <2>1, <2>2, <2>5, RangeAppend
    <3>2. new \in Seq(A)
      BY <2>1, <3>1
    <3> QED BY <2>1, <2>3, <2>4, <2>5, <3>1, <3>2 DEF new
  <2>6. CASE x \notin S
    BY <2>1, <2>2, <2>3, <2>4, <2>6 DEF new
  <2> QED BY <2>5, <2>6
<1> HIDE DEF T
<1>3. \A t \in Seq(A) : t \in T
  BY <1>1, <1>2, SeqInduction
<1> QED
  BY <1>3 DEF T

\* So are those with a value in a member.
LEMMA HavingFact ==
  ASSUME NEW A, NEW s \in Seq(A), NEW name, NEW default, NEW value
  PROVE  /\ Having(s, name, default, value) \in Seq(A)
         /\ Range(Having(s, name, default, value)) = {e \in Range(s) : Get(e, name, default) = value}
<1> DEFINE S == {e \in Range(s) : Get(e, name, default) = value}
<1>1. Kept(s, S) \in Seq(A) /\ Range(Kept(s, S)) = Range(s) \cap S
  BY KeptTyped
<1> QED
  BY <1>1 DEF Having

\* The first element is one of the sequence.
LEMMA HeadFact ==
  ASSUME NEW A, NEW s \in Seq(A), s # << >>
  PROVE  Head(s) \in Range(s)
<1>1. Len(s) \in Nat \ {0} /\ DOMAIN s = 1 .. Len(s) /\ Head(s) = s[1]
  BY EmptySeq, LenProperties
<1> QED
  BY <1>1 DEF Range

-----------------------------------------------------------------------------
(* The card that is shown with a user                                      *)

ShownCards(v) ==
  {Get(v, "userProfileSituation", Empty)} \cup Range(Entries(Get(v, "userSituationList", Empty)))

\* A trained card that is shown is the profile's or in the deck.
LEMMA ShownCard ==
  ASSUME NEW v, IsArray(Entries(Get(v, "userSituationList", Empty))), parse_user(v).strained = 1
  PROVE  \E card \in ShownCards(v) : Trained(card) = 1 /\ Get(card, "situationId", 0) = parse_user(v).sid
<1> DEFINE profile == Get(v, "userProfileSituation", Empty)
           leader == Get(Get(v, "userDeck", Empty), "leader", 0)
           list == Entries(Get(v, "userSituationList", Empty))
           cards == Having(list, "situationId", 0, leader)
           shown == DisplayCard(v)
<1>1. parse_user(v).strained = shown.strained /\ parse_user(v).sid = shown.sid
  BY DEF parse_user
<1>2. CASE Get(profile, "viewProfileSituationStatus", << >>) = <<"profile_situation">>
  <2>1. shown = [sid |-> Get(profile, "situationId", 0), strained |-> Trained(profile)]
    BY <1>2 DEF DisplayCard
  <2> HIDE DEF shown
  <2> QED BY <1>1, <2>1 DEF ShownCards
<1>3. CASE /\ Get(profile, "viewProfileSituationStatus", << >>) # <<"profile_situation">>
           /\ leader > 0
  <2>1. shown = [sid |-> leader, strained |-> IF cards # << >> THEN Trained(Head(cards)) ELSE 0]
    BY <1>3 DEF DisplayCard
  <2> HIDE DEF shown
  <2>2. PICK A : list \in Seq(A)
    BY DEF IsArray
  <2> HIDE DEF list, leader
  <2>3. /\ cards \in Seq(A)
        /\ Range(cards) = {e \in Range(list) : Get(e, "situationId", 0) = leader}
    BY <2>2, HavingFact
  <2> HIDE DEF cards
  <2>4. cards # << >> /\ Trained(Head(cards)) = 1 /\ parse_user(v).sid = leader
    BY <1>1, <2>1
  <2>5. Head(cards) \in Range(cards)
    BY <2>3, <2>4, HeadFact
  <2>6. Head(cards) \in Range(list) /\ Get(Head(cards), "situationId", 0) = leader
    BY <2>3, <2>5
  <2> QED BY <2>4, <2>6 DEF ShownCards, list
<1>4. CASE /\ Get(profile, "viewProfileSituationStatus", << >>) # <<"profile_situation">>
           /\ ~ (leader > 0)
  <2>1. shown.strained = 0
    BY <1>4 DEF DisplayCard
  <2> QED BY <1>1, <2>1
<1> QED
  BY <1>2, <1>3, <1>4

\* The users of a monthly ranking are messages of their descriptor.
LEMMA MonthlyUsers ==
  ASSUME NEW m, USER_MONTHLY_RANKING_RANKING_RESPONSE_SCHEMA \in Descriptors,
         Message(m, USER_MONTHLY_RANKING_RANKING_RESPONSE_SCHEMA),
         NEW name \in DOMAIN m, NEW v \in Range(Entries(m[name]))
  PROVE  RANKING_USER_SCHEMA \in Descriptors /\ Message(v, RANKING_USER_SCHEMA)
<1> DEFINE schema == USER_MONTHLY_RANKING_RANKING_RESPONSE_SCHEMA
<1>1. name \in NamesOf(schema)
  BY MessageNames
<1>2. PICK i \in DOMAIN schema : schema[i].name = name
  BY <1>1 DEF NamesOf
<1>3. /\ ~ schema[i].repeated /\ schema[i].type.kind = "message"
      /\ schema[i].type.of = ListOf(RANKING_USER_SCHEMA)
  BY DEF USER_MONTHLY_RANKING_RANKING_RESPONSE_SCHEMA, Users, Sub, Field
<1> HIDE DEF schema
<1>4. ListOf(RANKING_USER_SCHEMA) \in Descriptors /\ Message(Get(m, name, Empty), ListOf(RANKING_USER_SCHEMA))
  BY <1>2, <1>3, MemberMessage DEF schema
<1>5. Message(m[name], ListOf(RANKING_USER_SCHEMA))
  BY <1>4 DEF Get
<1> QED
  BY <1>4, <1>5, ListEntries DEF Range

\* The cards of a user are an array.
LEMMA UserCards ==
  ASSUME NEW v, RANKING_USER_SCHEMA \in Descriptors, Message(v, RANKING_USER_SCHEMA)
  PROVE  IsArray(Entries(Get(v, "userSituationList", Empty)))
<1> DEFINE schema == RANKING_USER_SCHEMA
<1>1. /\ 10 \in DOMAIN schema /\ schema[10].name = "userSituationList" /\ ~ schema[10].repeated
      /\ schema[10].type.kind = "message" /\ schema[10].type.of = ListOf(USER_SITUATION_SCHEMA)
  BY DEF RANKING_USER_SCHEMA, Sub, Num, Str, Flag, Field
<1> HIDE DEF schema
<1>2. /\ ListOf(USER_SITUATION_SCHEMA) \in Descriptors
      /\ Message(Get(v, "userSituationList", Empty), ListOf(USER_SITUATION_SCHEMA))
  BY <1>1, MemberMessage DEF schema
<1> QED
  BY <1>2, ListEntries

\* A user is shown with a trained card only if the one shown is trained,
\* whatever the profile, the deck and the list of cards hold.
THEOREM TrainedFlagIsRight == Spec => []TrainedFlagIsOfShownCard
<1>1. Handled => TrainedFlagIsOfShownCard
  <2> SUFFICES ASSUME Handled, Answered, reply.kind = "monthly_ranking",
                      NEW name \in DOMAIN root, NEW v \in Range(Entries(root[name])),
                      parse_user(v).strained = 1
               PROVE  \E card \in ShownCards(v) :
                        Trained(card) = 1 /\ Get(card, "situationId", 0) = parse_user(v).sid
    BY DEF TrainedFlagIsOfShownCard, ShownCards
  <2>1. SchemaOf["monthly_ranking"] = USER_MONTHLY_RANKING_RANKING_RESPONSE_SCHEMA
    BY DEF SchemaOf, Over, EVENT_TYPE_SCHEMAS
  <2>2. /\ USER_MONTHLY_RANKING_RANKING_RESPONSE_SCHEMA \in Descriptors
        /\ Message(root, USER_MONTHLY_RANKING_RANKING_RESPONSE_SCHEMA)
    BY <2>1, AnsweredMessage
  <2>3. RANKING_USER_SCHEMA \in Descriptors /\ Message(v, RANKING_USER_SCHEMA)
    BY <2>2, MonthlyUsers
  <2>4. IsArray(Entries(Get(v, "userSituationList", Empty)))
    BY <2>3, UserCards
  <2> QED BY <2>4, ShownCard
<1> QED
  BY <1>1, HandledInvariant, PTL

-----------------------------------------------------------------------------
(* The typed rows of the masters                                           *)

NamesIn(model) == {member.name : member \in model}

\* A model has the members of a descriptor, its lists those of the nested ones.
Models(model, schema) ==
  /\ NamesIn(model) = NamesOf(schema)
  /\ \A i \in DOMAIN schema : \A member \in model :
       member.name = schema[i].name =>
         /\ member.kind = "list" <=> schema[i].type.kind = "message"
         /\ schema[i].type.kind = "message" =>
              schema[i].repeated /\ NamesIn(member.of) = NamesOf(schema[i].type.of)

\* Then nothing is lost of a row that is read with the descriptor.
LEMMA TypedWhole ==
  ASSUME NEW schema \in Descriptors, NEW model, Models(model, schema),
         NEW row, Message(row, schema)
  PROVE  SameRow(row, Typed(row, model), schema)
<1> DEFINE info == Typed(row, model)
<1>1. DOMAIN info = NamesIn(model)
  BY DEF Typed, NamesIn
<1>2. NamesOf(schema) = {f.name : f \in Range(schema)}
  BY DEF NamesOf, Range
<1>3. ASSUME NEW i \in DOMAIN schema, schema[i].name \in DOMAIN row
      PROVE  LET f == schema[i]
             IN  IF f.type.kind # "message" THEN info[f.name] = row[f.name]
                 ELSE /\ Len(info[f.name]) = Len(row[f.name])
                      /\ \A k \in DOMAIN row[f.name] :
                           /\ DOMAIN info[f.name][k] = {g.name : g \in Range(f.type.of)}
                           /\ \A n \in DOMAIN row[f.name][k] : info[f.name][k][n] = row[f.name][k][n]
  <2> DEFINE name == schema[i].name
             type == schema[i].type
             member == MemberOf(model, name)
             value == row[name]
  <2>1. name \in NamesIn(model)
    BY DEF Models, NamesOf
  <2>2. member \in model /\ member.name = name
    BY <2>1 DEF MemberOf, NamesIn
  <2>3. /\ member.kind = "list" <=> type.kind = "message"
        /\ type.kind = "message" => schema[i].repeated /\ NamesIn(member.of) = NamesOf(type.of)
    BY <2>2 DEF Models
  <2>4. Get(row, name, Default(member.kind)) = value
    BY <1>3 DEF Get
  <2>5. info[name] = IF member.kind # "list" THEN value
                     ELSE [k \in DOMAIN value |-> TypedRow(value[k], member.of)]
    BY <2>1, <2>4 DEF Typed, NamesIn
  <2>6. CASE type.kind # "message"
    BY <2>3, <2>5, <2>6
  <2>7. CASE type.kind = "message"
    <3> DEFINE sub == type.of
    <3>1. sub \in Descriptors
      BY <2>7, DescriptorsAssumption DEF Nested
    <3>2. OfField(value, schema[i])
      BY <1>3, MessageField
    <3>3. IsArray(value) /\ \A k \in DOMAIN value : Message(value[k], sub)
      BY <2>3, <2>7, <3>2 DEF OfField, OfType
    <3>4. info[name] = [k \in DOMAIN value |-> TypedRow(value[k], member.of)]
      BY <2>3, <2>5, <2>7
    <3>5. NamesIn(member.of) = NamesOf(sub) /\ NamesOf(sub) = {g.name : g \in Range(sub)}
      BY <2>3, <2>7 DEF NamesOf, Range
    <3> HIDE DEF info, name, type, member, value, sub
    <3>6. Len(info[name]) = Len(value)
      <4>1. PICK A : value \in Seq(A)
        BY <3>3 DEF IsArray
      <4>2. Len(value) \in Nat /\ DOMAIN value = 1 .. Len(value)
        BY <4>1, LenProperties
      <4> DEFINE rows == {TypedRow(value[k], member.of) : k \in DOMAIN value}
      <4>3. info[name] \in [1 .. Len(value) -> rows]
        BY <3>4, <4>2
      <4> HIDE DEF rows
      <4> QED BY <4>2, <4>3, AsSeq
    <3>7. ASSUME NEW k \in DOMAIN value
          PROVE  /\ DOMAIN info[name][k] = {g.name : g \in Range(sub)}
                 /\ \A n \in DOMAIN value[k] : info[name][k][n] = value[k][n]
      <4>1. info[name][k] = [n \in NamesIn(member.of) |->
                               Get(value[k], n, Default(MemberOf(member.of, n).kind))]
        BY <3>4 DEF TypedRow, NamesIn
      <4>2. DOMAIN value[k] \subseteq NamesOf(sub)
        BY <3>1, <3>3, MessageNames
      <4>3. \A n \in DOMAIN value[k] : info[name][k][n] = value[k][n]
        BY <3>5, <4>1, <4>2 DEF Get
      <4> QED BY <3>5, <4>1, <4>3
    <3> QED BY <2>7, <3>6, <3>7 DEF name, type, value, sub
  <2> QED BY <2>6, <2>7
<1> HIDE DEF info
<1>4. SameRow(row, info, schema)
  <2>1. DOMAIN info = {f.name : f \in Range(schema)}
    BY <1>1, <1>2 DEF Models
  <2> QED BY <1>3, <2>1 DEF SameRow, Range
<1> QED
  BY <1>4 DEF info

\* The members of a kind, the one of a list of rows, and those of a union.
LEMMA MembersFact ==
  ASSUME NEW kind, NEW names
  PROVE  /\ \A member \in Members(kind, names) : member.kind = kind /\ member.name \in names
         /\ NamesIn(Members(kind, names)) = names
<1>1. \A member \in Members(kind, names) : member.kind = kind /\ member.name \in names
  BY DEF Members
<1>2. ASSUME NEW n \in names PROVE \E member \in Members(kind, names) : member.name = n
  <2>1. [name |-> n, kind |-> kind] \in Members(kind, names)
    BY DEF Members
  <2>2. [name |-> n, kind |-> kind].name = n
    OBVIOUS
  <2> QED BY <2>1, <2>2
<1> QED
  BY <1>1, <1>2 DEF NamesIn

\* A list of typed rows is one member of a model.
LEMMA RowsFact ==
  ASSUME NEW name, NEW model
  PROVE  /\ \A member \in Rows(name, model) :
              member.kind = "list" /\ member.name = name /\ member.of = model
         /\ NamesIn(Rows(name, model)) = {name}
BY DEF Rows, NamesIn

\* The names of a model put together of two.
LEMMA NamesOfUnion ==
  ASSUME NEW a, NEW b, NEW model, model = a \cup b
  PROVE  NamesIn(model) = NamesIn(a) \cup NamesIn(b)
BY DEF NamesIn

\* The rewards of both masters.
LEMMA RewardModels ==
  /\ NamesIn(EventPointReward) = NamesOf(MASTER_EVENT_POINT_REWARD_SCHEMA)
  /\ NamesIn(EventRankingReward) = NamesOf(MASTER_EVENT_RANKING_REWARD_SCHEMA)
  /\ NamesIn(MonthlyRankingReward) = NamesOf(MASTER_MONTHLY_RANKING_REWARD_SCHEMA)
  /\ NamesIn(MonthlyRankingGrade) = NamesOf(MASTER_MONTHLY_RANKING_GRADE_SCHEMA)
<1>1. NamesIn(Reward) = {"id", "rewardId", "rewardQuantity", "rewardType"}
  <2> DEFINE ints == Members("int", {"id", "rewardId", "rewardQuantity"})
             strings == Members("string", {"rewardType"})
  <2>1. Reward = ints \cup strings
    BY DEF Reward
  <2>2. NamesIn(ints) = {"id", "rewardId", "rewardQuantity"}
    BY MembersFact
  <2>3. NamesIn(strings) = {"rewardType"}
    BY MembersFact
  <2> HIDE DEF ints, strings
  <2>4. NamesIn(Reward) = NamesIn(ints) \cup NamesIn(strings)
    BY <2>1, NamesOfUnion
  <2> QED BY <2>2, <2>3, <2>4
<1>2. NamesIn(EventPointReward) = NamesIn(Reward) \cup {"eventId", "point"} \cup {"recommendFlg"}
  <2> DEFINE p1 == Members("int", {"eventId", "point"})
             p2 == Members("bool", {"recommendFlg"})
             m1 == Reward \cup p1
  <2>1. EventPointReward = m1 \cup p2
    BY DEF EventPointReward
  <2>2. NamesIn(p1) = {"eventId", "point"} /\ NamesIn(p2) = {"recommendFlg"}
    BY MembersFact
  <2> HIDE DEF p1, p2
  <2>3. NamesIn(m1) = NamesIn(Reward) \cup NamesIn(p1)
    BY NamesOfUnion
  <2> HIDE DEF m1
  <2>4. NamesIn(EventPointReward) = NamesIn(m1) \cup NamesIn(p2)
    BY <2>1, NamesOfUnion
  <2> QED BY <2>2, <2>3, <2>4
<1>3. NamesIn(EventRankingReward) = NamesIn(Reward) \cup {"eventId", "fromRank", "toRank"} \cup {"recommendFlg"}
  <2> DEFINE p1 == Members("int", {"eventId", "fromRank", "toRank"})
             p2 == Members("bool", {"recommendFlg"})
             m1 == Reward \cup p1
  <2>1. EventRankingReward = m1 \cup p2
    BY DEF EventRankingReward
  <2>2. NamesIn(p1) = {"eventId", "fromRank", "toRank"} /\ NamesIn(p2) = {"recommendFlg"}
    BY MembersFact
  <2> HIDE DEF p1, p2
  <2>3. NamesIn(m1) = NamesIn(Reward) \cup NamesIn(p1)
    BY NamesOfUnion
  <2> HIDE DEF m1
  <2>4. NamesIn(EventRankingReward) = NamesIn(m1) \cup NamesIn(p2)
    BY <2>1, NamesOfUnion
  <2> QED BY <2>2, <2>3, <2>4
<1>4. NamesIn(MonthlyRankingReward) = NamesIn(Reward) \cup {"monthlyRankingId", "fromRank", "toRank"}
  <2> DEFINE p1 == Members("int", {"monthlyRankingId", "fromRank", "toRank"})
  <2>1. MonthlyRankingReward = Reward \cup p1
    BY DEF MonthlyRankingReward
  <2>2. NamesIn(p1) = {"monthlyRankingId", "fromRank", "toRank"}
    BY MembersFact
  <2> HIDE DEF p1
  <2>3. NamesIn(MonthlyRankingReward) = NamesIn(Reward) \cup NamesIn(p1)
    BY <2>1, NamesOfUnion
  <2> QED BY <2>2, <2>3
<1>5. NamesIn(MonthlyRankingGrade) = NamesIn(Reward) \cup {"monthlyRankingId", "pt"} \cup {"gradeAheadType"} \cup {"rankingThresholdFlg"}
  <2> DEFINE p1 == Members("int", {"monthlyRankingId", "pt"})
             p2 == Members("string", {"gradeAheadType"})
             p3 == Members("bool", {"rankingThresholdFlg"})
             m1 == Reward \cup p1
             m2 == m1 \cup p2
  <2>1. MonthlyRankingGrade = m2 \cup p3
    BY DEF MonthlyRankingGrade
  <2>2. NamesIn(p1) = {"monthlyRankingId", "pt"} /\ NamesIn(p2) = {"gradeAheadType"} /\ NamesIn(p3) = {"rankingThresholdFlg"}
    BY MembersFact
  <2> HIDE DEF p1, p2, p3
  <2>3. NamesIn(m1) = NamesIn(Reward) \cup NamesIn(p1)
    BY NamesOfUnion
  <2>4. NamesIn(m2) = NamesIn(m1) \cup NamesIn(p2)
    BY NamesOfUnion
  <2> HIDE DEF m1, m2
  <2>5. NamesIn(MonthlyRankingGrade) = NamesIn(m2) \cup NamesIn(p3)
    BY <2>1, NamesOfUnion
  <2> QED BY <2>2, <2>3, <2>4, <2>5
<1> USE DEF NamesOf, Num, Str, Flag, Field
<1>6. NamesOf(MASTER_EVENT_POINT_REWARD_SCHEMA) =
        {"id", "rewardId", "rewardQuantity", "rewardType", "eventId", "point", "recommendFlg"}
  BY DEF MASTER_EVENT_POINT_REWARD_SCHEMA
<1>7. NamesOf(MASTER_EVENT_RANKING_REWARD_SCHEMA) =
        {"id", "rewardId", "rewardQuantity", "rewardType", "eventId", "fromRank", "toRank", "recommendFlg"}
  BY DEF MASTER_EVENT_RANKING_REWARD_SCHEMA
<1>8. NamesOf(MASTER_MONTHLY_RANKING_REWARD_SCHEMA) =
        {"id", "rewardId", "rewardQuantity", "rewardType", "monthlyRankingId", "fromRank", "toRank"}
  BY DEF MASTER_MONTHLY_RANKING_REWARD_SCHEMA
<1>9. NamesOf(MASTER_MONTHLY_RANKING_GRADE_SCHEMA) =
        {"id", "rewardId", "rewardQuantity", "rewardType", "monthlyRankingId", "pt", "gradeAheadType",
         "rankingThresholdFlg"}
  BY DEF MASTER_MONTHLY_RANKING_GRADE_SCHEMA
<1>10. NamesIn(EventPointReward) = NamesOf(MASTER_EVENT_POINT_REWARD_SCHEMA)
  BY <1>1, <1>2, <1>6
<1>11. NamesIn(EventRankingReward) = NamesOf(MASTER_EVENT_RANKING_REWARD_SCHEMA)
  BY <1>1, <1>3, <1>7
<1>12. NamesIn(MonthlyRankingReward) = NamesOf(MASTER_MONTHLY_RANKING_REWARD_SCHEMA)
  BY <1>1, <1>4, <1>8
<1>13. NamesIn(MonthlyRankingGrade) = NamesOf(MASTER_MONTHLY_RANKING_GRADE_SCHEMA)
  BY <1>1, <1>5, <1>9
<1> QED
  BY <1>10, <1>11, <1>12, <1>13

\* EventInfo has the members of the event master.
LEMMA EventModel == Models(EventInfo, MASTER_EVENT_SCHEMA)
<1> DEFINE schema == MASTER_EVENT_SCHEMA
           strings == {"assetBundleName", "bgmAssetBundleName", "bgmFileName", "eventType", "eventName"}
           ints == {"startAt", "endAt", "publicStartAt", "publicEndAt", "distributionStartAt",
                    "distributionEndAt", "receptionEndAt", "aggregateEndAt", "eventId",
                    "eventExchangesEndAt", "previousEventId"}
           plain == strings \cup {"enableFlg"} \cup ints
<1>1. NamesIn(EventInfo) = plain \cup {"pointRewards", "rankingRewards"}
  <2> DEFINE p1 == Members("string", {"assetBundleName", "bgmAssetBundleName", "bgmFileName"})
             p2 == Members("bool", {"enableFlg"})
             p3 == Members("int", {"startAt", "endAt", "publicStartAt", "publicEndAt", "distributionStartAt",
                                  "distributionEndAt", "receptionEndAt", "aggregateEndAt"})
             p4 == Members("string", {"eventType", "eventName"})
             p5 == Members("int", {"eventId", "eventExchangesEndAt", "previousEventId"})
             p6 == Rows("pointRewards", EventPointReward)
             p7 == Rows("rankingRewards", EventRankingReward)
  <2>1. p1 \cup p2 \cup p3 \cup p4 \cup p5 \cup p6 \cup p7 = EventInfo
    BY DEF EventInfo, Period
  <2>2. /\ NamesIn(p1) = {"assetBundleName", "bgmAssetBundleName", "bgmFileName"}
        /\ NamesIn(p2) = {"enableFlg"}
        /\ NamesIn(p3) = {"startAt", "endAt", "publicStartAt", "publicEndAt", "distributionStartAt",
                                  "distributionEndAt", "receptionEndAt", "aggregateEndAt"}
        /\ NamesIn(p4) = {"eventType", "eventName"}
        /\ NamesIn(p5) = {"eventId", "eventExchangesEndAt", "previousEventId"}
        /\ NamesIn(p6) = {"pointRewards"}
        /\ NamesIn(p7) = {"rankingRewards"}
    BY MembersFact, RowsFact
  <2> HIDE DEF p1, p2, p3, p4, p5, p6, p7
  <2>3. NamesIn(p1) \cup NamesIn(p2) \cup NamesIn(p3) \cup NamesIn(p4)
          \cup NamesIn(p5) \cup NamesIn(p6) \cup NamesIn(p7) = NamesIn(EventInfo)
    BY <2>1 DEF NamesIn
  <2> QED BY <2>2, <2>3
<1>2. \A member \in EventInfo :
        \/ member.kind # "list" /\ member.name \in plain
        \/ /\ member.kind = "list" /\ member.name = "pointRewards"
           /\ member.of = EventPointReward
        \/ /\ member.kind = "list" /\ member.name = "rankingRewards"
           /\ member.of = EventRankingReward
  BY MembersFact, RowsFact DEF EventInfo, Period
<1>3. /\ NamesOf(schema) = plain \cup {"pointRewards", "rankingRewards"}
      /\ \A i \in DOMAIN schema :
           \/ schema[i].type.kind # "message" /\ schema[i].name \in plain
           \/ /\ schema[i].type.kind = "message" /\ schema[i].repeated /\ schema[i].name = "pointRewards"
              /\ schema[i].type.of = MASTER_EVENT_POINT_REWARD_SCHEMA
           \/ /\ schema[i].type.kind = "message" /\ schema[i].repeated /\ schema[i].name = "rankingRewards"
              /\ schema[i].type.of = MASTER_EVENT_RANKING_REWARD_SCHEMA
  BY DEF NamesOf, MASTER_EVENT_SCHEMA, Repeated, Sub, Num, Str, Flag, Field
<1>4. "pointRewards" \notin plain /\ "rankingRewards" \notin plain
  OBVIOUS
<1> HIDE DEF schema, plain
<1>5. Models(EventInfo, schema)
  BY <1>1, <1>2, <1>3, <1>4, RewardModels DEF Models
<1> QED
  BY <1>5 DEF schema

\* MonthlyRankingInfo has those of the monthly master.
LEMMA MonthlyModel == Models(MonthlyRankingInfo, MASTER_MONTHLY_RANKING_SCHEMA)
<1> DEFINE schema == MASTER_MONTHLY_RANKING_SCHEMA
           strings == {"assetBundleName", "bgmAssetBundleName", "bgmFileName", "monthlyRankingName"}
           ints == {"startAt", "endAt", "publicStartAt", "publicEndAt", "distributionStartAt",
                    "distributionEndAt", "receptionEndAt", "aggregateEndAt", "monthlyRankingId"}
           plain == strings \cup {"enableFlg"} \cup ints
<1>1. NamesIn(MonthlyRankingInfo) = plain \cup {"rewards", "grades"}
  <2> DEFINE p1 == Members("string", {"assetBundleName", "bgmAssetBundleName", "bgmFileName"})
             p2 == Members("bool", {"enableFlg"})
             p3 == Members("int", {"startAt", "endAt", "publicStartAt", "publicEndAt", "distributionStartAt",
                                  "distributionEndAt", "receptionEndAt", "aggregateEndAt"})
             p4 == Members("string", {"monthlyRankingName"})
             p5 == Members("int", {"monthlyRankingId"})
             p6 == Rows("rewards", MonthlyRankingReward)
             p7 == Rows("grades", MonthlyRankingGrade)
  <2>1. p1 \cup p2 \cup p3 \cup p4 \cup p5 \cup p6 \cup p7 = MonthlyRankingInfo
    BY DEF MonthlyRankingInfo, Period
  <2>2. /\ NamesIn(p1) = {"assetBundleName", "bgmAssetBundleName", "bgmFileName"}
        /\ NamesIn(p2) = {"enableFlg"}
        /\ NamesIn(p3) = {"startAt", "endAt", "publicStartAt", "publicEndAt", "distributionStartAt",
                                  "distributionEndAt", "receptionEndAt", "aggregateEndAt"}
        /\ NamesIn(p4) = {"monthlyRankingName"}
        /\ NamesIn(p5) = {"monthlyRankingId"}
        /\ NamesIn(p6) = {"rewards"}
        /\ NamesIn(p7) = {"grades"}
    BY MembersFact, RowsFact
  <2> HIDE DEF p1, p2, p3, p4, p5, p6, p7
  <2>3. NamesIn(p1) \cup NamesIn(p2) \cup NamesIn(p3) \cup NamesIn(p4)
          \cup NamesIn(p5) \cup NamesIn(p6) \cup NamesIn(p7) = NamesIn(MonthlyRankingInfo)
    BY <2>1 DEF NamesIn
  <2> QED BY <2>2, <2>3
<1>2. \A member \in MonthlyRankingInfo :
        \/ member.kind # "list" /\ member.name \in plain
        \/ /\ member.kind = "list" /\ member.name = "rewards"
           /\ member.of = MonthlyRankingReward
        \/ /\ member.kind = "list" /\ member.name = "grades"
           /\ member.of = MonthlyRankingGrade
  BY MembersFact, RowsFact DEF MonthlyRankingInfo, Period
<1>3. /\ NamesOf(schema) = plain \cup {"rewards", "grades"}
      /\ \A i \in DOMAIN schema :
           \/ schema[i].type.kind # "message" /\ schema[i].name \in plain
           \/ /\ schema[i].type.kind = "message" /\ schema[i].repeated /\ schema[i].name = "rewards"
              /\ schema[i].type.of = MASTER_MONTHLY_RANKING_REWARD_SCHEMA
           \/ /\ schema[i].type.kind = "message" /\ schema[i].repeated /\ schema[i].name = "grades"
              /\ schema[i].type.of = MASTER_MONTHLY_RANKING_GRADE_SCHEMA
  BY DEF NamesOf, MASTER_MONTHLY_RANKING_SCHEMA, Repeated, Sub, Num, Str, Flag, Field
<1>4. "rewards" \notin plain /\ "grades" \notin plain
  OBVIOUS
<1> HIDE DEF schema, plain
<1>5. Models(MonthlyRankingInfo, schema)
  BY <1>1, <1>2, <1>3, <1>4, RewardModels DEF Models
<1> QED
  BY <1>5 DEF schema

\* No member of a master is lost in its typed row, whatever the rows hold.
THEOREM TypedRowsAreWhole == Spec => []RowsAreWhole
<1>1. Handled => RowsAreWhole
  <2> SUFFICES ASSUME Handled, Answered PROVE RowsAreWhole
    BY DEF RowsAreWhole
  <2>1. ASSUME NEW schema, NEW model, Models(model, schema),
               SchemaOf[reply.kind] = ListOf(schema), NEW i \in DOMAIN Entries(root)
        PROVE  SameRow(Entries(root)[i], TypedList(root, model)[i], schema)
    <3>1. ListOf(schema) \in Descriptors /\ Message(root, ListOf(schema))
      BY <2>1, AnsweredMessage
    <3>2. schema \in Descriptors /\ Message(Entries(root)[i], schema)
      BY <3>1, ListEntries
    <3>3. TypedList(root, model)[i] = Typed(Entries(root)[i], model)
      BY DEF TypedList
    <3> QED BY <2>1, <3>2, <3>3, TypedWhole
  <2>2. /\ SchemaOf["events"] = ListOf(MASTER_EVENT_SCHEMA)
        /\ SchemaOf["monthly"] = ListOf(MASTER_MONTHLY_RANKING_SCHEMA)
    BY DEF SchemaOf, Over, EVENT_TYPE_SCHEMAS
  <2>3. CASE reply.kind = "events"
    <3>1. \A i \in DOMAIN Entries(root) :
            SameRow(Entries(root)[i], TypedList(root, EventInfo)[i], MASTER_EVENT_SCHEMA)
      BY <2>1, <2>2, <2>3, EventModel
    <3> QED BY <2>3, <3>1 DEF RowsAreWhole, event_list
  <2>4. CASE reply.kind = "monthly"
    <3>1. \A i \in DOMAIN Entries(root) :
            SameRow(Entries(root)[i], TypedList(root, MonthlyRankingInfo)[i], MASTER_MONTHLY_RANKING_SCHEMA)
      BY <2>1, <2>2, <2>4, MonthlyModel
    <3> QED BY <2>4, <3>1 DEF RowsAreWhole, monthly_ranking_list
  <2> QED BY <2>3, <2>4 DEF RowsAreWhole
<1> QED
  BY <1>1, HandledInvariant, PTL

-----------------------------------------------------------------------------
(* Maps                                                                    *)

\* The entries of a map have messages for values and, of most, integers for keys.
LEMMA MapEntries ==
  ASSUME NEW key \in {IntKey, StringKey}, NEW sub, MapOf(key, sub) \in Descriptors,
         NEW m, Message(m, MapOf(key, sub))
  PROVE  /\ sub \in Descriptors /\ IsArray(Entries(m))
         /\ \A e \in Range(Entries(m)) :
              /\ Message(Get(e, "value", Empty), sub)
              /\ key = IntKey /\ "key" \in DOMAIN e => e.key \in Int
<1> DEFINE schema == EntryOf(key, sub)
<1>1. MapOf(key, sub) = ListOf(schema)
  BY DEF MapOf
<1>2. /\ 1 \in DOMAIN schema /\ schema[1].name = "key" /\ ~ schema[1].repeated
      /\ key = IntKey => schema[1].type.kind = "int"
      /\ 2 \in DOMAIN schema /\ schema[2].name = "value" /\ ~ schema[2].repeated
      /\ schema[2].type.kind = "message" /\ schema[2].type.of = sub
  <2> DEFINE first == [key EXCEPT !.number = 1, !.name = "key"]
             second == Sub(2, "value", sub)
  <2>1. first.name = "key" /\ ~ first.repeated
    <3>1. CASE key = IntKey
      BY <3>1 DEF IntKey, Num, Field
    <3>2. CASE key = StringKey
      BY <3>2 DEF StringKey, Str, Field
    <3> QED BY <3>1, <3>2
  <2>2. key = IntKey => first.type.kind = "int"
    BY DEF IntKey, Num, Field
  <2>3. /\ second.name = "value" /\ ~ second.repeated
        /\ second.type.kind = "message" /\ second.type.of = sub
    BY DEF Sub, Field
  <2>4. schema = <<first, second>>
    BY DEF EntryOf
  <2> HIDE DEF schema, first, second
  <2> QED BY <2>1, <2>2, <2>3, <2>4
<1> HIDE DEF schema
<1>3. /\ schema \in Descriptors /\ IsArray(Entries(m))
      /\ \A e \in Range(Entries(m)) : Message(e, schema)
  BY <1>1, ListEntries DEF Range
<1>4. sub \in Descriptors
  BY <1>2, <1>3, DescriptorsAssumption DEF Nested
<1>5. ASSUME NEW e \in Range(Entries(m))
      PROVE  /\ Message(Get(e, "value", Empty), sub)
             /\ key = IntKey /\ "key" \in DOMAIN e => e.key \in Int
  <2>1. Message(e, schema)
    BY <1>3
  <2>2. Message(Get(e, "value", Empty), sub)
    BY <1>2, <1>3, <2>1, MemberMessage
  <2>3. ASSUME key = IntKey, "key" \in DOMAIN e PROVE e.key \in Int
    <3>1. OfField(e["key"], schema[1])
      BY <1>2, <1>3, <2>1, <2>3, MessageField
    <3> QED BY <1>2, <2>3, <3>1 DEF OfField, OfType
  <2> QED BY <2>2, <2>3
<1> QED
  BY <1>3, <1>4, <1>5

\* Those that have a value.
LEMMA ValuedFact ==
  ASSUME NEW m, IsArray(Entries(m))
  PROVE  /\ IsArray(Valued(m)) /\ Len(Valued(m)) \in Nat /\ DOMAIN Valued(m) = 1 .. Len(Valued(m))
         /\ \A i \in DOMAIN Valued(m) :
              Valued(m)[i] \in Range(Entries(m)) /\ "value" \in DOMAIN Valued(m)[i]
<1> DEFINE entries == Entries(m)
           S == {e \in Range(entries) : "value" \in DOMAIN e}
<1>1. PICK A : entries \in Seq(A)
  BY DEF IsArray
<1>2. Kept(entries, S) \in Seq(A) /\ Range(Kept(entries, S)) = Range(entries) \cap S
  BY <1>1, KeptTyped
<1>3. Valued(m) \in Seq(A) /\ Range(Valued(m)) \subseteq S
  BY <1>2 DEF Valued
<1>4. Len(Valued(m)) \in Nat /\ DOMAIN Valued(m) = 1 .. Len(Valued(m))
  BY <1>3, LenProperties
<1>5. \A i \in DOMAIN Valued(m) : Valued(m)[i] \in S
  BY <1>3 DEF Range
<1> QED
  BY <1>3, <1>4, <1>5 DEF IsArray

\* The rows of a list made of a map are those of the map, but for one member.
SameBut(filed, listed, id) ==
  /\ Len(listed) = Len(filed)
  /\ \A i \in DOMAIN listed :
       /\ DOMAIN listed[i] \ {id} = DOMAIN filed[i].value \ {id}
       /\ \A n \in DOMAIN listed[i] \ {id} : listed[i][n] = filed[i].value[n]

\* A row of a flattened map is its value with the key put in.
LEMMA FlattenedRows ==
  ASSUME NEW m, IsArray(Entries(m)), NEW names, NEW wins \in BOOLEAN, NEW id, names \subseteq {id}
  PROVE  LET listed == flatten_map_values(m, names, wins)
         IN  /\ SameBut(Valued(m), listed, id)
             /\ DOMAIN listed = DOMAIN Valued(m) /\ IsArray(listed)
             /\ \A i \in DOMAIN listed :
                  listed[i] = IF wins THEN Over(Keyed(Valued(m)[i], names), Valued(m)[i].value)
                                      ELSE Over(Valued(m)[i].value, Keyed(Valued(m)[i], names))
<1> DEFINE filed == Valued(m)
           listed == flatten_map_values(m, names, wins)
<1>1. Len(filed) \in Nat /\ DOMAIN filed = 1 .. Len(filed)
  BY ValuedFact
<1>2. /\ listed = [i \in DOMAIN filed |-> listed[i]]
      /\ \A i \in DOMAIN filed :
           listed[i] = IF wins THEN Over(Keyed(filed[i], names), filed[i].value)
                               ELSE Over(filed[i].value, Keyed(filed[i], names))
  BY DEF flatten_map_values
<1> HIDE DEF filed, listed
<1>3. listed \in [1 .. Len(filed) -> Range(listed)]
  BY <1>1, <1>2 DEF Range
<1>4. listed \in Seq(Range(listed)) /\ Len(listed) = Len(filed)
  BY <1>1, <1>3, AsSeq
<1>5. ASSUME NEW i \in DOMAIN filed
      PROVE  /\ DOMAIN listed[i] \ {id} = DOMAIN filed[i].value \ {id}
             /\ \A n \in DOMAIN listed[i] \ {id} : listed[i][n] = filed[i].value[n]
  <2>1. DOMAIN Keyed(filed[i], names) \subseteq {id}
    BY DEF Keyed
  <2> QED BY <1>2, <2>1 DEF Over
<1>6. DOMAIN listed = DOMAIN filed
  BY <1>2
<1>7. SameBut(filed, listed, id)
  BY <1>4, <1>5, <1>6 DEF SameBut
<1>8. IsArray(listed)
  BY <1>4 DEF IsArray
<1> QED
  BY <1>2, <1>6, <1>7, <1>8 DEF filed, listed

\* The detail of a row is found by the id that the row has.
LEMMA DetailFound ==
  ASSUME NEW m, NEW name, IsArray(map_list_body(m, name)),
         NEW row \in Range(map_list_body(m, name)), name \in DOMAIN row, row[name] \in Int
  PROVE  \E found \in map_detail(m, name, row[name]) : name \in DOMAIN found /\ found[name] = row[name]
<1> DEFINE listed == map_list_body(m, name)
           id == row[name]
           found == Having(listed, name, Null, id)
<1>1. Entries([entries |-> listed]) = listed
  BY DEF Entries, Get
<1>2. map_detail(m, name, id) = IF found = << >> THEN {} ELSE {Head(found)}
  BY <1>1 DEF map_detail, find_entry
<1>3. PICK A : listed \in Seq(A)
  BY DEF IsArray
<1> HIDE DEF listed, id
<1>4. found \in Seq(A) /\ Range(found) = {e \in Range(listed) : Get(e, name, Null) = id}
  BY <1>3, HavingFact
<1> HIDE DEF found
<1>5. row \in Range(found)
  BY <1>4 DEF listed, id, Get
<1>6. found # << >>
  BY <1>5 DEF Range
<1>7. Head(found) \in Range(found)
  BY <1>4, <1>6, HeadFact
<1>8. Get(Head(found), name, Null) = id
  BY <1>4, <1>7
<1>9. name \in DOMAIN Head(found) /\ Head(found)[name] = id
  BY <1>8, NullAssumption DEF Get, id
<1> QED
  BY <1>2, <1>6, <1>9 DEF id

\* A member of two objects, the first of which wins.
LEMMA GetOver ==
  ASSUME NEW a, NEW b, NEW name, NEW default
  PROVE  Get(Over(a, b), name, default) = Get(a, name, Get(b, name, default))
<1>1. /\ DOMAIN Over(a, b) = DOMAIN a \cup DOMAIN b
      /\ \A n \in DOMAIN a \cup DOMAIN b : Over(a, b)[n] = IF n \in DOMAIN a THEN a[n] ELSE b[n]
  BY DEF Over
<1> QED
  BY <1>1, Zenon DEF Get

\* The member that names a row, if the row wins and if the key does.
LEMMA KeyedGet ==
  ASSUME NEW value, NEW e, NEW id
  PROVE  /\ Get(Over(value, Keyed(e, {id})), id, Null) = Get(value, id, Get(e, "key", Null))
         /\ id \notin DOMAIN value =>
              Get(Over(Keyed(e, {id}), value), id, Null) = Get(e, "key", Null)
<1> DEFINE keyed == Keyed(e, {id})
<1>1. Get(keyed, id, Null) = Get(e, "key", Null)
  <2>1. CASE "key" \in DOMAIN e
    BY <2>1 DEF Keyed, Get
  <2>2. CASE "key" \notin DOMAIN e
    BY <2>2 DEF Keyed, Get
  <2> QED BY <2>1, <2>2
<1> HIDE DEF keyed
<1>2. Get(Over(value, keyed), id, Null) = Get(value, id, Get(e, "key", Null))
  BY <1>1, GetOver
<1>3. ASSUME id \notin DOMAIN value PROVE Get(Over(keyed, value), id, Null) = Get(e, "key", Null)
  <2>1. Get(value, id, Null) = Null
    BY <1>3 DEF Get
  <2> QED BY <1>1, <2>1, GetOver
<1> QED
  BY <1>2, <1>3 DEF keyed

\* The degrees are listed with their ids.
LEMMA DegreeRows ==
  ASSUME MapOf(IntKey, DEGREE_SCHEMA) \in Descriptors, NEW m, Message(m, MapOf(IntKey, DEGREE_SCHEMA))
  PROVE  LET listed == map_list_body(m, "degreeId")
         IN  /\ SameBut(Valued(m), listed, "degreeId")
             /\ \A i \in DOMAIN listed :
                  Get(listed[i], "degreeId", Null) =
                  Get(Valued(m)[i].value, "degreeId", Get(Valued(m)[i], "key", Null))
             /\ \A row \in Range(listed) : "degreeId" \in DOMAIN row =>
                  \E found \in map_detail(m, "degreeId", row.degreeId) :
                    found.degreeId = row.degreeId
<1> DEFINE listed == map_list_body(m, "degreeId")
           filed == Valued(m)
<1>1. /\ DEGREE_SCHEMA \in Descriptors /\ IsArray(Entries(m))
      /\ \A e \in Range(Entries(m)) :
           /\ Message(Get(e, "value", Empty), DEGREE_SCHEMA)
           /\ "key" \in DOMAIN e => e.key \in Int
  BY MapEntries
<1>2. /\ SameBut(filed, listed, "degreeId") /\ DOMAIN listed = DOMAIN filed /\ IsArray(listed)
      /\ \A i \in DOMAIN listed : listed[i] = Over(filed[i].value, Keyed(filed[i], {"degreeId"}))
  BY <1>1, FlattenedRows DEF map_list_body
<1>3. \A i \in DOMAIN filed : filed[i] \in Range(Entries(m)) /\ "value" \in DOMAIN filed[i]
  BY <1>1, ValuedFact
<1> HIDE DEF listed, filed
<1>4. ASSUME NEW i \in DOMAIN listed
      PROVE  Get(listed[i], "degreeId", Null) =
             Get(filed[i].value, "degreeId", Get(filed[i], "key", Null))
  BY <1>2, KeyedGet
<1>5. ASSUME NEW i \in DOMAIN listed, "degreeId" \in DOMAIN listed[i]
      PROVE  listed[i]["degreeId"] \in Int
  <2>1. Message(filed[i].value, DEGREE_SCHEMA)
    BY <1>1, <1>2, <1>3 DEF Get
  <2>2. CASE "degreeId" \in DOMAIN filed[i].value
    <3>1. 1 \in DOMAIN DEGREE_SCHEMA /\ DEGREE_SCHEMA[1] = Num(1, "degreeId")
      BY DEF DEGREE_SCHEMA
    <3>2. Num(1, "degreeId").name = "degreeId" /\ ~ Num(1, "degreeId").repeated
             /\ Num(1, "degreeId").type.kind = "int"
      BY DEF Num, Field
    <3>3. OfField(filed[i].value["degreeId"], DEGREE_SCHEMA[1])
      BY <1>1, <2>1, <2>2, <3>1, <3>2, MessageField
    <3>4. filed[i].value["degreeId"] \in Int
      BY <3>1, <3>2, <3>3 DEF OfField, OfType
    <3> QED BY <1>2, <2>2, <3>4 DEF Over
  <2>3. CASE "degreeId" \notin DOMAIN filed[i].value
    <3>1. "key" \in DOMAIN filed[i] /\ listed[i]["degreeId"] = filed[i].key
      BY <1>2, <1>5, <2>3 DEF Over, Keyed
    <3> QED BY <1>1, <1>2, <1>3, <3>1
  <2> QED BY <2>2, <2>3
<1>6. ASSUME NEW row \in Range(listed), "degreeId" \in DOMAIN row
      PROVE  \E found \in map_detail(m, "degreeId", row.degreeId) : found.degreeId = row.degreeId
  <2>1. row["degreeId"] \in Int
    BY <1>5, <1>6 DEF Range
  <2> QED BY <1>2, <1>6, <2>1, DetailFound DEF listed
<1> QED
  BY <1>2, <1>4, <1>6 DEF listed, filed

\* A map of the suite.
LEMMA SuiteMap ==
  ASSUME SUITE_USER_RESPONSE_SCHEMA \in Descriptors, NEW m, Message(m, SUITE_USER_RESPONSE_SCHEMA)
  PROVE  /\ Message(Get(m, "userAreaItemMap", Empty), MapOf(IntKey, USER_AREA_ITEM_SCHEMA))
         /\ MapOf(IntKey, USER_AREA_ITEM_SCHEMA) \in Descriptors
         /\ Message(Get(m, "userMusicScoreMap", Empty), MapOf(IntKey, ListOf(USER_MUSIC_SCORE_SCHEMA)))
         /\ MapOf(IntKey, ListOf(USER_MUSIC_SCORE_SCHEMA)) \in Descriptors
         /\ Message(Get(m, "userMusicClearInfoMap", Empty), MapOf(StringKey, USER_MUSIC_CLEAR_INFO_SCHEMA))
         /\ MapOf(StringKey, USER_MUSIC_CLEAR_INFO_SCHEMA) \in Descriptors
         /\ Message(Get(m, "userCharacterRankMap", Empty), MapOf(IntKey, USER_CHARACTER_RANK_SCHEMA))
         /\ MapOf(IntKey, USER_CHARACTER_RANK_SCHEMA) \in Descriptors
         /\ Message(Get(m, "userCharacterPotentialLevelMap", Empty),
                    MapOf(IntKey, USER_CHARACTER_POTENTIAL_LEVEL_SCHEMA))
         /\ MapOf(IntKey, USER_CHARACTER_POTENTIAL_LEVEL_SCHEMA) \in Descriptors
         /\ Message(Get(m, "userCharacterMissionBonusMap", Empty),
                    MapOf(IntKey, ListOf(USER_CHARACTER_MISSION_BONUS_SCHEMA)))
         /\ MapOf(IntKey, ListOf(USER_CHARACTER_MISSION_BONUS_SCHEMA)) \in Descriptors
<1> DEFINE schema == SUITE_USER_RESPONSE_SCHEMA
<1>1. ASSUME NEW number, NEW name, NEW sub, NEW i \in DOMAIN schema, schema[i] = Sub(number, name, sub)
      PROVE  sub \in Descriptors /\ Message(Get(m, name, Empty), sub)
  <2>1. /\ schema[i].name = name /\ ~ schema[i].repeated
        /\ schema[i].type.kind = "message" /\ schema[i].type.of = sub
    BY <1>1 DEF Sub, Field
  <2> HIDE DEF schema
  <2> QED BY <2>1, MemberMessage DEF schema
<1>2. /\ DOMAIN schema = 1 .. 6
      /\ schema[1] = Sub(22, "userAreaItemMap", MapOf(IntKey, USER_AREA_ITEM_SCHEMA))
      /\ schema[2] = Sub(54, "userMusicScoreMap", MapOf(IntKey, ListOf(USER_MUSIC_SCORE_SCHEMA)))
      /\ schema[3] = Sub(409, "userMusicClearInfoMap", MapOf(StringKey, USER_MUSIC_CLEAR_INFO_SCHEMA))
      /\ schema[4] = Sub(400, "userCharacterRankMap", MapOf(IntKey, USER_CHARACTER_RANK_SCHEMA))
      /\ schema[5] = Sub(401, "userCharacterPotentialLevelMap",
                         MapOf(IntKey, USER_CHARACTER_POTENTIAL_LEVEL_SCHEMA))
      /\ schema[6] = Sub(456, "userCharacterMissionBonusMap",
                         MapOf(IntKey, ListOf(USER_CHARACTER_MISSION_BONUS_SCHEMA)))
  BY DEF SUITE_USER_RESPONSE_SCHEMA
<1> HIDE DEF schema
<1>3. 1 \in DOMAIN schema /\ 2 \in DOMAIN schema /\ 3 \in DOMAIN schema
         /\ 4 \in DOMAIN schema /\ 5 \in DOMAIN schema /\ 6 \in DOMAIN schema
  BY <1>2
<1> QED
  BY <1>1, <1>2, <1>3

\* The area items are listed exactly as filed and the counts by difficulty.
LEMMA SuiteRows ==
  ASSUME SUITE_USER_RESPONSE_SCHEMA \in Descriptors, NEW m, Message(m, SUITE_USER_RESPONSE_SCHEMA)
  PROVE  LET items  == Valued(Get(m, "userAreaItemMap", Empty))
             counts == Valued(Get(m, "userMusicClearInfoMap", Empty))
         IN  /\ Len(user_areas(m)) = Len(items)
             /\ \A i \in DOMAIN items : user_areas(m)[i] = items[i].value
             /\ SameBut(counts, user_music_clear_info(m), "difficulty")
             /\ \A i \in DOMAIN user_music_clear_info(m) :
                  Get(user_music_clear_info(m)[i], "difficulty", Null) = Get(counts[i], "key", Null)
<1>1. ASSUME NEW name, NEW key \in {IntKey, StringKey}, NEW sub, MapOf(key, sub) \in Descriptors,
             Message(Get(m, name, Empty), MapOf(key, sub)), NEW names, NEW id, names \subseteq {id}
      PROVE  LET filed == Valued(Get(m, name, Empty))
                 listed == suite_map_values(m, name, names)
             IN  /\ SameBut(filed, listed, id) /\ DOMAIN listed = DOMAIN filed
                 /\ \A i \in DOMAIN listed :
                      /\ listed[i] = Over(Keyed(filed[i], names), filed[i].value)
                      /\ Message(filed[i].value, sub)
                 /\ sub \in Descriptors
  <2> DEFINE map == Get(m, name, Empty)
             filed == Valued(map)
             listed == suite_map_values(m, name, names)
  <2>1. /\ sub \in Descriptors /\ IsArray(Entries(map))
        /\ \A e \in Range(Entries(map)) : Message(Get(e, "value", Empty), sub)
    BY <1>1, MapEntries
  <2>2. listed = flatten_map_values(map, names, TRUE)
    <3>1. CASE name \in DOMAIN m
      BY <3>1 DEF suite_map_values, Get
    <3>2. CASE name \notin DOMAIN m
      <4>1. map = Empty /\ listed = << >>
        BY <3>2 DEF suite_map_values, Get
      <4>2. Entries(Empty) = << >>
        BY DEF Entries, Get, Empty
      <4>3. Valued(Empty) = << >>
        BY <4>2, KeptEmpty DEF Valued
      <4>4. flatten_map_values(Empty, names, TRUE) = << >>
        BY <4>3 DEF flatten_map_values
      <4> QED BY <4>1, <4>4
    <3> QED BY <3>1, <3>2
  <2> HIDE DEF map, listed
  <2>3. /\ SameBut(filed, listed, id) /\ DOMAIN listed = DOMAIN filed
        /\ \A i \in DOMAIN listed : listed[i] = Over(Keyed(filed[i], names), filed[i].value)
    BY <1>1, <2>1, <2>2, FlattenedRows
  <2>4. \A i \in DOMAIN filed : Message(filed[i].value, sub)
    BY <2>1, ValuedFact DEF Get
  <2> QED BY <2>1, <2>3, <2>4 DEF map, listed
<1>2. LET items == Valued(Get(m, "userAreaItemMap", Empty))
      IN  /\ SameBut(items, user_areas(m), "areaItemId") /\ DOMAIN user_areas(m) = DOMAIN items
          /\ \A i \in DOMAIN user_areas(m) :
               /\ user_areas(m)[i] = Over(Keyed(items[i], {}), items[i].value)
               /\ Message(items[i].value, USER_AREA_ITEM_SCHEMA)
          /\ USER_AREA_ITEM_SCHEMA \in Descriptors
  BY <1>1, SuiteMap DEF user_areas
<1>3. LET counts == Valued(Get(m, "userMusicClearInfoMap", Empty))
      IN  /\ SameBut(counts, user_music_clear_info(m), "difficulty")
          /\ \A i \in DOMAIN user_music_clear_info(m) :
               /\ user_music_clear_info(m)[i] = Over(Keyed(counts[i], {"difficulty"}), counts[i].value)
               /\ Message(counts[i].value, USER_MUSIC_CLEAR_INFO_SCHEMA)
          /\ USER_MUSIC_CLEAR_INFO_SCHEMA \in Descriptors
  BY <1>1, SuiteMap DEF user_music_clear_info
<1>4. ASSUME NEW value, NEW e, Message(value, USER_AREA_ITEM_SCHEMA),
             USER_AREA_ITEM_SCHEMA \in Descriptors
      PROVE  Over(Keyed(e, {}), value) = value
  <2>1. IsObject(value)
    BY <1>4, MessageShaped DEF Shaped
  <2>2. Over(Keyed(e, {}), value) = [n \in DOMAIN value |-> value[n]]
    BY DEF Over, Keyed
  <2> QED BY <2>1, <2>2 DEF IsObject
<1>5. "difficulty" \notin NamesOf(USER_MUSIC_CLEAR_INFO_SCHEMA)
  BY DEF NamesOf, USER_MUSIC_CLEAR_INFO_SCHEMA, Num, Field
<1>6. ASSUME NEW value, NEW e, Message(value, USER_MUSIC_CLEAR_INFO_SCHEMA),
             USER_MUSIC_CLEAR_INFO_SCHEMA \in Descriptors
      PROVE  Get(Over(Keyed(e, {"difficulty"}), value), "difficulty", Null) = Get(e, "key", Null)
  <2>1. "difficulty" \notin DOMAIN value
    BY <1>5, <1>6, MessageNames
  <2> QED BY <2>1, KeyedGet
<1>7. LET items == Valued(Get(m, "userAreaItemMap", Empty))
      IN  /\ Len(user_areas(m)) = Len(items)
          /\ \A i \in DOMAIN items : user_areas(m)[i] = items[i].value
  BY <1>2, <1>4 DEF SameBut
<1> QED
  BY <1>3, <1>6, <1>7

\* The rows of the maps are whole and named, whatever the maps hold.
THEOREM MapRowsAreWhole == Spec => []MapRowsAreKept
<1>1. Handled => MapRowsAreKept
  <2> SUFFICES ASSUME Handled, Answered PROVE MapRowsAreKept
    BY DEF MapRowsAreKept
  <2>1. /\ SchemaOf["degrees"] = MapOf(IntKey, DEGREE_SCHEMA)
        /\ SchemaOf["suite"] = SUITE_USER_RESPONSE_SCHEMA
    BY DEF SchemaOf, Over, EVENT_TYPE_SCHEMAS
  <2>2. CASE reply.kind = "degrees"
    <3>1. MapOf(IntKey, DEGREE_SCHEMA) \in Descriptors /\ Message(root, MapOf(IntKey, DEGREE_SCHEMA))
      BY <2>1, <2>2, AnsweredMessage
    <3> QED BY <2>2, <3>1, DegreeRows DEF MapRowsAreKept, SameBut
  <2>3. CASE reply.kind = "suite"
    <3>1. SUITE_USER_RESPONSE_SCHEMA \in Descriptors /\ Message(root, SUITE_USER_RESPONSE_SCHEMA)
      BY <2>1, <2>3, AnsweredMessage
    <3> QED BY <2>3, <3>1, SuiteRows DEF MapRowsAreKept, SameBut
  <2> QED BY <2>2, <2>3 DEF MapRowsAreKept
<1> QED
  BY <1>1, HandledInvariant, PTL

-----------------------------------------------------------------------------
(* Lists of lists: FlattenSeq, and filters of what it makes                *)

Joined(prefix, s, i) == IF i = 1 THEN s ELSE prefix \o s

IsFlat(flat, ss, m) == flat = [i \in 1 .. m |-> Joined(flat[i - 1], ss[i], i)]

\* The list of all elements is that of the whole prefix.
LEMMA FlatFact ==
  ASSUME NEW ss, NEW m \in Nat, Len(ss) = m, m # 0
  PROVE  \E flat : IsFlat(flat, ss, m) /\ FlattenSeq(ss) = flat[m]
<1> DEFINE T == {n \in Nat : \E f : IsFlat(f, ss, n)}
<1>1. 0 \in T
  <2>1. IsFlat([i \in 1 .. 0 |-> << >>], ss, 0)
    BY DEF IsFlat
  <2> QED BY <2>1
<1>2. ASSUME NEW n \in Nat, n \in T PROVE n + 1 \in T
  <2>1. PICK f : IsFlat(f, ss, n)
    BY <1>2
  <2> DEFINE g == [i \in 1 .. n + 1 |-> IF i <= n THEN f[i] ELSE Joined(f[n], ss[i], i)]
  <2>2. ASSUME NEW i \in 1 .. n + 1 PROVE g[i] = Joined(g[i - 1], ss[i], i)
    <3>1. CASE i = 1
      <4>1. g[1] = Joined(IF 1 <= n THEN f[0] ELSE f[n], ss[1], 1)
        BY <2>1 DEF IsFlat
      <4> QED BY <3>1, <4>1 DEF Joined
    <3>2. CASE i # 1 /\ i <= n
      <4>1. g[i] = f[i] /\ g[i - 1] = f[i - 1]
        BY <3>2
      <4> QED BY <2>1, <3>2, <4>1 DEF IsFlat
    <3>3. CASE i # 1 /\ i = n + 1
      BY <3>3
    <3> QED BY <3>1, <3>2, <3>3
  <2>3. IsFlat(g, ss, n + 1)
    BY <2>2 DEF IsFlat
  <2> QED BY <2>3
<1>3. \A n \in Nat : n \in T
  BY <1>1, <1>2, Induction
<1>4. \E f : IsFlat(f, ss, m)
  BY <1>3
<1> DEFINE flat == CHOOSE f : IsFlat(f, ss, m)
<1>5. IsFlat(flat, ss, m)
  BY <1>4
<1>6. FlattenSeq(ss) = flat[m]
  BY DEF FlattenSeq, IsFlat, Joined
<1> QED
  BY <1>5, <1>6

\* Nothing flattened is nothing.
LEMMA FlatEmpty == FlattenSeq(<< >>) = << >>
<1>1. Len(<< >>) = 0
  OBVIOUS
<1> QED
  BY <1>1 DEF FlattenSeq

\* One more list.
LEMMA FlatAppend ==
  ASSUME NEW A, NEW ss \in Seq(Seq(A)), NEW s \in Seq(A)
  PROVE  FlattenSeq(Append(ss, s)) = FlattenSeq(ss) \o s
<1> DEFINE m == Len(ss)
           tt == Append(ss, s)
<1>1. m \in Nat /\ Len(tt) = m + 1 /\ tt[m + 1] = s /\ \A n \in 1 .. m : tt[n] = ss[n]
  BY LenProperties, AppendProperties
<1>2. m = 0 => ss = << >>
  BY EmptySeq
<1> HIDE DEF tt, m
<1>3. PICK g : IsFlat(g, tt, m + 1) /\ FlattenSeq(tt) = g[m + 1]
  BY <1>1, FlatFact
<1>4. g[m + 1] = Joined(g[m], s, m + 1)
  BY <1>1, <1>3 DEF IsFlat
<1>5. CASE m = 0
  <2>1. FlattenSeq(tt) = s
    BY <1>3, <1>4, <1>5 DEF Joined
  <2>2. FlattenSeq(ss) \o s = s
    BY <1>2, <1>5, FlatEmpty, ConcatEmptySeq
  <2> QED BY <2>1, <2>2 DEF tt
<1>6. CASE m # 0
  <2>1. PICK f : IsFlat(f, ss, m) /\ FlattenSeq(ss) = f[m]
    BY <1>1, <1>6, FlatFact DEF m
  <2> DEFINE T == {n \in Nat : n < m => g[n + 1] = f[n + 1]}
  <2>2. ASSUME NEW n \in Nat, n < m
        PROVE  /\ f[n + 1] = Joined(f[n], ss[n + 1], n + 1)
               /\ g[n + 1] = Joined(g[n], ss[n + 1], n + 1)
    <3>1. n + 1 \in 1 .. m /\ n + 1 \in 1 .. m + 1 /\ (n + 1) - 1 = n /\ tt[n + 1] = ss[n + 1]
      BY <1>1, <2>2
    <3>2. f[n + 1] = Joined(f[(n + 1) - 1], ss[n + 1], n + 1)
      BY <2>1, <3>1 DEF IsFlat
    <3>3. g[n + 1] = Joined(g[(n + 1) - 1], tt[n + 1], n + 1)
      BY <1>3, <3>1 DEF IsFlat
    <3> QED BY <3>1, <3>2, <3>3
  <2>3. 0 \in T
    <3>1. f[0 + 1] = Joined(f[0], ss[0 + 1], 0 + 1) /\ g[0 + 1] = Joined(g[0], ss[0 + 1], 0 + 1)
      BY <1>1, <1>6, <2>2
    <3> QED BY <3>1 DEF Joined
  <2>4. ASSUME NEW n \in Nat, n \in T PROVE n + 1 \in T
    BY <1>1, <2>2, <2>4
  <2> HIDE DEF T
  <2>5. \A n \in Nat : n \in T
    BY <2>3, <2>4, Induction
  <2>6. g[m] = f[m]
    <3>1. m - 1 \in Nat /\ m - 1 < m /\ (m - 1) + 1 = m
      BY <1>1, <1>6
    <3>2. m - 1 \in T
      BY <2>5, <3>1
    <3>3. g[(m - 1) + 1] = f[(m - 1) + 1]
      BY <3>1, <3>2 DEF T
    <3> QED BY <3>1, <3>3
  <2>7. g[m + 1] = g[m] \o s
    BY <1>1, <1>4, <1>6 DEF Joined
  <2> QED BY <1>3, <2>1, <2>6, <2>7 DEF tt
<1> QED
  BY <1>5, <1>6

\* It is a list of those elements.
LEMMA FlatTyped ==
  ASSUME NEW A, NEW ss \in Seq(Seq(A))
  PROVE  FlattenSeq(ss) \in Seq(A)
<1> DEFINE T == {tt \in Seq(Seq(A)) : FlattenSeq(tt) \in Seq(A)}
<1>1. << >> \in T
  <2>1. << >> \in Seq(A) /\ << >> \in Seq(Seq(A))
    OBVIOUS
  <2> QED BY <2>1, FlatEmpty
<1>2. ASSUME NEW tt \in Seq(Seq(A)), NEW s \in Seq(A), tt \in T PROVE Append(tt, s) \in T
  <2>1. FlattenSeq(Append(tt, s)) = FlattenSeq(tt) \o s
    BY FlatAppend
  <2>2. Append(tt, s) \in Seq(Seq(A)) /\ FlattenSeq(tt) \o s \in Seq(A)
    BY <1>2
  <2> QED BY <2>1, <2>2
<1> HIDE DEF T
<1>3. \A tt \in Seq(Seq(A)) : tt \in T
  BY <1>1, <1>2, SeqInduction
<1> QED
  BY <1>3 DEF T

\* What is kept of two lists.
LEMMA KeptConcat ==
  ASSUME NEW A, NEW a \in Seq(A), NEW b \in Seq(A), NEW S
  PROVE  Kept(a \o b, S) = Kept(a, S) \o Kept(b, S)
<1> DEFINE T == {t \in Seq(A) : Kept(a \o t, S) = Kept(a, S) \o Kept(t, S)}
<1>1. << >> \in T
  <2>1. a \o << >> = a
    BY ConcatEmptySeq
  <2>2. Kept(a, S) \o << >> = Kept(a, S)
    BY ConcatEmptySeq, KeptTyped
  <2>3. << >> \in Seq(A) /\ Kept(<< >>, S) = << >>
    BY KeptEmpty
  <2> QED BY <2>1, <2>2, <2>3
<1>2. ASSUME NEW t \in Seq(A), NEW x \in A, t \in T PROVE Append(t, x) \in T
  <2> DEFINE ka == Kept(a, S)
             kt == Kept(t, S)
  <2>1. ka \in Seq(A) /\ kt \in Seq(A)
    BY KeptTyped
  <2>2. Kept(a \o t, S) = ka \o kt
    BY <1>2
  <2>3. a \o Append(t, x) = Append(a \o t, x) /\ a \o t \in Seq(A) /\ Append(t, x) \in Seq(A)
    BY AppendIsConcat, ConcatAssociative
  <2>4. /\ Kept(Append(a \o t, x), S) = IF x \in S THEN Append(Kept(a \o t, S), x) ELSE Kept(a \o t, S)
        /\ Kept(Append(t, x), S) = IF x \in S THEN Append(kt, x) ELSE kt
    BY <2>3, KeptAppend
  <2> HIDE DEF ka, kt
  <2>5. ka \o Append(kt, x) = Append(ka \o kt, x)
    BY <2>1, AppendIsConcat, ConcatAssociative
  <2> QED BY <2>2, <2>3, <2>4, <2>5 DEF ka
<1> HIDE DEF T
<1>3. \A t \in Seq(A) : t \in T
  BY <1>1, <1>2, SeqInduction
<1> QED
  BY <1>3 DEF T

\* The values of a function, in the order of its arguments.
Mapped(s, g) == [i \in DOMAIN s |-> g[s[i]]]

Maps(g, A, B) == \A x \in A : g[x] \in B

\* What is mapped element by element keeps its length.
LEMMA MappedTyped ==
  ASSUME NEW A, NEW B, NEW g, Maps(g, A, B), NEW s \in Seq(A)
  PROVE  Mapped(s, g) \in Seq(B) /\ Len(Mapped(s, g)) = Len(s)
<1> DEFINE n == Len(s)
<1>1. n \in Nat /\ DOMAIN s = 1 .. n /\ \A i \in 1 .. n : s[i] \in A
  BY LenProperties
<1> HIDE DEF n
<1>2. Mapped(s, g) \in [1 .. n -> B]
  BY <1>1 DEF Mapped, Maps
<1>3. Mapped(s, g) \in Seq(B) /\ Len(Mapped(s, g)) = n
  BY <1>1, <1>2, AsSeq
<1> QED
  BY <1>3 DEF n

\* Nothing mapped is nothing.
LEMMA MappedEmpty ==
  ASSUME NEW g
  PROVE  Mapped(<< >>, g) = << >>
BY DEF Mapped

\* Mapping goes through a concatenation.
LEMMA MappedConcat ==
  ASSUME NEW A, NEW B, NEW g, Maps(g, A, B), NEW s \in Seq(A), NEW t \in Seq(A)
  PROVE  Mapped(s \o t, g) = Mapped(s, g) \o Mapped(t, g)
<1> DEFINE m == Len(s)
           n == Len(t)
           st == s \o t
           a == Mapped(s, g)
           b == Mapped(t, g)
           c == Mapped(st, g)
<1>1. m \in Nat /\ n \in Nat /\ DOMAIN s = 1 .. m /\ DOMAIN t = 1 .. n
  BY LenProperties
<1>2. /\ st \in Seq(A) /\ Len(st) = m + n
      /\ \A i \in 1 .. m + n : st[i] = IF i <= m THEN s[i] ELSE t[i - m]
  BY ConcatProperties
<1>3. st \in Seq(A) /\ DOMAIN st = 1 .. m + n
  BY <1>2, LenProperties
<1>4. a \in Seq(B) /\ Len(a) = m /\ b \in Seq(B) /\ Len(b) = n
  BY MappedTyped
<1> HIDE DEF st
<1>5. c \in Seq(B) /\ Len(c) = Len(st)
  BY <1>3, MappedTyped
<1>6. /\ \A i \in 1 .. m : a[i] = g[s[i]]
      /\ \A i \in 1 .. n : b[i] = g[t[i]]
      /\ \A i \in 1 .. m + n : c[i] = g[st[i]]
  BY <1>1, <1>3 DEF Mapped
<1> HIDE DEF a, b, c
<1> DEFINE ab == a \o b
<1>7. /\ ab \in Seq(B) /\ Len(ab) = Len(a) + Len(b)
      /\ \A i \in 1 .. Len(a) + Len(b) : ab[i] = IF i <= Len(a) THEN a[i] ELSE b[i - Len(a)]
  BY <1>4, ConcatProperties
<1> HIDE DEF ab, m, n
<1>8. ASSUME NEW i \in 1 .. m + n PROVE c[i] = ab[i]
  <2>1. ab[i] = IF i <= m THEN a[i] ELSE b[i - m]
    BY <1>4, <1>7
  <2>2. st[i] = IF i <= m THEN s[i] ELSE t[i - m]
    BY <1>2
  <2>3. i <= m => i \in 1 .. m
    BY <1>1
  <2>4. ~ (i <= m) => i - m \in 1 .. n
    BY <1>1
  <2>5. c[i] = g[st[i]]
    BY <1>6
  <2> QED BY <1>6, <2>1, <2>2, <2>3, <2>4, <2>5
<1>9. c = ab
  BY <1>2, <1>4, <1>5, <1>7, <1>8, SeqEqual
<1> QED
  BY <1>9 DEF ab, a, b, c, st

\* Mapping goes through an append.
LEMMA MappedAppend ==
  ASSUME NEW A, NEW B, NEW g, Maps(g, A, B), NEW s \in Seq(A), NEW x \in A
  PROVE  Mapped(Append(s, x), g) = Append(Mapped(s, g), g[x])
<1>1. Append(s, x) = s \o <<x>> /\ <<x>> \in Seq(A)
  BY AppendIsConcat
<1>2. Mapped(<<x>>, g) = <<g[x]>>
  BY DEF Mapped
<1> DEFINE one == <<x>>
<1> HIDE DEF one
<1>3. Mapped(s \o one, g) = Mapped(s, g) \o Mapped(one, g)
  <2>1. one \in Seq(A)
    BY <1>1 DEF one
  <2> QED BY <2>1, MappedConcat
<1>4. Mapped(s, g) \in Seq(B) /\ g[x] \in B
  BY MappedTyped DEF Maps
<1>5. Append(Mapped(s, g), g[x]) = Mapped(s, g) \o <<g[x]>>
  BY <1>4, AppendIsConcat
<1> QED
  BY <1>1, <1>2, <1>3, <1>5 DEF one

\* What is kept of all is what is kept of each.
LEMMA KeptFlat ==
  ASSUME NEW A, NEW ss \in Seq(Seq(A)), NEW S
  PROVE  Kept(FlattenSeq(ss), S) = FlattenSeq(Mapped(ss, [s \in Seq(A) |-> Kept(s, S)]))
<1> DEFINE keep == [s \in Seq(A) |-> Kept(s, S)]
           T == {tt \in Seq(Seq(A)) : Kept(FlattenSeq(tt), S) = FlattenSeq(Mapped(tt, keep))}
<1>1. \A s \in Seq(A) : keep[s] = Kept(s, S) /\ keep[s] \in Seq(A)
  BY KeptTyped
<1>2. Maps(keep, Seq(A), Seq(A))
  BY <1>1 DEF Maps
<1> HIDE DEF keep
<1>3. << >> \in T
  <2>1. << >> \in Seq(Seq(A)) /\ Mapped(<< >>, keep) = << >>
    BY MappedEmpty
  <2> QED BY <2>1, FlatEmpty, KeptEmpty
<1>4. ASSUME NEW tt \in Seq(Seq(A)), NEW s \in Seq(A), tt \in T PROVE Append(tt, s) \in T
  <2> DEFINE kk == Mapped(tt, keep)
  <2>1. kk \in Seq(Seq(A)) /\ Mapped(Append(tt, s), keep) = Append(kk, keep[s])
    BY <1>2, MappedTyped, MappedAppend
  <2>2. FlattenSeq(Append(kk, keep[s])) = FlattenSeq(kk) \o keep[s]
    BY <1>1, <2>1, FlatAppend
  <2>3. FlattenSeq(Append(tt, s)) = FlattenSeq(tt) \o s /\ FlattenSeq(tt) \in Seq(A)
    BY FlatAppend, FlatTyped
  <2>4. Kept(FlattenSeq(tt) \o s, S) = Kept(FlattenSeq(tt), S) \o Kept(s, S)
    BY <2>3, KeptConcat
  <2>5. Append(tt, s) \in Seq(Seq(A))
    OBVIOUS
  <2> QED BY <1>1, <1>4, <2>1, <2>2, <2>3, <2>4, <2>5
<1> HIDE DEF T
<1>5. \A tt \in Seq(Seq(A)) : tt \in T
  BY <1>3, <1>4, SeqInduction
<1> QED
  BY <1>5 DEF T, keep

\* What all are mapped to is what each is mapped to.
LEMMA MappedFlat ==
  ASSUME NEW A, NEW B, NEW g, Maps(g, A, B), NEW ss \in Seq(Seq(A))
  PROVE  Mapped(FlattenSeq(ss), g) = FlattenSeq(Mapped(ss, [s \in Seq(A) |-> Mapped(s, g)]))
<1> DEFINE map == [s \in Seq(A) |-> Mapped(s, g)]
           T == {tt \in Seq(Seq(A)) : Mapped(FlattenSeq(tt), g) = FlattenSeq(Mapped(tt, map))}
<1>1. \A s \in Seq(A) : map[s] = Mapped(s, g) /\ map[s] \in Seq(B)
  BY MappedTyped
<1>2. Maps(map, Seq(A), Seq(B))
  BY <1>1 DEF Maps
<1> HIDE DEF map
<1>3. << >> \in T
  <2>1. << >> \in Seq(Seq(A)) /\ Mapped(<< >>, map) = << >> /\ Mapped(<< >>, g) = << >>
    BY MappedEmpty
  <2> QED BY <2>1, FlatEmpty
<1>4. ASSUME NEW tt \in Seq(Seq(A)), NEW s \in Seq(A), tt \in T PROVE Append(tt, s) \in T
  <2> DEFINE mm == Mapped(tt, map)
  <2>1. mm \in Seq(Seq(B)) /\ Mapped(Append(tt, s), map) = Append(mm, map[s])
    BY <1>2, MappedTyped, MappedAppend
  <2>2. FlattenSeq(Append(mm, map[s])) = FlattenSeq(mm) \o map[s]
    BY <1>1, <2>1, FlatAppend
  <2>3. FlattenSeq(Append(tt, s)) = FlattenSeq(tt) \o s /\ FlattenSeq(tt) \in Seq(A)
    BY FlatAppend, FlatTyped
  <2>4. Mapped(FlattenSeq(tt) \o s, g) = Mapped(FlattenSeq(tt), g) \o Mapped(s, g)
    BY <2>3, MappedConcat
  <2>5. Append(tt, s) \in Seq(Seq(A))
    OBVIOUS
  <2> QED BY <1>1, <1>4, <2>1, <2>2, <2>3, <2>4, <2>5
<1> HIDE DEF T
<1>5. \A tt \in Seq(Seq(A)) : tt \in T
  BY <1>3, <1>4, SeqInduction
<1> QED
  BY <1>5 DEF T, map

\* Filtering what elements are mapped to is mapping what is kept of them.
LEMMA KeptMapped ==
  ASSUME NEW A, NEW B, NEW h, NEW g, NEW S, NEW U, NEW s \in Seq(A),
         Maps(h, A, B), Maps(g, A, B),
         \A x \in A : (h[x] \in U <=> x \in S) /\ (x \in S => h[x] = g[x])
  PROVE  Kept(Mapped(s, h), U) = Mapped(Kept(s, S), g)
<1> DEFINE T == {t \in Seq(A) : Kept(Mapped(t, h), U) = Mapped(Kept(t, S), g)}
<1>1. << >> \in T
  <2>1. << >> \in Seq(A) /\ Mapped(<< >>, h) = << >> /\ Mapped(<< >>, g) = << >>
    BY MappedEmpty
  <2>2. Kept(<< >>, U) = << >> /\ Kept(<< >>, S) = << >>
    BY KeptEmpty
  <2> QED BY <2>1, <2>2
<1>2. ASSUME NEW t \in Seq(A), NEW x \in A, t \in T PROVE Append(t, x) \in T
  <2> DEFINE kt == Kept(t, S)
             mt == Mapped(t, h)
  <2>1. mt \in Seq(B) /\ kt \in Seq(A) /\ h[x] \in B
    <3>1. mt \in Seq(B)
      BY MappedTyped
    <3>2. kt \in Seq(A)
      BY KeptTyped
    <3> QED BY <3>1, <3>2 DEF Maps
  <2>2. Mapped(Append(t, x), h) = Append(mt, h[x])
    BY MappedAppend
  <2>3. Kept(Append(mt, h[x]), U) = IF h[x] \in U THEN Append(Kept(mt, U), h[x]) ELSE Kept(mt, U)
    <3> DEFINE y == h[x]
    <3>1. mt \in Seq(B) /\ y \in B
      BY <2>1
    <3> HIDE DEF mt, y
    <3>2. Kept(Append(mt, y), U) = IF y \in U THEN Append(Kept(mt, U), y) ELSE Kept(mt, U)
      BY <3>1, KeptAppend
    <3> QED BY <3>2 DEF y
  <2>4. Kept(Append(t, x), S) = IF x \in S THEN Append(kt, x) ELSE kt
    BY KeptAppend
  <2>5. Mapped(Append(kt, x), g) = Append(Mapped(kt, g), g[x])
    BY <2>1, MappedAppend
  <2>6. Kept(mt, U) = Mapped(kt, g)
    BY <1>2
  <2>7. Append(t, x) \in Seq(A)
    OBVIOUS
  <2> HIDE DEF kt, mt
  <2>8. Kept(Mapped(Append(t, x), h), U) = Mapped(Kept(Append(t, x), S), g)
    <3>1. CASE x \in S
      BY <2>2, <2>3, <2>4, <2>5, <2>6, <3>1
    <3>2. CASE x \notin S
      BY <2>2, <2>3, <2>4, <2>6, <3>2
    <3> QED BY <3>1, <3>2
  <2> QED BY <2>7, <2>8
<1> HIDE DEF T
<1>3. \A t \in Seq(A) : t \in T
  BY <1>1, <1>2, SeqInduction
<1> QED
  BY <1>3 DEF T

\* Sets with the same elements of a list keep the same of it.
LEMMA KeptSame ==
  ASSUME NEW A, NEW s \in Seq(A), NEW S, NEW U, \A x \in A : x \in S <=> x \in U
  PROVE  Kept(s, S) = Kept(s, U)
<1> DEFINE T == {t \in Seq(A) : Kept(t, S) = Kept(t, U)}
<1>1. << >> \in T
  <2>1. << >> \in Seq(A) /\ Kept(<< >>, S) = << >> /\ Kept(<< >>, U) = << >>
    BY KeptEmpty
  <2> QED BY <2>1
<1>2. ASSUME NEW t \in Seq(A), NEW x \in A, t \in T PROVE Append(t, x) \in T
  <2>1. /\ Kept(Append(t, x), S) = IF x \in S THEN Append(Kept(t, S), x) ELSE Kept(t, S)
        /\ Kept(Append(t, x), U) = IF x \in U THEN Append(Kept(t, U), x) ELSE Kept(t, U)
    BY KeptAppend
  <2>2. Append(t, x) \in Seq(A) /\ (x \in S <=> x \in U) /\ Kept(t, S) = Kept(t, U)
    BY <1>2
  <2> QED BY <2>1, <2>2
<1> HIDE DEF T
<1>3. \A t \in Seq(A) : t \in T
  BY <1>1, <1>2, SeqInduction
<1> QED
  BY <1>3 DEF T

\* An array is a sequence of what is in it.
LEMMA ArrayFact ==
  ASSUME NEW s, IsArray(s)
  PROVE  s \in Seq(Range(s)) /\ Len(s) \in Nat /\ DOMAIN s = 1 .. Len(s)
<1>1. PICK A : s \in Seq(A)
  BY DEF IsArray
<1>2. Len(s) \in Nat /\ s \in [1 .. Len(s) -> A]
  BY <1>1, LenProperties
<1>3. s \in [1 .. Len(s) -> Range(s)]
  BY <1>2 DEF Range
<1> QED
  BY <1>2, <1>3, AsSeq

-----------------------------------------------------------------------------
(* Maps of lists: the items, and which of them belong to an id             *)

ValuesOf(e) == Entries(Get(e, "value", Empty))

\* The entries of a map of lists.
IsNested(E) ==
  /\ IsArray(E)
  /\ \A e \in Range(E) : IsArray(ValuesOf(e)) /\ \A x \in Range(ValuesOf(e)) : IsObject(x)

ItemsOf(e, k)      == [j \in DOMAIN ValuesOf(e) |-> NestedItem(e, ValuesOf(e)[j], k)]
OwnedBy(e, k, id)  == Having(ValuesOf(e), k, Get(e, "key", Null), id)
Objects(E)         == UNION {Range(ValuesOf(e)) : e \in Range(E)}
Items(E, k)        == UNION {{NestedItem(e, x, k) : x \in Range(ValuesOf(e))} : e \in Range(E)}
Naming(E, k, id)   == [x \in Objects(E) |-> Over(x, Member(k, id))]

\* The id of an item is its own, or else the key; where it is given, the item
\* is the object with that id.
LEMMA ItemFact ==
  ASSUME NEW e, NEW x, NEW k
  PROVE  /\ Get(NestedItem(e, x, k), k, Null) = Get(x, k, Get(e, "key", Null))
         /\ \A id : Get(x, k, Get(e, "key", Null)) = id /\ id # Null /\ IsObject(x) =>
              NestedItem(e, x, k) = Over(x, Member(k, id))
<1>1. CASE k \in DOMAIN x
  <2>1. NestedItem(e, x, k) = x /\ Get(x, k, Null) = x[k] /\ Get(x, k, Get(e, "key", Null)) = x[k]
    BY <1>1 DEF NestedItem, Get
  <2>2. ASSUME NEW id, x[k] = id, IsObject(x) PROVE x = Over(x, Member(k, id))
    <3>1. DOMAIN Member(k, id) = {k}
      BY DEF Member
    <3>2. Over(x, Member(k, id)) = [n \in DOMAIN x |-> x[n]]
      BY <1>1, <3>1 DEF Over
    <3> QED BY <2>2, <3>2 DEF IsObject
  <2> QED BY <2>1, <2>2
<1>2. CASE k \notin DOMAIN x /\ "key" \in DOMAIN e
  <2> DEFINE member == Member(k, e.key)
  <2>1. DOMAIN member = {k} /\ member[k] = e.key
    BY DEF Member
  <2>2. NestedItem(e, x, k) = Over(member, x)
    BY <1>2 DEF NestedItem
  <2>3. Get(x, k, Get(e, "key", Null)) = e.key
    BY <1>2 DEF Get
  <2> HIDE DEF member
  <2>4. Get(Over(member, x), k, Null) = e.key
    BY <2>1 DEF Get, Over
  <2>5. Over(member, x) = Over(x, member)
    BY <1>2, <2>1 DEF Over
  <2> QED BY <2>2, <2>3, <2>4, <2>5 DEF member
<1>3. CASE k \notin DOMAIN x /\ "key" \notin DOMAIN e
  BY <1>3 DEF NestedItem, Get
<1> QED
  BY <1>1, <1>2, <1>3

\* Of the items of one entry, those with an id are its values that belong to it.
LEMMA ItemsHaving ==
  ASSUME NEW E, IsNested(E), NEW e \in Range(E), NEW k, NEW id, id # Null,
         NEW B, Items(E, k) \subseteq B, {Over(x, Member(k, id)) : x \in Objects(E)} \subseteq B
  PROVE  /\ ItemsOf(e, k) \in Seq(B)
         /\ OwnedBy(e, k, id) \in Seq(Objects(E))
         /\ Kept(ItemsOf(e, k), {y \in B : Get(y, k, Null) = id}) =
            Mapped(OwnedBy(e, k, id), Naming(E, k, id))
<1> DEFINE V == ValuesOf(e)
           A == Range(V)
           h == [x \in A |-> NestedItem(e, x, k)]
           g == Naming(E, k, id)
           S == {x \in Range(V) : Get(x, k, Get(e, "key", Null)) = id}
           U == {y \in B : Get(y, k, Null) = id}
<1>1. V \in Seq(A) /\ Len(V) \in Nat /\ DOMAIN V = 1 .. Len(V) /\ \A x \in A : IsObject(x)
  BY ArrayFact DEF IsNested
<1>2. A \subseteq Objects(E)
  BY DEF Objects
<1>3. \A i \in DOMAIN V : V[i] \in A
  BY DEF Range
<1>4. ItemsOf(e, k) = Mapped(V, h)
  BY <1>3 DEF ItemsOf, Mapped
<1>5. \A x \in A : NestedItem(e, x, k) \in B
  BY DEF Items
<1>6. Maps(h, A, B)
  BY <1>5 DEF Maps
<1>7. Maps(g, A, B)
  BY <1>2 DEF Maps, Naming
<1>8. ASSUME NEW x \in A
      PROVE  (h[x] \in U <=> x \in S) /\ (x \in S => h[x] = g[x])
  <2>1. h[x] = NestedItem(e, x, k) /\ h[x] \in B /\ g[x] = Over(x, Member(k, id))
    BY <1>2, <1>5 DEF Naming
  <2> HIDE DEF h, g, A
  <2>2. IsObject(x)
    BY <1>1
  <2>3. Get(h[x], k, Null) = Get(x, k, Get(e, "key", Null))
    BY <2>1, ItemFact
  <2>4. Get(x, k, Get(e, "key", Null)) = id => h[x] = g[x]
    BY <2>1, <2>2, ItemFact
  <2>5. x \in S <=> Get(x, k, Get(e, "key", Null)) = id
    BY DEF A
  <2> QED BY <2>1, <2>3, <2>4, <2>5
<1>9. OwnedBy(e, k, id) = Kept(V, S)
  BY DEF OwnedBy, Having
<1> HIDE DEF h, g, S, U, V, A
<1>10. Kept(Mapped(V, h), U) = Mapped(Kept(V, S), g)
  BY <1>1, <1>6, <1>7, <1>8, KeptMapped
<1>11. Mapped(V, h) \in Seq(B)
  BY <1>1, <1>6, MappedTyped
<1>12. Kept(V, S) \in Seq(A)
  BY <1>1, KeptTyped
<1>13. Kept(V, S) \in Seq(Objects(E))
  BY <1>2, <1>12
<1> QED
  BY <1>4, <1>9, <1>10, <1>11, <1>13 DEF g, U

\* The items of one entry are among the items.
LEMMA ItemsTyped ==
  ASSUME NEW E, IsNested(E), NEW e \in Range(E), NEW k
  PROVE  ItemsOf(e, k) \in Seq(Items(E, k))
<1> DEFINE I == Items(E, k)
           V == ValuesOf(e)
           its == ItemsOf(e, k)
<1>1. Len(V) \in Nat /\ DOMAIN V = 1 .. Len(V)
  BY ArrayFact DEF IsNested
<1>2. \A x \in Range(V) : NestedItem(e, x, k) \in I
  BY DEF Items
<1>3. \A j \in 1 .. Len(V) : V[j] \in Range(V)
  BY <1>1 DEF Range
<1>4. its = [j \in DOMAIN V |-> NestedItem(e, V[j], k)]
  BY DEF ItemsOf
<1> HIDE DEF V, its, I
<1>5. its \in [1 .. Len(V) -> I]
  BY <1>1, <1>2, <1>3, <1>4
<1>6. its \in Seq(I)
  BY <1>1, <1>5, AsSeq
<1> QED
  BY <1>6 DEF its, I

\* And of all the items, those with an id are the values that belong to it.
LEMMA NestedHaving ==
  ASSUME NEW m, NEW map_name, NEW k, NEW id, id # Null, NEW E,
         E = Entries(Get(m, map_name, Empty)), IsNested(E)
  PROVE  LET listed == flatten_nested_map_values(m, map_name, k)
             owned  == FlattenSeq([i \in DOMAIN E |-> OwnedBy(E[i], k, id)])
         IN  /\ listed \in Seq(Items(E, k)) /\ owned \in Seq(Objects(E))
             /\ Having(listed, k, Null, id) = Mapped(owned, Naming(E, k, id))
<1> DEFINE n == Len(E)
           I == Items(E, k)
           O == Objects(E)
           B == I \cup {Over(x, Member(k, id)) : x \in O}
           g == Naming(E, k, id)
           L == [i \in DOMAIN E |-> ItemsOf(E[i], k)]
           H == [i \in DOMAIN E |-> OwnedBy(E[i], k, id)]
           U == {y \in B : Get(y, k, Null) = id}
           listed == flatten_nested_map_values(m, map_name, k)
           keep == [s \in Seq(B) |-> Kept(s, U)]
           map == [s \in Seq(O) |-> Mapped(s, g)]
<1>1. n \in Nat /\ DOMAIN E = 1 .. n /\ \A i \in 1 .. n : E[i] \in Range(E)
  BY ArrayFact DEF IsNested, Range
<1>2. listed = FlattenSeq(L)
  BY DEF flatten_nested_map_values, ItemsOf, ValuesOf
<1>3. ASSUME NEW i \in 1 .. n
      PROVE  /\ ItemsOf(E[i], k) \in Seq(B) /\ OwnedBy(E[i], k, id) \in Seq(O)
             /\ Kept(ItemsOf(E[i], k), U) = Mapped(OwnedBy(E[i], k, id), g)
  <2>1. I \subseteq B /\ {Over(x, Member(k, id)) : x \in O} \subseteq B
    OBVIOUS
  <2> HIDE DEF B
  <2> QED BY <1>1, <2>1, ItemsHaving
<1>4. ASSUME NEW i \in 1 .. n PROVE ItemsOf(E[i], k) \in Seq(I)
  BY <1>1, ItemsTyped
<1>5. Maps(g, O, B)
  BY DEF Maps, Naming
<1> HIDE DEF n, I, O, B, g
<1>6. L \in Seq(Seq(I)) /\ L \in Seq(Seq(B)) /\ Len(L) = n /\ H \in Seq(Seq(O)) /\ Len(H) = n
  <2>1. L \in [1 .. n -> Seq(I)] /\ L \in [1 .. n -> Seq(B)] /\ H \in [1 .. n -> Seq(O)]
    BY <1>1, <1>3, <1>4
  <2> HIDE DEF L, H
  <2> QED BY <1>1, <2>1, AsSeq
<1>7. \A i \in 1 .. n : L[i] = ItemsOf(E[i], k) /\ H[i] = OwnedBy(E[i], k, id)
  BY <1>1
<1> HIDE DEF L, H, U
<1>8. FlattenSeq(L) \in Seq(I) /\ FlattenSeq(L) \in Seq(B) /\ FlattenSeq(H) \in Seq(O)
  BY <1>6, FlatTyped
<1>9. Having(listed, k, Null, id) = Kept(FlattenSeq(L), U)
  <2> DEFINE flat == FlattenSeq(L)
             S == {y \in Range(flat) : Get(y, k, Null) = id}
  <2>1. Having(listed, k, Null, id) = Kept(flat, S)
    BY <1>2 DEF Having
  <2>2. IsArray(flat)
    BY <1>8 DEF IsArray
  <2>3. flat \in [1 .. Len(flat) -> B]
    BY <1>8, LenProperties
  <2> HIDE DEF flat
  <2>4. flat \in Seq(Range(flat))
    BY <2>2, ArrayFact
  <2>5. \A x \in Range(flat) : x \in S <=> x \in U
    BY <2>3 DEF Range, U
  <2> HIDE DEF S
  <2>6. Kept(flat, S) = Kept(flat, U)
    BY <2>4, <2>5, KeptSame
  <2> QED BY <2>1, <2>6 DEF flat
<1>10. Kept(FlattenSeq(L), U) = FlattenSeq(Mapped(L, keep))
  BY <1>6, KeptFlat
<1>11. Mapped(L, keep) = Mapped(H, map)
  <2>1. DOMAIN L = 1 .. n /\ DOMAIN H = 1 .. n
    BY <1>6, LenProperties
  <2>2. \A i \in 1 .. n : L[i] \in Seq(B) /\ H[i] \in Seq(O)
    BY <1>3, <1>7
  <2>3. \A i \in 1 .. n : keep[L[i]] = map[H[i]]
    BY <1>3, <1>7, <2>2
  <2> HIDE DEF keep, map
  <2> QED BY <2>1, <2>3 DEF Mapped
<1>12. Mapped(FlattenSeq(H), g) = FlattenSeq(Mapped(H, map))
  BY <1>5, <1>6, MappedFlat
<1> QED
  BY <1>2, <1>8, <1>9, <1>10, <1>11, <1>12 DEF I, O, g, H

\* A map of lists of the suite is one, its keys are integers, and so are the
\* ids of its items.
LEMMA NestedMap ==
  ASSUME NEW sub, MapOf(IntKey, ListOf(sub)) \in Descriptors,
         NEW map, Message(map, MapOf(IntKey, ListOf(sub))),
         NEW k, NEW i \in DOMAIN sub, sub[i].name = k, ~ sub[i].repeated, sub[i].type.kind = "int"
  PROVE  /\ IsNested(Entries(map))
         /\ \A y \in Items(Entries(map), k) : k \in DOMAIN y => y[k] \in Int
<1> DEFINE E == Entries(map)
<1>1. /\ ListOf(sub) \in Descriptors /\ IsArray(E)
      /\ \A e \in Range(E) : Message(Get(e, "value", Empty), ListOf(sub))
      /\ \A e \in Range(E) : "key" \in DOMAIN e => e.key \in Int
  BY MapEntries
<1> HIDE DEF E
<1>2. ASSUME NEW e \in Range(E)
      PROVE  /\ sub \in Descriptors /\ IsArray(ValuesOf(e))
             /\ \A x \in Range(ValuesOf(e)) : Message(x, sub)
  <2> DEFINE value == Get(e, "value", Empty)
  <2>1. Message(value, ListOf(sub))
    BY <1>1
  <2> HIDE DEF value
  <2>2. /\ sub \in Descriptors /\ IsArray(Entries(value))
        /\ \A j \in DOMAIN Entries(value) : Message(Entries(value)[j], sub)
    BY <1>1, <2>1, ListEntries
  <2> QED BY <2>2 DEF ValuesOf, value, Range
<1>3. ASSUME NEW e \in Range(E), NEW x \in Range(ValuesOf(e)) PROVE IsObject(x)
  BY <1>2, MessageShaped DEF Shaped
<1>4. ASSUME NEW e \in Range(E), NEW x \in Range(ValuesOf(e)), k \in DOMAIN NestedItem(e, x, k)
      PROVE  NestedItem(e, x, k)[k] \in Int
  <2>1. CASE k \in DOMAIN x
    <3>1. NestedItem(e, x, k) = x
      BY <2>1 DEF NestedItem
    <3>2. OfField(x[k], sub[i])
      BY <1>2, <2>1, MessageField
    <3> QED BY <3>1, <3>2 DEF OfField, OfType
  <2>2. CASE k \notin DOMAIN x /\ "key" \in DOMAIN e
    <3>1. NestedItem(e, x, k) = Over(Member(k, e.key), x)
      BY <2>2 DEF NestedItem
    <3>2. Over(Member(k, e.key), x)[k] = e.key
      BY DEF Over, Member
    <3> QED BY <1>1, <2>2, <3>1, <3>2
  <2>3. CASE k \notin DOMAIN x /\ "key" \notin DOMAIN e
    BY <1>4, <2>3 DEF NestedItem
  <2> QED BY <2>1, <2>2, <2>3
<1>5. IsNested(E)
  BY <1>1, <1>2, <1>3 DEF IsNested
<1>6. \A y \in Items(E, k) : k \in DOMAIN y => y[k] \in Int
  BY <1>4 DEF Items
<1> QED
  BY <1>5, <1>6 DEF E

-----------------------------------------------------------------------------
(* The scores                                                              *)

\* The last of what a list is mapped to.
LEMMA MappedLast ==
  ASSUME NEW A, NEW s \in Seq(A), NEW g
  PROVE  /\ Mapped(s, g) = << >> <=> s = << >>
         /\ s # << >> => Last(Mapped(s, g)) = g[Last(s)] /\ Last(s) \in A
<1> DEFINE n == Len(s)
           B == {g[x] : x \in A}
           t == Mapped(s, g)
<1>1. n \in Nat /\ DOMAIN s = 1 .. n /\ \A i \in 1 .. n : s[i] \in A
  BY LenProperties
<1>2. Maps(g, A, B)
  BY DEF Maps
<1> HIDE DEF B
<1>3. t \in Seq(B) /\ Len(t) = n
  BY <1>2, MappedTyped
<1>4. s = << >> <=> n = 0
  BY EmptySeq
<1>5. \A i \in 1 .. n : t[i] = g[s[i]]
  BY <1>1 DEF Mapped
<1> HIDE DEF t
<1>6. t = << >> <=> n = 0
  BY <1>3, EmptySeq
<1>7. n # 0 => n \in 1 .. n
  BY <1>1
<1>8. Last(t) = t[n] /\ Last(s) = s[n]
  BY <1>3 DEF Last
<1> QED
  BY <1>1, <1>4, <1>5, <1>6, <1>7, <1>8 DEF t

\* The three views of one song.
LEMMA SongScores ==
  ASSUME NEW m, NEW id, id # Null, IsNested(Entries(Get(m, "userMusicScoreMap", Empty)))
  PROVE  LET own == Having(user_music_scores(m), "musicId", Null, id)
         IN  /\ user_music_scores_single(m, id) = own
             /\ \A d :
                  LET on     == Having(own, "musicDifficulty", << >>, d)
                      status == suite_music_status_value(m, id, d)
                  IN  /\ status.played = (on # << >>)
                      /\ status.played =>
                           /\ status.clearStatus = Get(Last(on), "clearStatus", <<"not_cleared">>)
                           /\ status.soloHighScore = Get(Last(on), "soloHighScore", Null)
<1> DEFINE E == Entries(Get(m, "userMusicScoreMap", Empty))
           O == Objects(E)
           g == Naming(E, "musicId", id)
           scores == music_scores(m, id)
           own == Having(user_music_scores(m), "musicId", Null, id)
           B == {g[x] : x \in O}
<1>1. scores \in Seq(O) /\ own = Mapped(scores, g)
  <2>1. scores = FlattenSeq([i \in DOMAIN E |-> OwnedBy(E[i], "musicId", id)])
    BY DEF music_scores, OwnedBy, ValuesOf
  <2>2. own = Having(flatten_nested_map_values(m, "userMusicScoreMap", "musicId"), "musicId", Null, id)
    BY DEF user_music_scores
  <2> HIDE DEF E, scores, own
  <2>3. E = Entries(Get(m, "userMusicScoreMap", Empty)) /\ IsNested(E)
    BY DEF E
  <2> QED BY <2>1, <2>2, <2>3, NestedHaving
<1>2. \A x \in O : g[x] = Over(x, Member("musicId", id))
  BY DEF Naming
<1> HIDE DEF E, O, g, scores, own
<1>3. \A i \in DOMAIN scores : scores[i] \in O
  BY <1>1
<1>4. user_music_scores_single(m, id) = own
  BY <1>1, <1>2, <1>3 DEF user_music_scores_single, Mapped, scores
<1>5. ASSUME NEW x \in O, NEW name, NEW default, name # "musicId"
      PROVE  Get(g[x], name, default) = Get(x, name, default)
  <2>1. g[x] = Over(x, Member("musicId", id))
    BY <1>2
  <2>2. Get(Member("musicId", id), name, default) = default
    BY <1>5 DEF Get, Member
  <2> QED BY <2>1, <2>2, GetOver
<1>6. ASSUME NEW d
      PROVE  LET rows == Having(scores, "musicDifficulty", << >>, d)
                 on   == Having(own, "musicDifficulty", << >>, d)
             IN  rows \in Seq(O) /\ on = Mapped(rows, g)
  <2> DEFINE S == {x \in O : Get(x, "musicDifficulty", << >>) = d}
             U == {y \in B : Get(y, "musicDifficulty", << >>) = d}
  <2>1. Maps(g, O, B)
    BY DEF Maps
  <2>2. \A x \in O : (g[x] \in U <=> x \in S) /\ (x \in S => g[x] = g[x])
    BY <1>5
  <2> HIDE DEF S, U, B
  <2>3. Kept(Mapped(scores, g), U) = Mapped(Kept(scores, S), g)
    BY <1>1, <2>1, <2>2, KeptMapped
  <2>4. own \in Seq(B)
    BY <1>1, <2>1, MappedTyped
  <2>5. Having(own, "musicDifficulty", << >>, d) = Kept(own, U)
    <3> DEFINE S1 == {y \in Range(own) : Get(y, "musicDifficulty", << >>) = d}
    <3>1. IsArray(own) /\ Range(own) \subseteq B
      BY <2>4 DEF IsArray, Range
    <3>2. own \in Seq(Range(own))
      BY <3>1, ArrayFact
    <3>3. \A y \in Range(own) : y \in S1 <=> y \in U
      BY <3>1 DEF U
    <3> HIDE DEF S1
    <3>4. Kept(own, S1) = Kept(own, U)
      BY <3>2, <3>3, KeptSame
    <3> QED BY <3>4 DEF Having, S1
  <2>6. Having(scores, "musicDifficulty", << >>, d) = Kept(scores, S)
    <3> DEFINE S1 == {y \in Range(scores) : Get(y, "musicDifficulty", << >>) = d}
    <3>1. IsArray(scores) /\ Range(scores) \subseteq O
      BY <1>1 DEF IsArray, Range
    <3>2. scores \in Seq(Range(scores))
      BY <3>1, ArrayFact
    <3>3. \A y \in Range(scores) : y \in S1 <=> y \in S
      BY <3>1 DEF S
    <3> HIDE DEF S1
    <3>4. Kept(scores, S1) = Kept(scores, S)
      BY <3>2, <3>3, KeptSame
    <3> QED BY <3>4 DEF Having, S1
  <2>7. Kept(scores, S) \in Seq(O)
    BY <1>1, KeptTyped
  <2> QED BY <1>1, <2>3, <2>5, <2>6, <2>7
<1>7. ASSUME NEW d
      PROVE  LET on     == Having(own, "musicDifficulty", << >>, d)
                 status == suite_music_status_value(m, id, d)
             IN  /\ status.played = (on # << >>)
                 /\ status.played =>
                      /\ status.clearStatus = Get(Last(on), "clearStatus", <<"not_cleared">>)
                      /\ status.soloHighScore = Get(Last(on), "soloHighScore", Null)
  <2> DEFINE rows == Having(scores, "musicDifficulty", << >>, d)
             on == Having(own, "musicDifficulty", << >>, d)
             status == suite_music_status_value(m, id, d)
  <2>1. /\ status.played = (rows # << >>)
        /\ rows # << >> =>
             /\ status.clearStatus = Get(Last(rows), "clearStatus", <<"not_cleared">>)
             /\ status.soloHighScore = Get(Last(rows), "soloHighScore", Null)
    BY DEF suite_music_status_value, scores
  <2>2. rows \in Seq(O) /\ on = Mapped(rows, g)
    BY <1>6
  <2> HIDE DEF rows, on, status
  <2>3. /\ on = << >> <=> rows = << >>
        /\ rows # << >> => Last(on) = g[Last(rows)] /\ Last(rows) \in O
    BY <2>2, MappedLast
  <2>4. rows # << >> => /\ Get(Last(on), "clearStatus", <<"not_cleared">>)
                             = Get(Last(rows), "clearStatus", <<"not_cleared">>)
                        /\ Get(Last(on), "soloHighScore", Null) = Get(Last(rows), "soloHighScore", Null)
    BY <1>5, <2>3
  <2> QED BY <2>1, <2>3, <2>4 DEF on, status
<1> QED
  BY <1>4, <1>7 DEF own

\* Whatever the snapshot holds, the three views of its scores agree.
THEOREM ScoreViewsAgree == Spec => []ScoresAgree
<1>1. Handled => ScoresAgree
  <2> SUFFICES ASSUME Handled, Answered, reply.kind = "suite" PROVE ScoresAgree
    BY DEF ScoresAgree
  <2>1. SchemaOf["suite"] = SUITE_USER_RESPONSE_SCHEMA
    BY DEF SchemaOf, Over, EVENT_TYPE_SCHEMAS
  <2>2. SUITE_USER_RESPONSE_SCHEMA \in Descriptors /\ Message(root, SUITE_USER_RESPONSE_SCHEMA)
    BY <2>1, AnsweredMessage
  <2> DEFINE map == Get(root, "userMusicScoreMap", Empty)
             E == Entries(map)
             listed == user_music_scores(root)
  <2>3. /\ 2 \in DOMAIN USER_MUSIC_SCORE_SCHEMA
        /\ USER_MUSIC_SCORE_SCHEMA[2].name = "musicId" /\ ~ USER_MUSIC_SCORE_SCHEMA[2].repeated
        /\ USER_MUSIC_SCORE_SCHEMA[2].type.kind = "int"
    BY DEF USER_MUSIC_SCORE_SCHEMA, Num, Field
  <2>4. /\ Message(map, MapOf(IntKey, ListOf(USER_MUSIC_SCORE_SCHEMA)))
        /\ MapOf(IntKey, ListOf(USER_MUSIC_SCORE_SCHEMA)) \in Descriptors
    BY <2>2, SuiteMap
  <2>5. IsNested(E) /\ \A y \in Items(E, "musicId") : "musicId" \in DOMAIN y => y["musicId"] \in Int
    BY <2>3, <2>4, NestedMap
  <2>6. Limit \in Int
    BY LimitFact
  <2>7. Range(listed) \subseteq Items(E, "musicId")
    <3>1. listed = flatten_nested_map_values(root, "userMusicScoreMap", "musicId")
      BY DEF user_music_scores
    <3>2. Limit # Null
      BY <2>6, NullAssumption
    <3> HIDE DEF E, listed
    <3>3. E = Entries(Get(root, "userMusicScoreMap", Empty))
      BY DEF E
    <3>4. listed \in Seq(Items(E, "musicId"))
      BY <2>5, <3>1, <3>2, <3>3, NestedHaving
    <3> QED BY <3>4 DEF Range
  <2>8. ASSUME NEW id \in {s.musicId : s \in {t \in Range(listed) : "musicId" \in DOMAIN t}} \cup {Limit}
        PROVE  id # Null
    BY <2>5, <2>6, <2>7, NullAssumption
  <2> HIDE DEF listed
  <2> QED BY <2>5, <2>8, SongScores DEF ScoresAgree, listed
<1> QED
  BY <1>1, HandledInvariant, PTL

-----------------------------------------------------------------------------
(* Counting what is kept of lists of lists                                 *)

\* As many elements are kept as there are positions with one of them.
LEMMA KeptCount ==
  ASSUME NEW A, NEW s \in Seq(A), NEW S
  PROVE  /\ IsFiniteSet({j \in DOMAIN s : s[j] \in S})
         /\ Len(Kept(s, S)) = Cardinality({j \in DOMAIN s : s[j] \in S})
<1> DEFINE Spots(t) == {j \in DOMAIN t : t[j] \in S}
           T == {t \in Seq(A) : IsFiniteSet(Spots(t)) /\ Len(Kept(t, S)) = Cardinality(Spots(t))}
<1>1. << >> \in T
  <2>1. << >> \in Seq(A) /\ Spots(<< >>) = {} /\ Len(<< >>) = 0
    OBVIOUS
  <2>2. Kept(<< >>, S) = << >>
    BY KeptEmpty
  <2> QED BY <2>1, <2>2, FS_EmptySet
<1>2. ASSUME NEW t \in Seq(A), NEW x \in A, t \in T PROVE Append(t, x) \in T
  <2> DEFINE n == Len(t)
             tx == Append(t, x)
             old == Spots(t)
             kt == Kept(t, S)
  <2>1. n \in Nat /\ DOMAIN t = 1 .. n
    BY LenProperties
  <2>2. tx \in Seq(A) /\ Len(tx) = n + 1 /\ tx[n + 1] = x /\ \A i \in 1 .. n : tx[i] = t[i]
    BY AppendProperties
  <2>3. kt \in Seq(A) /\ Len(kt) \in Nat
    BY KeptTyped, LenProperties
  <2>4. Kept(tx, S) = IF x \in S THEN Append(kt, x) ELSE kt
    BY KeptAppend
  <2>5. IsFiniteSet(old) /\ Len(kt) = Cardinality(old) /\ old \subseteq 1 .. n
    BY <1>2, <2>1
  <2> HIDE DEF tx, kt
  <2>6. DOMAIN tx = 1 .. n + 1
    BY <2>2, LenProperties
  <2>7. Spots(tx) = IF x \in S THEN old \cup {n + 1} ELSE old
    <3>1. \A j : j \in 1 .. n + 1 <=> j \in 1 .. n \/ j = n + 1
      BY <2>1
    <3> HIDE DEF n
    <3> QED BY <2>1, <2>2, <2>6, <3>1
  <2> HIDE DEF Spots, n
  <2>8. CASE x \in S
    <3>1. n + 1 \notin old
      BY <2>1, <2>5
    <3>2. IsFiniteSet(old \cup {n + 1}) /\ Cardinality(old \cup {n + 1}) = Cardinality(old) + 1
      BY <2>5, <3>1, FS_AddElement
    <3>3. Len(Append(kt, x)) = Len(kt) + 1
      BY <2>3, <2>8, AppendProperties
    <3> QED BY <2>2, <2>4, <2>5, <2>7, <2>8, <3>2, <3>3 DEF tx
  <2>9. CASE x \notin S
    BY <2>2, <2>4, <2>5, <2>7, <2>9 DEF tx
  <2> QED BY <2>8, <2>9
<1> HIDE DEF T
<1>3. \A t \in Seq(A) : t \in T
  BY <1>1, <1>2, SeqInduction
<1> QED
  BY <1>3 DEF T

Column(i, J)   == {<<i, j>> : j \in J}
Table(P, n)    == UNION {Column(i, P[i]) : i \in 1 .. n}
Counts(P, hh)  == \A i \in DOMAIN hh : IsFiniteSet(P[i]) /\ Cardinality(P[i]) = Len(hh[i])

\* A column has as many pairs as there are in it.
LEMMA ColumnCount ==
  ASSUME NEW i, NEW J, IsFiniteSet(J)
  PROVE  IsFiniteSet(Column(i, J)) /\ Cardinality(Column(i, J)) = Cardinality(J)
<1> DEFINE f == [j \in J |-> <<i, j>>]
<1>1. f \in Bijection(J, Column(i, J))
  BY DEF Bijection, Injection, Surjection, IsInjective, Column
<1>2. ExistsBijection(J, Column(i, J))
  BY <1>1 DEF ExistsBijection
<1> QED
  BY <1>2, FS_Bijection

\* All lists together have as many elements as the columns have pairs.
LEMMA FlatCount ==
  ASSUME NEW A, NEW hh \in Seq(Seq(A)), NEW P, Counts(P, hh)
  PROVE  IsFiniteSet(Table(P, Len(hh))) /\ Len(FlattenSeq(hh)) = Cardinality(Table(P, Len(hh)))
<1> DEFINE T == {tt \in Seq(Seq(A)) : Counts(P, tt) =>
                   IsFiniteSet(Table(P, Len(tt))) /\ Len(FlattenSeq(tt)) = Cardinality(Table(P, Len(tt)))}
<1>1. << >> \in T
  <2>1. << >> \in Seq(Seq(A)) /\ Len(<< >>) = 0 /\ 1 .. 0 = {}
    OBVIOUS
  <2>2. Table(P, 0) = {}
    BY <2>1 DEF Table
  <2> QED BY <2>1, <2>2, FlatEmpty, FS_EmptySet
<1>2. ASSUME NEW tt \in Seq(Seq(A)), NEW s \in Seq(A), tt \in T PROVE Append(tt, s) \in T
  <2> DEFINE n == Len(tt)
             uu == Append(tt, s)
             old == Table(P, n)
             new == Column(n + 1, P[n + 1])
             flat == FlattenSeq(tt)
  <2>1. n \in Nat /\ DOMAIN tt = 1 .. n
    BY LenProperties
  <2>2. uu \in Seq(Seq(A)) /\ Len(uu) = n + 1 /\ uu[n + 1] = s /\ \A i \in 1 .. n : uu[i] = tt[i]
    BY AppendProperties
  <2>3. FlattenSeq(uu) = flat \o s /\ flat \in Seq(A)
    BY FlatAppend, FlatTyped
  <2> HIDE DEF uu
  <2>4. DOMAIN uu = 1 .. n + 1
    BY <2>2, LenProperties
  <2>5. \A i : i \in 1 .. n + 1 <=> i \in 1 .. n \/ i = n + 1
    BY <2>1
  <2> SUFFICES ASSUME Counts(P, uu)
               PROVE  IsFiniteSet(Table(P, n + 1)) /\ Len(FlattenSeq(uu)) = Cardinality(Table(P, n + 1))
    BY <2>2 DEF uu
  <2>6. Counts(P, tt) /\ IsFiniteSet(P[n + 1]) /\ Cardinality(P[n + 1]) = Len(s)
    BY <2>1, <2>2, <2>4, <2>5 DEF Counts
  <2>7. IsFiniteSet(old) /\ Len(flat) = Cardinality(old)
    BY <1>2, <2>6
  <2>8. IsFiniteSet(new) /\ Cardinality(new) = Len(s)
    BY <2>6, ColumnCount
  <2>9. Table(P, n + 1) = old \cup new
    BY <2>5 DEF Table
  <2>10. old \cap new = {}
    <3>1. \A i \in 1 .. n : i # n + 1
      BY <2>1
    <3> QED BY <3>1 DEF Table, Column
  <2> HIDE DEF old, new, flat, n
  <2>11. IsFiniteSet(old \cup new)
           /\ Cardinality(old \cup new) = Cardinality(old) + Cardinality(new) - Cardinality(old \cap new)
    BY <2>7, <2>8, FS_Union
  <2>12. Cardinality(old \cap new) = 0
    BY <2>10, FS_EmptySet
  <2>13. Len(flat \o s) = Len(flat) + Len(s) /\ Len(flat) \in Nat /\ Len(s) \in Nat
    BY <2>3, ConcatProperties, LenProperties
  <2>14. Cardinality(old \cup new) = Len(flat) + Len(s)
    BY <2>7, <2>8, <2>11, <2>12, <2>13
  <2>15. Len(FlattenSeq(uu)) = Len(flat) + Len(s)
    BY <2>3, <2>13
  <2> QED BY <2>9, <2>11, <2>14, <2>15
<1> HIDE DEF T
<1>3. \A tt \in Seq(Seq(A)) : tt \in T
  BY <1>1, <1>2, SeqInduction
<1> QED
  BY <1>3 DEF T

\* Filtering twice.
LEMMA KeptKept ==
  ASSUME NEW A, NEW s \in Seq(A), NEW S, NEW U
  PROVE  Kept(Kept(s, S), U) = Kept(s, S \cap U)
<1> DEFINE T == {t \in Seq(A) : Kept(Kept(t, S), U) = Kept(t, S \cap U)}
<1>1. << >> \in T
  <2>1. << >> \in Seq(A) /\ Kept(<< >>, S) = << >> /\ Kept(<< >>, U) = << >>
        /\ Kept(<< >>, S \cap U) = << >>
    BY KeptEmpty
  <2> QED BY <2>1
<1>2. ASSUME NEW t \in Seq(A), NEW x \in A, t \in T PROVE Append(t, x) \in T
  <2> DEFINE kt == Kept(t, S)
             both == S \cap U
  <2>1. kt \in Seq(A) /\ Append(t, x) \in Seq(A) /\ Kept(kt, U) = Kept(t, both)
    BY <1>2, KeptTyped
  <2>2. x \in both <=> x \in S /\ x \in U
    OBVIOUS
  <2> HIDE DEF kt, both
  <2>3. /\ Kept(Append(t, x), S) = IF x \in S THEN Append(kt, x) ELSE kt
        /\ Kept(Append(t, x), both) = IF x \in both THEN Append(Kept(t, both), x) ELSE Kept(t, both)
    BY KeptAppend DEF kt
  <2>4. Kept(Append(kt, x), U) = IF x \in U THEN Append(Kept(kt, U), x) ELSE Kept(kt, U)
    BY <2>1, KeptAppend
  <2>5. Kept(Kept(Append(t, x), S), U) = Kept(Append(t, x), both)
    <3>1. CASE x \in S
      BY <2>1, <2>2, <2>3, <2>4, <3>1
    <3>2. CASE x \notin S
      BY <2>1, <2>2, <2>3, <3>2
    <3> QED BY <3>1, <3>2
  <2> QED BY <2>1, <2>5 DEF both
<1> HIDE DEF T
<1>3. \A t \in Seq(A) : t \in T
  BY <1>1, <1>2, SeqInduction
<1> QED
  BY <1>3 DEF T

\* A list has a value as often as there is in what is kept of it alone.
LEMMA TimesLen ==
  ASSUME NEW A, NEW s \in Seq(A), NEW v
  PROVE  Times(v, s) = Len(Kept(s, {v}))
<1>1. {j \in DOMAIN s : s[j] \in {v}} = {j \in DOMAIN s : s[j] = v}
  OBVIOUS
<1>2. Len(Kept(s, {v})) = Cardinality({j \in DOMAIN s : s[j] \in {v}})
  BY KeptCount
<1> QED
  BY <1>1, <1>2 DEF Times

\* What is kept is there as often as before.
LEMMA KeptTimes ==
  ASSUME NEW A, NEW s \in Seq(A), NEW S, NEW v
  PROVE  Times(v, Kept(s, S)) = IF v \in S THEN Times(v, s) ELSE 0
<1>1. Kept(s, S) \in Seq(A)
  BY KeptTyped
<1>2. Times(v, Kept(s, S)) = Len(Kept(s, S \cap {v}))
  <2>1. Times(v, Kept(s, S)) = Len(Kept(Kept(s, S), {v}))
    BY <1>1, TimesLen
  <2>2. Kept(Kept(s, S), {v}) = Kept(s, S \cap {v})
    BY KeptKept
  <2> QED BY <2>1, <2>2
<1>3. CASE v \in S
  <2>1. S \cap {v} = {v}
    BY <1>3
  <2> QED BY <1>2, <1>3, <2>1, TimesLen
<1>4. CASE v \notin S
  <2>1. S \cap {v} = {} /\ {j \in DOMAIN s : s[j] \in {}} = {}
    BY <1>4
  <2>2. Len(Kept(s, {})) = Cardinality({j \in DOMAIN s : s[j] \in {}})
    BY KeptCount
  <2>3. Len(Kept(s, {})) = 0
    BY <2>1, <2>2, FS_EmptySet
  <2> QED BY <1>2, <1>4, <2>1, <2>3
<1> QED
  BY <1>3, <1>4

\* The list of all elements has a value as often as it is in one of the lists.
LEMMA FlatTimes ==
  ASSUME NEW A, NEW ss \in Seq(Seq(A)), NEW v
  PROVE  Times(v, FlattenSeq(ss)) =
         Cardinality(Table([i \in 1 .. Len(ss) |-> {j \in DOMAIN ss[i] : ss[i][j] = v}], Len(ss)))
<1> DEFINE n == Len(ss)
           Spots(s) == {j \in DOMAIN s : s[j] = v}
           P == [i \in 1 .. n |-> Spots(ss[i])]
           keep == [s \in Seq(A) |-> Kept(s, {v})]
           hh == Mapped(ss, keep)
<1>1. n \in Nat /\ DOMAIN ss = 1 .. n /\ \A i \in 1 .. n : ss[i] \in Seq(A)
  BY LenProperties
<1>2. FlattenSeq(ss) \in Seq(A)
  BY FlatTyped
<1>3. Times(v, FlattenSeq(ss)) = Len(FlattenSeq(hh))
  BY <1>2, TimesLen, KeptFlat
<1>4. ASSUME NEW s \in Seq(A)
      PROVE  keep[s] \in Seq(A) /\ IsFiniteSet(Spots(s)) /\ Cardinality(Spots(s)) = Len(keep[s])
  <2>1. {j \in DOMAIN s : s[j] \in {v}} = Spots(s)
    OBVIOUS
  <2>2. keep[s] = Kept(s, {v})
    OBVIOUS
  <2>3. Kept(s, {v}) \in Seq(A)
    BY KeptTyped
  <2>4. /\ IsFiniteSet({j \in DOMAIN s : s[j] \in {v}})
        /\ Len(Kept(s, {v})) = Cardinality({j \in DOMAIN s : s[j] \in {v}})
    BY KeptCount
  <2> HIDE DEF keep, Spots
  <2> QED BY <2>1, <2>2, <2>3, <2>4
<1>5. Maps(keep, Seq(A), Seq(A))
  BY <1>4 DEF Maps
<1> HIDE DEF keep, n
<1>6. hh \in Seq(Seq(A)) /\ Len(hh) = n
  BY <1>5, MappedTyped DEF n
<1>7. \A i \in 1 .. n : hh[i] = keep[ss[i]] /\ P[i] = Spots(ss[i])
  BY <1>1 DEF Mapped
<1>8. DOMAIN hh = 1 .. n
  BY <1>1 DEF Mapped
<1> HIDE DEF hh, P, Spots
<1>9. Counts(P, hh)
  BY <1>1, <1>4, <1>7, <1>8 DEF Counts
<1>10. Len(FlattenSeq(hh)) = Cardinality(Table(P, n))
  BY <1>6, <1>9, FlatCount
<1> QED
  BY <1>3, <1>10 DEF P, Spots, n

\* The first element that is kept is the first that is in the set.
LEMMA KeptHead ==
  ASSUME NEW A, NEW s \in Seq(A), NEW S
  PROVE  LET own == {i \in DOMAIN s : s[i] \in S}
         IN  /\ Kept(s, S) = << >> <=> own = {}
             /\ own # {} => Head(Kept(s, S)) = s[Min(own)] /\ Min(own) \in DOMAIN s
<1> DEFINE Own(t) == {i \in DOMAIN t : t[i] \in S}
           First(t) == /\ Kept(t, S) = << >> <=> Own(t) = {}
                       /\ Own(t) # {} => Head(Kept(t, S)) = t[Min(Own(t))] /\ Min(Own(t)) \in DOMAIN t
           T == {t \in Seq(A) : First(t)}
<1>1. << >> \in T
  <2>1. << >> \in Seq(A) /\ Own(<< >>) = {}
    OBVIOUS
  <2> QED BY <2>1, KeptEmpty
<1>2. ASSUME NEW t \in Seq(A), NEW x \in A, t \in T PROVE Append(t, x) \in T
  <2> DEFINE n == Len(t)
             tx == Append(t, x)
             kt == Kept(t, S)
             old == Own(t)
             new == Own(tx)
  <2>1. n \in Nat /\ DOMAIN t = 1 .. n
    BY LenProperties
  <2>2. tx \in Seq(A) /\ Len(tx) = n + 1 /\ tx[n + 1] = x /\ \A i \in 1 .. n : tx[i] = t[i]
    BY AppendProperties
  <2>3. kt \in Seq(A) /\ Len(kt) \in Nat
    BY KeptTyped, LenProperties
  <2>4. Kept(tx, S) = IF x \in S THEN Append(kt, x) ELSE kt
    BY KeptAppend
  <2>5. /\ kt = << >> <=> old = {}
        /\ old # {} => Head(kt) = t[Min(old)] /\ Min(old) \in 1 .. n
    BY <1>2, <2>1
  <2>6. old \subseteq 1 .. n
    BY <2>1
  <2> HIDE DEF tx, kt
  <2>7. DOMAIN tx = 1 .. n + 1
    BY <2>2, LenProperties
  <2>8. new = IF x \in S THEN old \cup {n + 1} ELSE old
    <3>1. \A j : j \in 1 .. n + 1 <=> j \in 1 .. n \/ j = n + 1
      BY <2>1
    <3> HIDE DEF n
    <3> QED BY <2>1, <2>2, <2>7, <3>1
  <2> HIDE DEF Own, n
  <2>9. First(tx)
    <3>1. CASE x \notin S
      <4>1. new = old /\ Kept(tx, S) = kt
        BY <2>4, <2>8, <3>1
      <4>2. old # {} => tx[Min(old)] = t[Min(old)] /\ Min(old) \in DOMAIN tx
        BY <2>1, <2>2, <2>5, <2>7
      <4> QED BY <2>5, <4>1, <4>2
    <3>2. CASE x \in S /\ old = {}
      <4>1. new = {n + 1} /\ Kept(tx, S) = Append(<< >>, x)
        BY <2>4, <2>5, <2>8, <3>2
      <4>2. Min({n + 1}) = n + 1
        <5>1. {n + 1} \in SUBSET Nat
          BY <2>1
        <5> QED BY <5>1, MinFact
      <4>3. Append(<< >>, x) # << >> /\ Head(Append(<< >>, x)) = x
        OBVIOUS
      <4>4. n + 1 \in DOMAIN tx
        BY <2>1, <2>7
      <4> QED BY <2>2, <4>1, <4>2, <4>3, <4>4
    <3>3. CASE x \in S /\ old # {}
      <4>1. new = old \cup {n + 1} /\ Kept(tx, S) = Append(kt, x) /\ new # {}
        BY <2>4, <2>8, <3>3
      <4>2. old \in SUBSET Nat /\ new \in SUBSET Nat
        BY <2>1, <2>6, <4>1
      <4>3. Min(old) \in old /\ \A k \in old : Min(old) <= k
        BY <3>3, <4>2, MinFact
      <4>4. Min(new) \in new /\ \A k \in new : Min(new) <= k
        BY <4>1, <4>2, MinFact
      <4>5. Min(new) = Min(old)
        <5>1. Min(old) \in Nat /\ Min(old) <= n
          BY <2>1, <2>5, <3>3
        <5>2. Min(new) <= Min(old)
          BY <4>1, <4>3, <4>4
        <5>3. Min(new) \in old
          BY <2>1, <4>1, <4>4, <5>1, <5>2
        <5>4. Min(old) <= Min(new) /\ Min(new) \in Nat
          BY <4>2, <4>3, <5>3
        <5> QED BY <5>1, <5>2, <5>4
      <4>6. kt # << >>
        BY <2>5, <3>3
      <4>7. Append(kt, x) # << >> /\ Head(Append(kt, x)) = Head(kt)
        <5>1. Len(kt) # 0
          BY <2>3, <4>6, EmptySeq
        <5>2. /\ Append(kt, x) \in Seq(A) /\ Len(Append(kt, x)) = Len(kt) + 1
              /\ \A i \in 1 .. Len(kt) : Append(kt, x)[i] = kt[i]
          BY <2>3, AppendProperties
        <5>3. Append(kt, x)[1] = kt[1]
          BY <2>3, <5>1, <5>2
        <5> QED BY <2>3, <5>1, <5>2, <5>3, EmptySeq
      <4>8. tx[Min(old)] = t[Min(old)] /\ Min(old) \in DOMAIN tx
        BY <2>1, <2>2, <2>5, <2>7, <3>3
      <4> QED BY <2>5, <3>3, <4>1, <4>5, <4>7, <4>8
    <3> QED BY <3>1, <3>2, <3>3
  <2> QED BY <2>2, <2>9 DEF tx
<1> HIDE DEF T
<1>3. \A t \in Seq(A) : t \in T
  BY <1>1, <1>2, SeqInduction
<1> QED
  BY <1>3 DEF T

-----------------------------------------------------------------------------
(* The ranks of the characters                                             *)

\* Where the values of a map of lists are, whose they are, and what becomes
\* of them.
PlacesOf(E)      == UNION {{<<i, j>> : j \in DOMAIN ValuesOf(E[i])} : i \in DOMAIN E}
ValueAt(E, p)    == ValuesOf(E[p[1]])[p[2]]
OwnerAt(E, k, p) == Get(ValueAt(E, p), k, Get(E[p[1]], "key", Null))
ItemAt(E, k, p)  == IF OwnerAt(E, k, p) = Null THEN ValueAt(E, p)
                    ELSE Over(ValueAt(E, p), Member(k, OwnerAt(E, k, p)))

\* The item at a place has the id of its owner.
LEMMA ItemPlace ==
  ASSUME NEW E, IsNested(E), NEW k, \A y \in Items(E, k) : k \in DOMAIN y => y[k] \in Int,
         NEW i \in DOMAIN E, NEW j \in DOMAIN ValuesOf(E[i])
  PROVE  LET item == ItemAt(E, k, <<i, j>>)
         IN  /\ item = ItemsOf(E[i], k)[j] /\ item \in Items(E, k)
             /\ Get(item, k, Null) = OwnerAt(E, k, <<i, j>>)
<1> DEFINE e == E[i]
           x == ValuesOf(e)[j]
           y == NestedItem(e, x, k)
           owner == Get(x, k, Get(e, "key", Null))
<1>1. e \in Range(E) /\ x \in Range(ValuesOf(e))
  BY DEF Range
<1>2. IsObject(x) /\ y \in Items(E, k)
  BY <1>1 DEF IsNested, Items
<1>3. ItemsOf(e, k)[j] = y
  BY DEF ItemsOf
<1>4. ValueAt(E, <<i, j>>) = x /\ OwnerAt(E, k, <<i, j>>) = owner
  BY DEF ValueAt, OwnerAt
<1> HIDE DEF e, x, owner
<1>5. /\ Get(y, k, Null) = Get(x, k, Get(e, "key", Null))
      /\ \A id : Get(x, k, Get(e, "key", Null)) = id /\ id # Null /\ IsObject(x) =>
           NestedItem(e, x, k) = Over(x, Member(k, id))
  BY ItemFact
<1>6. owner = Null => y = x
  <2> SUFFICES ASSUME owner = Null PROVE y = x
    OBVIOUS
  <2>1. Get(y, k, Null) = Null
    BY <1>5 DEF owner
  <2>2. k \notin DOMAIN y
    BY <1>2, <2>1, NullAssumption DEF Get
  <2>3. ~ (k \notin DOMAIN x /\ "key" \in DOMAIN e)
    <3>1. k \in DOMAIN Over(Member(k, e.key), x)
      BY DEF Over, Member
    <3> QED BY <2>2, <3>1 DEF NestedItem
  <2> QED BY <2>3 DEF NestedItem
<1>7. owner # Null => y = Over(x, Member(k, owner))
  BY <1>2, <1>5 DEF owner
<1>8. ItemAt(E, k, <<i, j>>) = y
  BY <1>4, <1>6, <1>7 DEF ItemAt
<1> QED
  BY <1>2, <1>3, <1>4, <1>5, <1>8 DEF e, owner

\* The list of all items has each as often as there are places with it.
LEMMA ListTimes ==
  ASSUME NEW m, NEW map_name, NEW k, NEW E, E = Entries(Get(m, map_name, Empty)), IsNested(E),
         \A y \in Items(E, k) : k \in DOMAIN y => y[k] \in Int
  PROVE  LET listed == flatten_nested_map_values(m, map_name, k)
         IN  /\ listed \in Seq(Items(E, k))
             /\ \A v : Times(v, listed) = Cardinality({p \in PlacesOf(E) : ItemAt(E, k, p) = v})
<1> DEFINE n == Len(E)
           I == Items(E, k)
           L == [i \in DOMAIN E |-> ItemsOf(E[i], k)]
           listed == flatten_nested_map_values(m, map_name, k)
<1>1. n \in Nat /\ DOMAIN E = 1 .. n /\ \A i \in 1 .. n : E[i] \in Range(E)
  BY ArrayFact DEF IsNested, Range
<1>2. listed = FlattenSeq(L)
  BY DEF flatten_nested_map_values, ItemsOf, ValuesOf
<1>3. \A i \in 1 .. n : ItemsOf(E[i], k) \in Seq(I)
  BY <1>1, ItemsTyped
<1>4. \A i \in 1 .. n : L[i] = ItemsOf(E[i], k)
  BY <1>1
<1>5. L \in Seq(Seq(I)) /\ Len(L) = n
  <2>1. L \in [1 .. n -> Seq(I)]
    BY <1>1, <1>3
  <2> HIDE DEF L, I, n
  <2> QED BY <1>1, <2>1, AsSeq
<1> HIDE DEF L, I
<1>6. ASSUME NEW v PROVE Times(v, listed) = Cardinality({p \in PlacesOf(E) : ItemAt(E, k, p) = v})
  <2> DEFINE P == [i \in 1 .. n |-> {j \in DOMAIN L[i] : L[i][j] = v}]
             Q == {p \in PlacesOf(E) : ItemAt(E, k, p) = v}
  <2>1. Times(v, listed) = Cardinality(Table(P, n))
    BY <1>2, <1>5, FlatTimes
  <2>2. ASSUME NEW i \in 1 .. n
        PROVE  P[i] = {j \in DOMAIN ValuesOf(E[i]) : ItemAt(E, k, <<i, j>>) = v}
    <3>1. \A j \in DOMAIN ValuesOf(E[i]) : ItemAt(E, k, <<i, j>>) = ItemsOf(E[i], k)[j]
      BY <1>1, ItemPlace
    <3>2. DOMAIN ItemsOf(E[i], k) = DOMAIN ValuesOf(E[i])
      BY DEF ItemsOf
    <3> QED BY <1>4, <3>1, <3>2
  <2>3. Table(P, n) = Q
    <3>1. \A p : p \in Table(P, n) <=> \E i \in 1 .. n : \E j \in P[i] : p = <<i, j>>
      <4> HIDE DEF P, n
      <4> QED BY DEF Table, Column
    <3>2. \A p : p \in PlacesOf(E) <=> \E i \in 1 .. n : \E j \in DOMAIN ValuesOf(E[i]) : p = <<i, j>>
      BY <1>1 DEF PlacesOf
    <3> HIDE DEF P, n
    <3> QED BY <2>2, <3>1, <3>2
  <2> QED BY <2>1, <2>3
<1> HIDE DEF n
<1>7. listed \in Seq(I)
  BY <1>2, <1>5, FlatTyped
<1> QED
  BY <1>6, <1>7 DEF I

\* Those with an id have each as often as there are places of that owner.
LEMMA OwnedTimes ==
  ASSUME NEW m, NEW map_name, NEW k, NEW E, E = Entries(Get(m, map_name, Empty)), IsNested(E),
         \A y \in Items(E, k) : k \in DOMAIN y => y[k] \in Int, NEW id, NEW v
  PROVE  Times(v, Having(flatten_nested_map_values(m, map_name, k), k, Null, id)) =
         Cardinality({p \in {q \in PlacesOf(E) : OwnerAt(E, k, q) = id} : ItemAt(E, k, p) = v})
<1> DEFINE I == Items(E, k)
           listed == flatten_nested_map_values(m, map_name, k)
           S == {y \in Range(listed) : Get(y, k, Null) = id}
           U == {y \in I : Get(y, k, Null) = id}
           due == {q \in PlacesOf(E) : OwnerAt(E, k, q) = id}
<1>1. /\ listed \in Seq(I)
      /\ Times(v, listed) = Cardinality({p \in PlacesOf(E) : ItemAt(E, k, p) = v})
  BY ListTimes
<1>2. ASSUME NEW p \in PlacesOf(E)
      PROVE  ItemAt(E, k, p) \in I /\ Get(ItemAt(E, k, p), k, Null) = OwnerAt(E, k, p)
  <2>1. PICK i \in DOMAIN E : \E j \in DOMAIN ValuesOf(E[i]) : p = <<i, j>>
    BY DEF PlacesOf
  <2>2. PICK j \in DOMAIN ValuesOf(E[i]) : p = <<i, j>>
    BY <2>1
  <2> QED BY <2>2, ItemPlace
<1>3. Having(listed, k, Null, id) = Kept(listed, S)
  BY DEF Having
<1> HIDE DEF I, listed
<1>4. Kept(listed, S) = Kept(listed, U)
  <2>1. IsArray(listed) /\ listed \in [1 .. Len(listed) -> I]
    BY <1>1, LenProperties DEF IsArray
  <2>2. listed \in Seq(Range(listed))
    BY <2>1, ArrayFact
  <2>3. \A x \in Range(listed) : x \in S <=> x \in U
    BY <2>1 DEF Range
  <2> HIDE DEF S, U
  <2> QED BY <2>2, <2>3, KeptSame
<1>5. Times(v, Kept(listed, U)) = IF v \in U THEN Times(v, listed) ELSE 0
  BY <1>1, KeptTimes
<1>6. CASE v \in U
  <2>1. {p \in due : ItemAt(E, k, p) = v} = {p \in PlacesOf(E) : ItemAt(E, k, p) = v}
    BY <1>2, <1>6
  <2> QED BY <1>1, <1>3, <1>4, <1>5, <1>6, <2>1 DEF listed
<1>7. CASE v \notin U
  <2>1. {p \in due : ItemAt(E, k, p) = v} = {}
    BY <1>2, <1>7
  <2> QED BY <1>3, <1>4, <1>5, <1>7, <2>1, FS_EmptySet DEF listed
<1> QED
  BY <1>6, <1>7

\* A member that is put in, and one that is not.
LEMMA MemberGet ==
  ASSUME NEW name, NEW value, NEW n, NEW default
  PROVE  /\ Get(Member(name, value), name, default) = value
         /\ n # name => Get(Member(name, value), n, default) = default
         /\ Get(Empty, n, default) = default
BY EmptyObject DEF Member, Get

\* A row with its extras, none of which its value has.
LEMMA RankRow ==
  ASSUME NEW m, NEW key, NEW value,
         "potentialLevel" \notin DOMAIN value, "characterMissionBonus" \notin DOMAIN value
  PROVE  LET row       == Over(CharacterExtras(m, key), Over(Member("characterId", key), value))
             potential == Having(Entries(Get(m, "userCharacterPotentialLevelMap", Empty)), "key", Null, key)
             bonuses   == Having(user_character_mission_bonuses(m), "characterId", Null, key)
         IN  /\ row.characterId = key
             /\ Get(row, "characterMissionBonus", << >>) = bonuses
             /\ Get(row, "potentialLevel", Null) =
                IF potential = << >> THEN Null ELSE Get(Head(potential), "value", Null)
<1> DEFINE own == Over(Member("characterId", key), value)
           row == Over(CharacterExtras(m, key), own)
           potential == Having(Entries(Get(m, "userCharacterPotentialLevelMap", Empty)), "key", Null, key)
           bonuses == Having(user_character_mission_bonuses(m), "characterId", Null, key)
           leveled == potential # << >> /\ "value" \in DOMAIN Head(potential)
           level == Head(potential).value
           P == IF leveled THEN Member("potentialLevel", level) ELSE Empty
           Q == IF bonuses # << >> THEN Member("characterMissionBonus", bonuses) ELSE Empty
<1>1. CharacterExtras(m, key) = Over(P, Q)
  BY DEF CharacterExtras
<1>2. (IF leveled THEN level ELSE Null) =
      IF potential = << >> THEN Null ELSE Get(Head(potential), "value", Null)
  <2> HIDE DEF potential
  <2> QED BY DEF Get
<1> HIDE DEF bonuses, leveled, level
<1>3. ASSUME NEW n, NEW default
      PROVE  /\ n # "potentialLevel" => Get(P, n, default) = default
             /\ Get(P, "potentialLevel", default) = IF leveled THEN level ELSE default
             /\ n # "characterMissionBonus" => Get(Q, n, default) = default
             /\ Get(Q, "characterMissionBonus", default) = IF bonuses # << >> THEN bonuses ELSE default
             /\ n # "characterId" => Get(own, n, default) = Get(value, n, default)
             /\ Get(own, "characterId", default) = key
  <2>1. /\ n # "potentialLevel" => Get(P, n, default) = default
        /\ Get(P, "potentialLevel", default) = IF leveled THEN level ELSE default
    BY MemberGet
  <2>2. /\ n # "characterMissionBonus" => Get(Q, n, default) = default
        /\ Get(Q, "characterMissionBonus", default) = IF bonuses # << >> THEN bonuses ELSE default
    BY MemberGet
  <2>3. /\ n # "characterId" => Get(own, n, default) = Get(value, n, default)
        /\ Get(own, "characterId", default) = key
    BY MemberGet, GetOver
  <2> QED BY <2>1, <2>2, <2>3
<1>4. "characterId" \in DOMAIN row
  BY DEF Over, Member
<1> HIDE DEF P, Q, own
<1>5. ASSUME NEW n, NEW default
      PROVE  Get(row, n, default) = Get(P, n, Get(Q, n, Get(own, n, default)))
  BY <1>1, GetOver
<1> HIDE DEF row
<1>6. row["characterId"] = key
  <2>1. Get(row, "characterId", Null) = key
    BY <1>3, <1>5
  <2> QED BY <1>4, <2>1 DEF Get
<1>7. Get(row, "characterMissionBonus", << >>) = bonuses
  <2>1. Get(value, "characterMissionBonus", << >>) = << >>
    BY DEF Get
  <2> QED BY <1>3, <1>5, <2>1
<1>8. Get(row, "potentialLevel", Null) = IF leveled THEN level ELSE Null
  <2>1. Get(value, "potentialLevel", Null) = Null
    BY DEF Get
  <2> QED BY <1>3, <1>5, <2>1
<1> QED
  BY <1>2, <1>6, <1>7, <1>8 DEF row, own, bonuses

\* Every rank has the bonuses and the potential level of its character, and
\* there is one row for every rank.
LEMMA RankRows ==
  ASSUME SUITE_USER_RESPONSE_SCHEMA \in Descriptors, NEW m, Message(m, SUITE_USER_RESPONSE_SCHEMA)
  PROVE  LET E      == Entries(Get(m, "userCharacterMissionBonusMap", Empty))
             ranks  == Entries(Get(m, "userCharacterRankMap", Empty))
             levels == Entries(Get(m, "userCharacterPotentialLevelMap", Empty))
             rows   == suite_character_rank_values(m)
         IN  /\ \A v : Times(v, [i \in DOMAIN rows |-> rows[i].characterId]) =
                       Times(v, [i \in {j \in DOMAIN ranks : {"key", "value"} \subseteq DOMAIN ranks[j]}
                                   |-> ranks[i].key])
             /\ \A row \in Range(rows) :
                  /\ Get(row, "characterMissionBonus", << >>) =
                     Having(user_character_mission_bonuses(m), "characterId", Null, row.characterId)
                  /\ LET own == {i \in DOMAIN levels : Get(levels[i], "key", Null) = row.characterId}
                     IN  Get(row, "potentialLevel", Null) =
                         IF own = {} THEN Null ELSE Get(levels[Min(own)], "value", Null)
<1> DEFINE rankMap == Get(m, "userCharacterRankMap", Empty)
           levelMap == Get(m, "userCharacterPotentialLevelMap", Empty)
           ranks == Entries(rankMap)
           levels == Entries(levelMap)
           A == Range(ranks)
           S == {e \in A : {"key", "value"} \subseteq DOMAIN e}
           ranked == Kept(ranks, S)
           rows == suite_character_rank_values(m)
           Ranked == {j \in DOMAIN ranks : {"key", "value"} \subseteq DOMAIN ranks[j]}
<1>1. /\ IsArray(ranks) /\ USER_CHARACTER_RANK_SCHEMA \in Descriptors
      /\ \A e \in A : Message(Get(e, "value", Empty), USER_CHARACTER_RANK_SCHEMA)
  <2>1. /\ Message(rankMap, MapOf(IntKey, USER_CHARACTER_RANK_SCHEMA))
        /\ MapOf(IntKey, USER_CHARACTER_RANK_SCHEMA) \in Descriptors
    BY SuiteMap
  <2> HIDE DEF rankMap
  <2> QED BY <2>1, MapEntries
<1>2. IsArray(levels)
  <2>1. /\ Message(levelMap, MapOf(IntKey, USER_CHARACTER_POTENTIAL_LEVEL_SCHEMA))
        /\ MapOf(IntKey, USER_CHARACTER_POTENTIAL_LEVEL_SCHEMA) \in Descriptors
    BY SuiteMap
  <2> HIDE DEF levelMap
  <2> QED BY <2>1, MapEntries
<1>3. rows = [i \in DOMAIN ranked |->
                Over(CharacterExtras(m, ranked[i].key),
                     Over(Member("characterId", ranked[i].key), ranked[i].value))]
  BY DEF suite_character_rank_values
<1>4. ranks \in Seq(A)
  <2> HIDE DEF ranks
  <2> QED BY <1>1, ArrayFact
<1> HIDE DEF ranks, levels, rows, A
<1>5. ranked \in Seq(A) /\ Range(ranked) = A \cap S
  <2> HIDE DEF S
  <2>1. Kept(ranks, S) \in Seq(A) /\ Range(Kept(ranks, S)) = Range(ranks) \cap S
    BY <1>4, KeptTyped
  <2> QED BY <2>1 DEF A
<1> HIDE DEF ranked
<1>6. ASSUME NEW i \in DOMAIN ranked
      PROVE  LET potential == Having(levels, "key", Null, ranked[i].key)
             IN  /\ rows[i].characterId = ranked[i].key
                 /\ Get(rows[i], "characterMissionBonus", << >>) =
                    Having(user_character_mission_bonuses(m), "characterId", Null, ranked[i].key)
                 /\ Get(rows[i], "potentialLevel", Null) =
                    IF potential = << >> THEN Null ELSE Get(Head(potential), "value", Null)
  <2> DEFINE e == ranked[i]
             key == e.key
             value == e.value
  <2>1. e \in A /\ "value" \in DOMAIN e
    BY <1>5 DEF Range
  <2>2. Message(value, USER_CHARACTER_RANK_SCHEMA)
    BY <1>1, <2>1 DEF Get
  <2>3. {"potentialLevel", "characterMissionBonus"} \cap NamesOf(USER_CHARACTER_RANK_SCHEMA) = {}
    BY DEF NamesOf, USER_CHARACTER_RANK_SCHEMA, Num, Field
  <2>4. "potentialLevel" \notin DOMAIN value /\ "characterMissionBonus" \notin DOMAIN value
    BY <1>1, <2>2, <2>3, MessageNames
  <2>5. rows[i] = Over(CharacterExtras(m, key), Over(Member("characterId", key), value))
    BY <1>3
  <2> HIDE DEF e, key, value
  <2> QED BY <2>4, <2>5, RankRow DEF levels, key, e
<1>7. ASSUME NEW v
      PROVE  Times(v, [i \in DOMAIN rows |-> rows[i].characterId]) =
             Times(v, [i \in Ranked |-> ranks[i].key])
  <2> DEFINE U == {e \in A : e.key = v}
  <2>1. Times(v, [i \in DOMAIN rows |-> rows[i].characterId]) =
        Cardinality({i \in DOMAIN ranked : ranked[i] \in U})
    <3>1. DOMAIN rows = DOMAIN ranked
      BY <1>3
    <3>2. \A i \in DOMAIN ranked : rows[i].characterId = ranked[i].key /\ ranked[i] \in A
      BY <1>5, <1>6 DEF Range
    <3>3. {i \in DOMAIN rows : [n \in DOMAIN rows |-> rows[n].characterId][i] = v} =
          {i \in DOMAIN ranked : ranked[i] \in U}
      BY <3>1, <3>2
    <3> QED BY <3>3 DEF Times
  <2>2. Times(v, [i \in Ranked |-> ranks[i].key]) =
        Cardinality({i \in DOMAIN ranks : ranks[i] \in S \cap U})
    <3>1. \A i \in DOMAIN ranks : ranks[i] \in A
      BY DEF A, Range
    <3>2. {i \in Ranked : [n \in Ranked |-> ranks[n].key][i] = v} =
          {i \in DOMAIN ranks : ranks[i] \in S \cap U}
      BY <3>1
    <3> QED BY <3>2 DEF Times
  <2> HIDE DEF S, U, Ranked
  <2>3. Len(Kept(ranked, U)) = Cardinality({i \in DOMAIN ranked : ranked[i] \in U})
    BY <1>5, KeptCount
  <2>4. Len(Kept(ranks, S \cap U)) = Cardinality({i \in DOMAIN ranks : ranks[i] \in S \cap U})
    BY <1>4, KeptCount
  <2>5. Kept(ranked, U) = Kept(ranks, S \cap U)
    BY <1>4, KeptKept DEF ranked
  <2> QED BY <2>1, <2>2, <2>3, <2>4, <2>5
<1>8. ASSUME NEW key
      PROVE  LET own       == {i \in DOMAIN levels : Get(levels[i], "key", Null) = key}
                 potential == Having(levels, "key", Null, key)
             IN  (IF potential = << >> THEN Null ELSE Get(Head(potential), "value", Null)) =
                 IF own = {} THEN Null ELSE Get(levels[Min(own)], "value", Null)
  <2> DEFINE B == Range(levels)
             L == {e \in B : Get(e, "key", Null) = key}
             own == {i \in DOMAIN levels : Get(levels[i], "key", Null) = key}
             first == {i \in DOMAIN levels : levels[i] \in L}
  <2>1. levels \in Seq(B)
    BY <1>2, ArrayFact
  <2>2. Having(levels, "key", Null, key) = Kept(levels, L)
    BY DEF Having
  <2>3. own = first
    BY DEF Range
  <2> HIDE DEF B, L
  <2>4. /\ Kept(levels, L) = << >> <=> first = {}
        /\ first # {} => Head(Kept(levels, L)) = levels[Min(first)]
    BY <2>1, KeptHead
  <2> HIDE DEF own, first
  <2> QED BY <2>2, <2>3, <2>4 DEF own
<1>9. ASSUME NEW row \in Range(rows)
      PROVE  LET own == {i \in DOMAIN levels : Get(levels[i], "key", Null) = row.characterId}
             IN  /\ Get(row, "characterMissionBonus", << >>) =
                    Having(user_character_mission_bonuses(m), "characterId", Null, row.characterId)
                 /\ Get(row, "potentialLevel", Null) =
                    IF own = {} THEN Null ELSE Get(levels[Min(own)], "value", Null)
  <2>1. PICK i \in DOMAIN ranked : row = rows[i]
    BY <1>3 DEF Range
  <2> DEFINE key == ranked[i].key
             potential == Having(levels, "key", Null, key)
  <2>2. /\ row.characterId = key
        /\ Get(row, "characterMissionBonus", << >>) =
           Having(user_character_mission_bonuses(m), "characterId", Null, key)
        /\ Get(row, "potentialLevel", Null) =
           IF potential = << >> THEN Null ELSE Get(Head(potential), "value", Null)
    BY <1>6, <2>1
  <2> HIDE DEF key
  <2> QED BY <1>8, <2>2
<1> QED
  BY <1>7, <1>9 DEF ranks, levels, rows

\* Whatever the snapshot holds, the list of all bonuses has each as often as it
\* was sent, there is a row for every rank, and it shows exactly the bonuses
\* and the level of its character.
THEOREM BonusesAreShownOnce == Spec => []BonusesReachTheirCharacter
<1>1. Handled => BonusesReachTheirCharacter
  <2> SUFFICES ASSUME Handled, Answered, reply.kind = "suite"
               PROVE  BonusesReachTheirCharacter
    BY DEF BonusesReachTheirCharacter
  <2> DEFINE k == "characterId"
             map == Get(root, "userCharacterMissionBonusMap", Empty)
             E == Entries(map)
             ranks == Entries(Get(root, "userCharacterRankMap", Empty))
             levels == Entries(Get(root, "userCharacterPotentialLevelMap", Empty))
             rows == suite_character_rank_values(root)
             listed == user_character_mission_bonuses(root)
             Ranked == {i \in DOMAIN ranks : {"key", "value"} \subseteq DOMAIN ranks[i]}
             Due(id) == {p \in PlacesOf(E) : OwnerAt(E, k, p) = id}
             Own(id) == {i \in DOMAIN levels : Get(levels[i], "key", Null) = id}
  <2>1. SchemaOf["suite"] = SUITE_USER_RESPONSE_SCHEMA
    BY DEF SchemaOf, Over, EVENT_TYPE_SCHEMAS
  <2>2. SUITE_USER_RESPONSE_SCHEMA \in Descriptors /\ Message(root, SUITE_USER_RESPONSE_SCHEMA)
    BY <2>1, AnsweredMessage
  <2>3. IsNested(E) /\ \A y \in Items(E, k) : k \in DOMAIN y => y[k] \in Int
    <3>1. /\ Message(map, MapOf(IntKey, ListOf(USER_CHARACTER_MISSION_BONUS_SCHEMA)))
          /\ MapOf(IntKey, ListOf(USER_CHARACTER_MISSION_BONUS_SCHEMA)) \in Descriptors
      BY <2>2, SuiteMap
    <3>2. /\ 1 \in DOMAIN USER_CHARACTER_MISSION_BONUS_SCHEMA
          /\ USER_CHARACTER_MISSION_BONUS_SCHEMA[1].name = "characterId"
          /\ ~ USER_CHARACTER_MISSION_BONUS_SCHEMA[1].repeated
          /\ USER_CHARACTER_MISSION_BONUS_SCHEMA[1].type.kind = "int"
      BY DEF USER_CHARACTER_MISSION_BONUS_SCHEMA, Num, Field
    <3> HIDE DEF map
    <3> QED BY <3>1, <3>2, NestedMap
  <2>4. /\ \A v : Times(v, [i \in DOMAIN rows |-> rows[i].characterId]) =
                  Times(v, [i \in Ranked |-> ranks[i].key])
        /\ \A row \in Range(rows) :
             /\ Get(row, "characterMissionBonus", << >>) = Having(listed, k, Null, row.characterId)
             /\ Get(row, "potentialLevel", Null) =
                IF Own(row.characterId) = {} THEN Null
                ELSE Get(levels[Min(Own(row.characterId))], "value", Null)
    BY <2>2, RankRows
  <2>5. listed = flatten_nested_map_values(root, "userCharacterMissionBonusMap", k)
    BY DEF user_character_mission_bonuses
  <2>6. E = Entries(Get(root, "userCharacterMissionBonusMap", Empty))
    OBVIOUS
  <2> HIDE DEF E, listed
  <2>7. ASSUME NEW v
        PROVE  Times(v, listed) = Times(v, [p \in PlacesOf(E) |-> ItemAt(E, k, p)])
    <3>1. Times(v, listed) = Cardinality({p \in PlacesOf(E) : ItemAt(E, k, p) = v})
      BY <2>3, <2>5, <2>6, ListTimes
    <3>2. {p \in PlacesOf(E) : [q \in PlacesOf(E) |-> ItemAt(E, k, q)][p] = v} =
          {p \in PlacesOf(E) : ItemAt(E, k, p) = v}
      OBVIOUS
    <3> QED BY <3>1, <3>2 DEF Times
  <2>8. ASSUME NEW id, NEW v
        PROVE  Times(v, Having(listed, k, Null, id)) = Times(v, [p \in Due(id) |-> ItemAt(E, k, p)])
    <3>1. Times(v, Having(listed, k, Null, id)) = Cardinality({p \in Due(id) : ItemAt(E, k, p) = v})
      BY <2>3, <2>5, <2>6, OwnedTimes
    <3>2. {p \in Due(id) : [q \in Due(id) |-> ItemAt(E, k, q)][p] = v} =
          {p \in Due(id) : ItemAt(E, k, p) = v}
      OBVIOUS
    <3> QED BY <3>1, <3>2 DEF Times
  <2>9. /\ SameElements(listed, [p \in PlacesOf(E) |-> ItemAt(E, k, p)])
        /\ SameElements([i \in DOMAIN rows |-> rows[i].characterId], [i \in Ranked |-> ranks[i].key])
        /\ \A row \in Range(rows) :
             /\ SameElements(Get(row, "characterMissionBonus", << >>),
                             [p \in Due(row.characterId) |-> ItemAt(E, k, p)])
             /\ Get(row, "potentialLevel", Null) =
                IF Own(row.characterId) = {} THEN Null
                ELSE Get(levels[Min(Own(row.characterId))], "value", Null)
    <3> HIDE DEF rows, ranks, levels, Ranked, Due, Own
    <3>1. SameElements(listed, [p \in PlacesOf(E) |-> ItemAt(E, k, p)])
      BY <2>7 DEF SameElements
    <3>2. SameElements([i \in DOMAIN rows |-> rows[i].characterId], [i \in Ranked |-> ranks[i].key])
      BY <2>4 DEF SameElements
    <3>3. ASSUME NEW row \in Range(rows)
          PROVE  SameElements(Get(row, "characterMissionBonus", << >>),
                              [p \in Due(row.characterId) |-> ItemAt(E, k, p)])
      BY <2>4, <2>8 DEF SameElements
    <3> QED BY <2>4, <3>1, <3>2, <3>3
  <2> QED
    BY <2>9 DEF BonusesReachTheirCharacter, E, listed, PlacesOf, OwnerAt, ItemAt, ValueAt, ValuesOf
<1> QED
  BY <1>1, HandledInvariant, PTL

-----------------------------------------------------------------------------
(* Skills: the rows by id and level                                        *)

IsGroups(grouped, rows, m) ==
  grouped = [n \in 0 .. m |-> IF n = 0 THEN Empty ELSE InsertLevel(grouped[n - 1], rows[n])]

\* The groups are those of the whole prefix.
LEMMA GroupedFact ==
  ASSUME NEW rows, Len(rows) \in Nat
  PROVE  \E f : IsGroups(f, rows, Len(rows)) /\ Grouped(rows) = f[Len(rows)]
<1> DEFINE T == {m \in Nat : \E f : IsGroups(f, rows, m)}
<1>1. 0 \in T
  <2>1. IsGroups([n \in 0 .. 0 |-> Empty], rows, 0)
    BY DEF IsGroups
  <2> QED BY <2>1
<1>2. ASSUME NEW m \in Nat, m \in T PROVE m + 1 \in T
  <2>1. PICK f : IsGroups(f, rows, m)
    BY <1>2
  <2> DEFINE g == [n \in 0 .. m + 1 |-> IF n <= m THEN f[n] ELSE InsertLevel(f[m], rows[n])]
  <2>2. \A n \in 0 .. m : n # 0 => n - 1 \in 0 .. m
    OBVIOUS
  <2>3. IsGroups(g, rows, m + 1)
    BY <2>1, <2>2 DEF IsGroups
  <2> QED BY <2>3
<1>3. \A m \in Nat : m \in T
  BY <1>1, <1>2, Induction
<1> DEFINE grouped == CHOOSE f : IsGroups(f, rows, Len(rows))
<1>4. IsGroups(grouped, rows, Len(rows))
  BY <1>3
<1>5. Grouped(rows) = grouped[Len(rows)]
  BY DEF Grouped, IsGroups
<1> QED
  BY <1>4, <1>5

\* No rows, no groups.
LEMMA GroupedEmpty == Grouped(<< >>) = Empty
<1>1. Len(<< >>) = 0
  OBVIOUS
<1>2. PICK f : IsGroups(f, << >>, 0) /\ Grouped(<< >>) = f[0]
  BY <1>1, GroupedFact
<1> QED
  BY <1>2 DEF IsGroups

\* One more row is inserted into the groups of the others.
LEMMA GroupedAppend ==
  ASSUME NEW A, NEW s \in Seq(A), NEW x \in A
  PROVE  Grouped(Append(s, x)) = InsertLevel(Grouped(s), x)
<1> DEFINE m == Len(s)
           t == Append(s, x)
<1>1. m \in Nat /\ Len(t) = m + 1 /\ t[m + 1] = x /\ \A n \in 1 .. m : t[n] = s[n]
  BY LenProperties, AppendProperties
<1> HIDE DEF t, m
<1>2. PICK f : IsGroups(f, s, m) /\ Grouped(s) = f[m]
  BY <1>1, GroupedFact DEF m
<1>3. PICK g : IsGroups(g, t, m + 1) /\ Grouped(t) = g[m + 1]
  BY <1>1, GroupedFact
<1> DEFINE T == {n \in Nat : n <= m => g[n] = f[n]}
<1>4. 0 \in T
  BY <1>1, <1>2, <1>3 DEF IsGroups
<1>5. ASSUME NEW n \in Nat, n \in T PROVE n + 1 \in T
  <2> SUFFICES ASSUME n + 1 <= m PROVE g[n + 1] = f[n + 1]
    OBVIOUS
  <2>1. f[n + 1] = InsertLevel(f[n], s[n + 1])
    BY <1>1, <1>2 DEF IsGroups
  <2>2. g[n + 1] = InsertLevel(g[n], t[n + 1])
    BY <1>1, <1>3 DEF IsGroups
  <2>3. g[n] = f[n] /\ t[n + 1] = s[n + 1]
    BY <1>1, <1>5
  <2> QED BY <2>1, <2>2, <2>3
<1>6. \A n \in Nat : n \in T
  BY <1>4, <1>5, Induction
<1>7. g[m] = f[m]
  BY <1>1, <1>6
<1>8. g[m + 1] = InsertLevel(g[m], t[m + 1])
  BY <1>1, <1>3 DEF IsGroups
<1> QED
  BY <1>1, <1>2, <1>3, <1>7, <1>8 DEF t

IdOf(row)    == Get(row, "skillId", 0)
LevelOf(row) == Get(row, "skillLevel", 0)
IsRow(row)   == IdOf(row) \in Int /\ LevelOf(row) \in Int
ValidRow(row)   == IdOf(row) > 0 /\ LevelOf(row) > 0

\* The place of the last valid row of an id and a level.
IsLast(s, id, level, i) ==
  /\ i \in DOMAIN s /\ ValidRow(s[i]) /\ IdOf(s[i]) = id /\ LevelOf(s[i]) = level
  /\ \A j \in DOMAIN s : IdOf(s[j]) = id /\ LevelOf(s[j]) = level => j <= i

\* The groups of the rows: all valid ones, the last of each id and level.
AreGroups(grouped, s) ==
  /\ IsFiniteSet(DOMAIN grouped) /\ DOMAIN grouped \subseteq Int
  /\ \A id \in DOMAIN grouped :
       IsFiniteSet(DOMAIN grouped[id]) /\ DOMAIN grouped[id] \subseteq Int /\ DOMAIN grouped[id] # {}
  /\ \A id \in DOMAIN grouped : \A level \in DOMAIN grouped[id] :
       \E i \in DOMAIN s : IsLast(s, id, level, i) /\ grouped[id][level] = s[i]
  /\ \A i \in DOMAIN s : ValidRow(s[i]) =>
       IdOf(s[i]) \in DOMAIN grouped /\ LevelOf(s[i]) \in DOMAIN grouped[IdOf(s[i])]

\* One more row, behind all others.
LEMMA LastAppend ==
  ASSUME NEW A, NEW s \in Seq(A), NEW x \in A
  PROVE  LET t == Append(s, x)
         IN  /\ DOMAIN t = DOMAIN s \cup {Len(t)} /\ Len(t) \notin DOMAIN s /\ t[Len(t)] = x
             /\ \A i \in DOMAIN s : t[i] = s[i]
             /\ ValidRow(x) => IsLast(t, IdOf(x), LevelOf(x), Len(t))
             /\ \A id, level : \A i \in DOMAIN s :
                  IsLast(s, id, level, i) /\ (ValidRow(x) => <<id, level>> # <<IdOf(x), LevelOf(x)>>) =>
                    IsLast(t, id, level, i)
<1> DEFINE t == Append(s, x)
           n == Len(s)
<1>1. n \in Nat /\ Len(t) = n + 1 /\ t[n + 1] = x /\ (\A i \in 1 .. n : t[i] = s[i]) /\ t \in Seq(A)
  BY LenProperties, AppendProperties
<1>2. DOMAIN s = 1 .. n /\ DOMAIN t = 1 .. n + 1
  <2> HIDE DEF t
  <2> QED BY <1>1, LenProperties
<1> HIDE DEF t, n
<1>3. /\ DOMAIN t = DOMAIN s \cup {n + 1} /\ n + 1 \notin DOMAIN s
      /\ \A i \in DOMAIN t : i <= n + 1
  BY <1>1, <1>2
<1>4. ValidRow(x) => IsLast(t, IdOf(x), LevelOf(x), n + 1)
  BY <1>1, <1>2, <1>3 DEF IsLast
<1>5. ASSUME NEW id, NEW level, NEW i \in DOMAIN s, IsLast(s, id, level, i),
             ValidRow(x) => <<id, level>> # <<IdOf(x), LevelOf(x)>>
      PROVE  IsLast(t, id, level, i)
  <2>1. t[i] = s[i] /\ \A j \in DOMAIN s : t[j] = s[j]
    BY <1>1, <1>2
  <2>2. ~ (IdOf(x) = id /\ LevelOf(x) = level)
    BY <1>5 DEF IsLast, ValidRow
  <2>3. \A j \in DOMAIN t : IdOf(t[j]) = id /\ LevelOf(t[j]) = level => j <= i
    BY <1>1, <1>3, <1>5, <2>1, <2>2 DEF IsLast
  <2> QED BY <1>3, <1>5, <2>1, <2>3 DEF IsLast
<1> QED
  BY <1>1, <1>2, <1>3, <1>4, <1>5 DEF t

\* The groups of one row more.
LEMMA GroupsAppend ==
  ASSUME NEW A, NEW s \in Seq(A), NEW x \in A, IsRow(x), NEW G, AreGroups(G, s)
  PROVE  AreGroups(InsertLevel(G, x), Append(s, x))
<1> DEFINE t == Append(s, x)
           n == Len(t)
           id == IdOf(x)
           level == LevelOf(x)
           old == Get(G, id, Empty)
           new == Over(Member(level, x), old)
           G2 == InsertLevel(G, x)
<1>1. /\ DOMAIN t = DOMAIN s \cup {n} /\ n \notin DOMAIN s /\ t[n] = x
      /\ \A i \in DOMAIN s : t[i] = s[i]
      /\ ValidRow(x) => IsLast(t, id, level, n)
      /\ \A o, l : \A i \in DOMAIN s :
           IsLast(s, o, l, i) /\ (ValidRow(x) => <<o, l>> # <<id, level>>) => IsLast(t, o, l, i)
  BY LastAppend
<1> HIDE DEF t, n
<1>2. id \in Int /\ level \in Int
  BY DEF IsRow
<1>3. CASE ~ ValidRow(x)
  <2>1. G2 = G
    BY <1>2, <1>3 DEF InsertLevel, ValidRow, IdOf, LevelOf
  <2>2. ASSUME NEW o \in DOMAIN G, NEW l \in DOMAIN G[o]
        PROVE  \E i \in DOMAIN t : IsLast(t, o, l, i) /\ G[o][l] = t[i]
    <3>1. PICK i \in DOMAIN s : IsLast(s, o, l, i) /\ G[o][l] = s[i]
      BY DEF AreGroups
    <3> QED BY <1>1, <1>3, <3>1
  <2>3. \A i \in DOMAIN t : ValidRow(t[i]) =>
          IdOf(t[i]) \in DOMAIN G /\ LevelOf(t[i]) \in DOMAIN G[IdOf(t[i])]
    BY <1>1, <1>3 DEF AreGroups
  <2> HIDE DEF G2
  <2>4. AreGroups(G2, t)
    BY <2>1, <2>2, <2>3 DEF AreGroups
  <2> QED BY <2>4 DEF G2, t
<1>4. CASE ValidRow(x)
  <2>1. G2 = Over(Member(id, new), G)
    BY <1>2, <1>4 DEF InsertLevel, ValidRow, IdOf, LevelOf
  <2>2. /\ DOMAIN G2 = {id} \cup DOMAIN G /\ G2[id] = new
        /\ \A o \in DOMAIN G : o # id => G2[o] = G[o]
    <3> HIDE DEF new, id, G2
    <3> QED BY <2>1 DEF Over, Member
  <2>3. /\ DOMAIN new = {level} \cup DOMAIN old /\ new[level] = x
        /\ \A l \in DOMAIN old : l # level => new[l] = old[l]
    <3> HIDE DEF old, level
    <3> QED BY DEF Over, Member
  <2>4. /\ id \in DOMAIN G => old = G[id]
        /\ id \notin DOMAIN G => DOMAIN old = {}
    BY EmptyObject DEF Get
  <2>5. IsFiniteSet(DOMAIN old) /\ DOMAIN old \subseteq Int
    BY <2>4, FS_EmptySet DEF AreGroups
  <2> HIDE DEF G2, new, old, id, level
  <2>6. IsFiniteSet({id} \cup DOMAIN G) /\ IsFiniteSet({level} \cup DOMAIN old)
    <3>1. IsFiniteSet(DOMAIN G \cup {id})
      BY FS_AddElement DEF AreGroups
    <3>2. IsFiniteSet(DOMAIN old \cup {level})
      BY <2>5, FS_AddElement
    <3>3. DOMAIN G \cup {id} = {id} \cup DOMAIN G /\ DOMAIN old \cup {level} = {level} \cup DOMAIN old
      OBVIOUS
    <3> QED BY <3>1, <3>2, <3>3
  <2>7. IsFiniteSet(DOMAIN G2) /\ DOMAIN G2 \subseteq Int
    BY <1>2, <2>2, <2>6 DEF AreGroups
  <2>8. ASSUME NEW o \in DOMAIN G2
        PROVE  IsFiniteSet(DOMAIN G2[o]) /\ DOMAIN G2[o] \subseteq Int /\ DOMAIN G2[o] # {}
    <3>1. CASE o = id
      BY <1>2, <2>2, <2>3, <2>5, <2>6, <3>1
    <3>2. CASE o # id
      BY <2>2, <3>2 DEF AreGroups
    <3> QED BY <3>1, <3>2
  <2>9. ASSUME NEW o \in DOMAIN G2, NEW l \in DOMAIN G2[o]
        PROVE  \E i \in DOMAIN t : IsLast(t, o, l, i) /\ G2[o][l] = t[i]
    <3>1. CASE o = id /\ l = level
      <4>1. n \in DOMAIN t /\ IsLast(t, o, l, n) /\ G2[o][l] = t[n]
        BY <1>1, <1>4, <2>2, <2>3, <3>1
      <4> QED BY <4>1
    <3>2. CASE ~ (o = id /\ l = level)
      <4>1. o \in DOMAIN G /\ l \in DOMAIN G[o] /\ G2[o][l] = G[o][l]
        <5>1. CASE o = id
          BY <2>2, <2>3, <2>4, <3>2, <5>1
        <5>2. CASE o # id
          BY <2>2, <5>2
        <5> QED BY <5>1, <5>2
      <4>2. PICK i \in DOMAIN s : IsLast(s, o, l, i) /\ G[o][l] = s[i]
        BY <4>1 DEF AreGroups
      <4>3. <<o, l>> # <<id, level>>
        BY <3>2
      <4>4. IsLast(t, o, l, i) /\ t[i] = s[i] /\ i \in DOMAIN t
        BY <1>1, <4>2, <4>3
      <4> QED BY <4>1, <4>2, <4>4
    <3> QED BY <3>1, <3>2
  <2>10. ASSUME NEW i \in DOMAIN t, ValidRow(t[i])
         PROVE  IdOf(t[i]) \in DOMAIN G2 /\ LevelOf(t[i]) \in DOMAIN G2[IdOf(t[i])]
    <3>1. CASE i = n
      BY <1>1, <2>2, <2>3, <3>1 DEF id, level
    <3>2. CASE i # n
      <4> DEFINE o == IdOf(t[i])
                 l == LevelOf(t[i])
      <4>1. o \in DOMAIN G /\ l \in DOMAIN G[o]
        BY <1>1, <2>10, <3>2 DEF AreGroups
      <4> HIDE DEF o, l
      <4>2. o \in DOMAIN G2 /\ l \in DOMAIN G2[o]
        <5>1. CASE o = id
          BY <2>2, <2>3, <2>4, <4>1, <5>1
        <5>2. CASE o # id
          BY <2>2, <4>1, <5>2
        <5> QED BY <5>1, <5>2
      <4> QED BY <4>2 DEF o, l
    <3> QED BY <3>1, <3>2
  <2>11. AreGroups(G2, t)
    BY <2>7, <2>8, <2>9, <2>10 DEF AreGroups
  <2> QED BY <2>11 DEF G2, t
<1> QED
  BY <1>3, <1>4

\* What Grouped makes of rows.
LEMMA GroupsFact ==
  ASSUME NEW A, \A x \in A : IsRow(x), NEW rows \in Seq(A)
  PROVE  AreGroups(Grouped(rows), rows)
<1> DEFINE T == {s \in Seq(A) : AreGroups(Grouped(s), s)}
<1>1. << >> \in T
  <2>1. << >> \in Seq(A) /\ DOMAIN << >> = {} /\ Grouped(<< >>) = Empty
    BY GroupedEmpty
  <2> QED BY <2>1, EmptyObject, FS_EmptySet DEF AreGroups
<1>2. ASSUME NEW s \in Seq(A), NEW x \in A, s \in T PROVE Append(s, x) \in T
  <2>1. AreGroups(InsertLevel(Grouped(s), x), Append(s, x))
    BY <1>2, GroupsAppend
  <2>2. Append(s, x) \in Seq(A) /\ Grouped(Append(s, x)) = InsertLevel(Grouped(s), x)
    BY GroupedAppend
  <2> QED BY <2>1, <2>2
<1> HIDE DEF T
<1>3. \A s \in Seq(A) : s \in T
  BY <1>1, <1>2, SeqInduction
<1> QED
  BY <1>3 DEF T

\* A finite set of integers in ascending order: all of it, nothing twice.
LEMMA AscendingFact ==
  ASSUME NEW S, S \subseteq Int, IsFiniteSet(S)
  PROVE  /\ DOMAIN Ascending(S) = 1 .. Cardinality(S) /\ Cardinality(S) \in Nat
         /\ Range(Ascending(S)) = S
         /\ \A i, j \in DOMAIN Ascending(S) : i < j => Ascending(S)[i] < Ascending(S)[j]
<1> DEFINE Below(x) == {y \in S : y < x}
           n == Cardinality(S)
           order == Ascending(S)
           rank == [x \in S |-> Cardinality(Below(x)) + 1]
<1>1. n \in Nat
  BY FS_CardinalityType
<1>2. ASSUME NEW x \in S
      PROVE  IsFiniteSet(Below(x)) /\ Cardinality(Below(x)) \in Nat /\ Cardinality(Below(x)) + 1 \in 1 .. n
  <2>1. Below(x) \in SUBSET S
    OBVIOUS
  <2>2. x \notin Below(x)
    OBVIOUS
  <2> HIDE DEF Below
  <2>3. IsFiniteSet(Below(x)) /\ Cardinality(Below(x)) <= n
    BY <2>1, FS_Subset
  <2>4. Cardinality(Below(x)) \in Nat
    BY <2>3, FS_CardinalityType
  <2>5. Cardinality(Below(x)) # n
    BY <2>1, <2>2, FS_Subset
  <2> QED BY <1>1, <2>3, <2>4, <2>5
<1>3. ASSUME NEW x \in S, NEW y \in S, x < y
      PROVE  Cardinality(Below(x)) < Cardinality(Below(y))
  <2> DEFINE more == Below(x) \cup {x}
  <2>1. more \in SUBSET Below(y) /\ x \notin Below(x)
    <3>1. x \in Int /\ y \in Int /\ \A z \in S : z \in Int
      OBVIOUS
    <3>2. \A z \in S : z < x => z < y
      BY <1>3, <3>1
    <3>3. ~ (x < x)
      BY <3>1
    <3> QED BY <1>3, <3>2, <3>3
  <2> HIDE DEF Below
  <2>2. Cardinality(more) = Cardinality(Below(x)) + 1
    BY <1>2, <2>1, FS_AddElement
  <2>3. Cardinality(more) <= Cardinality(Below(y))
    <3> HIDE DEF more
    <3> QED BY <1>2, <2>1, FS_Subset
  <2> QED BY <1>2, <2>2, <2>3
<1>4. \A x, y \in S : rank[x] <= rank[y] => x <= y
  <2> SUFFICES ASSUME NEW x \in S, NEW y \in S, rank[x] <= rank[y], ~ (x <= y) PROVE FALSE
    OBVIOUS
  <2>1. y < x
    OBVIOUS
  <2>2. Cardinality(Below(y)) < Cardinality(Below(x))
    BY <1>3, <2>1
  <2>3. rank[x] = Cardinality(Below(x)) + 1 /\ rank[y] = Cardinality(Below(y)) + 1
    OBVIOUS
  <2> HIDE DEF rank, Below
  <2> QED BY <1>2, <2>2, <2>3
<1>5. rank \in [S -> 1 .. n] /\ \A x \in S : rank[x] = Cardinality(Below(x)) + 1
  BY <1>2
<1>6. order = [i \in 1 .. n |-> CHOOSE x \in S : Cardinality(Below(x)) = i - 1]
  BY DEF Ascending
<1> HIDE DEF Below, rank, n, order
<1>7. \A x, y \in S : rank[x] = rank[y] => x = y
  <2> SUFFICES ASSUME NEW x \in S, NEW y \in S, rank[x] = rank[y] PROVE x = y
    OBVIOUS
  <2>1. rank[x] \in Int /\ rank[y] \in Int
    BY <1>1, <1>5
  <2>2. x <= y /\ y <= x
    BY <1>4, <2>1
  <2> QED BY <2>2
<1>8. rank \in Injection(S, 1 .. n)
  <2>1. DOMAIN rank = S
    BY <1>5
  <2>2. IsInjective(rank)
    BY <1>7, <2>1 DEF IsInjective
  <2> QED BY <1>5, <2>2 DEF Injection
<1>9. rank \in Surjection(S, 1 .. n)
  <2>1. IsFiniteSet(1 .. n) /\ Cardinality(1 .. n) = n
    BY <1>1, FS_Interval
  <2> QED BY <1>8, <2>1, FS_Injection DEF n
<1>10. ASSUME NEW i \in 1 .. n PROVE order[i] \in S /\ rank[order[i]] = i
  <2>1. PICK x \in S : rank[x] = i
    BY <1>9 DEF Surjection
  <2>2. Cardinality(Below(x)) = i - 1
    BY <1>2, <1>5, <2>1
  <2>3. order[i] = CHOOSE y \in S : Cardinality(Below(y)) = i - 1
    BY <1>6
  <2>4. order[i] \in S /\ Cardinality(Below(order[i])) = i - 1
    BY <2>2, <2>3
  <2>5. rank[order[i]] = Cardinality(Below(order[i])) + 1
    BY <1>5, <2>4
  <2>6. (i - 1) + 1 = i
    BY <1>1
  <2> QED BY <2>4, <2>5, <2>6
<1>11. DOMAIN order = 1 .. n
  BY <1>6
<1>12. Range(order) = S
  <2>1. \A x \in S : rank[x] \in 1 .. n /\ order[rank[x]] = x
    BY <1>5, <1>7, <1>10
  <2> QED BY <1>10, <1>11, <2>1 DEF Range
<1>13. ASSUME NEW i \in 1 .. n, NEW j \in 1 .. n, i < j PROVE order[i] < order[j]
  <2>1. ~ (rank[order[j]] <= rank[order[i]]) /\ rank[order[i]] <= rank[order[j]]
    BY <1>10, <1>13
  <2>2. order[i] <= order[j]
    BY <1>4, <1>10, <2>1
  <2>3. order[i] # order[j]
    BY <1>10, <1>13
  <2>4. order[i] \in Int /\ order[j] \in Int
    BY <1>10
  <2> QED BY <2>2, <2>3, <2>4
<1> QED
  BY <1>1, <1>11, <1>12, <1>13 DEF order, n

\* The greatest of a set is where no other is greater.
LEMMA MaxFact ==
  ASSUME NEW S, S \subseteq Int, NEW m \in S, \A x \in S : x <= m
  PROVE  Max(S) = m
<1>1. Max(S) \in S /\ \A y \in S : Max(S) >= y
  <2>1. \A y \in S : m >= y
    OBVIOUS
  <2> QED BY <2>1 DEF Max
<1>2. Max(S) \in Int /\ m \in Int /\ Max(S) <= m /\ Max(S) >= m
  BY <1>1
<1> QED
  BY <1>2

PairOf(rows, i)  == <<Get(rows[i], "skillId", 0), Get(rows[i], "skillLevel", 0)>>
ValidOf(rows)    == {i \in DOMAIN rows : PairOf(rows, i)[1] > 0 /\ PairOf(rows, i)[2] > 0}
LastRow(rows, id, level) == rows[Max({i \in ValidOf(rows) : PairOf(rows, i) = <<id, level>>})]
Text(rows, s, l, name)   == Get(LastRow(rows, s.skillId, l.skillLevel), name, << >>)

\* The last row of an id and a level is the one in the groups.
LEMMA LastRowFact ==
  ASSUME NEW rows, DOMAIN rows \subseteq Int, NEW G, AreGroups(G, rows),
         NEW id \in DOMAIN G, NEW level \in DOMAIN G[id]
  PROVE  LastRow(rows, id, level) = G[id][level]
<1> DEFINE S == {i \in ValidOf(rows) : PairOf(rows, i) = <<id, level>>}
<1>1. PICK i \in DOMAIN rows : IsLast(rows, id, level, i) /\ G[id][level] = rows[i]
  BY DEF AreGroups
<1>2. i \in S /\ \A j \in S : j <= i
  BY <1>1 DEF IsLast, ValidRow, IdOf, LevelOf, ValidOf, PairOf
<1>3. S \subseteq Int
  BY DEF ValidOf
<1> HIDE DEF S
<1>4. Max(S) = i
  BY <1>2, <1>3, MaxFact
<1> QED
  BY <1>1, <1>4 DEF LastRow, S

TextAt(levels, i, name) == Get(levels[Ascending(DOMAIN levels)[i]], name, << >>)

Highest(levels, name) ==
  LET order == Ascending(DOMAIN levels)
      told  == {i \in DOMAIN order : Get(levels[order[i]], name, << >>) # << >>}
  IN  IF told = {} THEN << >> ELSE levels[order[Max(told)]][name]

\* The text of a skill is that of the highest level with one.
LEMMA HighestFact ==
  ASSUME NEW levels, NEW name, NEW n \in Nat, DOMAIN Ascending(DOMAIN levels) = 1 .. n
  PROVE  /\ \A i \in 1 .. n :
              (\A j \in i + 1 .. n : TextAt(levels, j, name) = << >>) =>
                TextAt(levels, i, name) \in {<< >>, Highest(levels, name)}
         /\ (\A i \in 1 .. n : TextAt(levels, i, name) = << >>) => Highest(levels, name) = << >>
<1> DEFINE order == Ascending(DOMAIN levels)
           told == {i \in 1 .. n : TextAt(levels, i, name) # << >>}
<1>1. Highest(levels, name) = IF told = {} THEN << >> ELSE levels[order[Max(told)]][name]
  BY DEF Highest, TextAt
<1>2. ASSUME NEW i \in 1 .. n, \A j \in i + 1 .. n : TextAt(levels, j, name) = << >>,
             TextAt(levels, i, name) # << >>
      PROVE  TextAt(levels, i, name) = Highest(levels, name)
  <2>1. i \in told /\ told \subseteq Int
    BY <1>2
  <2>2. ASSUME NEW j \in told PROVE j <= i
    <3>1. j \in 1 .. n /\ ~ (j \in i + 1 .. n)
      BY <1>2
    <3> QED BY <3>1
  <2>3. Max(told) = i
    <3> HIDE DEF told
    <3> QED BY <2>1, <2>2, MaxFact
  <2>4. Highest(levels, name) = levels[order[i]][name]
    BY <1>1, <2>1, <2>3
  <2>5. TextAt(levels, i, name) = levels[order[i]][name]
    BY <1>2 DEF TextAt, Get
  <2> QED BY <2>4, <2>5
<1>3. ASSUME \A i \in 1 .. n : TextAt(levels, i, name) = << >>
      PROVE  Highest(levels, name) = << >>
  <2>1. told = {}
    BY <1>3
  <2> QED BY <1>1, <2>1
<1> QED
  BY <1>2, <1>3

\* The texts of a skill against those of its rows.
TextFollows(rows, s, name, text) ==
  /\ \A i \in DOMAIN s.levels :
       (\A j \in i + 1 .. Len(s.levels) : Text(rows, s, s.levels[j], name) = << >>) =>
         Text(rows, s, s.levels[i], name) \in {<< >>, text}
  /\ (\A l \in Range(s.levels) : Text(rows, s, l, name) = << >>) => text = << >>

\* One skill follows its rows.
LEMMA SkillFact ==
  ASSUME NEW rows, DOMAIN rows \subseteq Int, NEW G, AreGroups(G, rows), NEW id \in DOMAIN G
  PROVE  LET s == SkillInfo(id, G[id])
         IN  /\ s.skillId = id
             /\ {l.skillLevel : l \in Range(s.levels)} = DOMAIN G[id]
             /\ \A i, j \in DOMAIN s.levels : i < j => s.levels[i].skillLevel < s.levels[j].skillLevel
             /\ \A l \in Range(s.levels) :
                  /\ l.duration = Get(LastRow(rows, s.skillId, l.skillLevel), "effectValue", Null)
                  /\ l.description = Text(rows, s, l, "description")
             /\ TextFollows(rows, s, "skillName", s.simpleDescription)
             /\ TextFollows(rows, s, "skillType", s.skillType)
<1> DEFINE levels == G[id]
           order == Ascending(DOMAIN levels)
           n == Cardinality(DOMAIN levels)
           s == SkillInfo(id, levels)
           list == s.levels
<1>1. /\ DOMAIN order = 1 .. n /\ n \in Nat /\ Range(order) = DOMAIN levels
      /\ \A i, j \in DOMAIN order : i < j => order[i] < order[j]
  <2> DEFINE S == DOMAIN levels
  <2>1. S \subseteq Int /\ IsFiniteSet(S)
    BY DEF AreGroups
  <2> HIDE DEF S
  <2>2. /\ DOMAIN Ascending(S) = 1 .. Cardinality(S) /\ Cardinality(S) \in Nat
        /\ Range(Ascending(S)) = S
        /\ \A i, j \in DOMAIN Ascending(S) : i < j => Ascending(S)[i] < Ascending(S)[j]
    BY <2>1, AscendingFact
  <2> QED BY <2>2 DEF S
<1>2. /\ s.skillId = id
      /\ s.simpleDescription = Highest(levels, "skillName")
      /\ s.skillType = Highest(levels, "skillType")
      /\ list = [i \in DOMAIN order |->
                   [skillLevel  |-> order[i],
                    duration    |-> Get(levels[order[i]], "effectValue", Null),
                    description |-> Get(levels[order[i]], "description", << >>)]]
  BY DEF SkillInfo, Highest
<1>3. \A i \in 1 .. n : order[i] \in DOMAIN levels
  BY <1>1 DEF Range
<1> HIDE DEF s, list, order, n
<1>4. /\ DOMAIN list = 1 .. n
      /\ \A i \in 1 .. n :
           /\ list[i].skillLevel = order[i]
           /\ list[i].duration = Get(levels[order[i]], "effectValue", Null)
           /\ list[i].description = Get(levels[order[i]], "description", << >>)
  BY <1>1, <1>2
<1>5. Len(list) = n
  <2>1. list \in [1 .. n -> Range(list)]
    BY <1>1, <1>2 DEF Range
  <2> QED BY <1>1, <2>1, AsSeq
<1>6. ASSUME NEW i \in 1 .. n PROVE LastRow(rows, s.skillId, list[i].skillLevel) = levels[order[i]]
  BY <1>2, <1>3, <1>4, LastRowFact
<1>7. {l.skillLevel : l \in Range(list)} = DOMAIN levels
  <2>1. \A x \in DOMAIN levels : \E i \in 1 .. n : order[i] = x
    BY <1>1 DEF Range
  <2> HIDE DEF levels
  <2>2. \A i \in 1 .. n : list[i] \in Range(list)
    BY <1>4 DEF Range
  <2>3. \A l \in Range(list) : l.skillLevel \in DOMAIN levels
    BY <1>3, <1>4 DEF Range
  <2>4. \A x \in DOMAIN levels : \E l \in Range(list) : l.skillLevel = x
    BY <1>4, <2>1, <2>2
  <2> QED BY <2>3, <2>4
<1>8. \A i, j \in DOMAIN list : i < j => list[i].skillLevel < list[j].skillLevel
  BY <1>1, <1>4
<1>9. ASSUME NEW l \in Range(list)
      PROVE  /\ l.duration = Get(LastRow(rows, s.skillId, l.skillLevel), "effectValue", Null)
             /\ l.description = Text(rows, s, l, "description")
  <2>1. PICK i \in 1 .. n : l = list[i]
    BY <1>4 DEF Range
  <2> QED BY <1>4, <1>6, <2>1 DEF Text
<1>10. ASSUME NEW name PROVE TextFollows(rows, s, name, Highest(levels, name))
  <2>1. \A i \in 1 .. n : Text(rows, s, list[i], name) = TextAt(levels, i, name)
    BY <1>6 DEF Text, TextAt, order
  <2>2. /\ \A i \in 1 .. n :
             (\A j \in i + 1 .. n : TextAt(levels, j, name) = << >>) =>
               TextAt(levels, i, name) \in {<< >>, Highest(levels, name)}
        /\ (\A i \in 1 .. n : TextAt(levels, i, name) = << >>) => Highest(levels, name) = << >>
    BY <1>1, HighestFact DEF order
  <2>3. \A i \in 1 .. n : \A j \in i + 1 .. n : j \in 1 .. n
    BY <1>1
  <2> HIDE DEF levels
  <2>4. \A i \in 1 .. n :
          (\A j \in i + 1 .. n : Text(rows, s, list[j], name) = << >>) =>
            Text(rows, s, list[i], name) \in {<< >>, Highest(levels, name)}
    BY <2>1, <2>2, <2>3
  <2>5. (\A l \in Range(list) : Text(rows, s, l, name) = << >>) => Highest(levels, name) = << >>
    BY <1>4, <2>1, <2>2 DEF Range
  <2> QED BY <1>4, <1>5, <2>4, <2>5 DEF TextFollows, list
<1>11. TextFollows(rows, s, "skillName", s.simpleDescription) /\ TextFollows(rows, s, "skillType", s.skillType)
  BY <1>2, <1>10
<1> QED
  BY <1>2, <1>7, <1>8, <1>9, <1>11 DEF list, s

\* All skills follow their rows.
LEMMA SkillsFact ==
  ASSUME NEW m, IsArray(Entries(m)), \A x \in Range(Entries(m)) : IsRow(x)
  PROVE  LET rows   == Entries(m)
             skills == skill_list(m)
         IN  /\ \A i, j \in DOMAIN skills : i < j => skills[i].skillId < skills[j].skillId
             /\ UNION {{<<s.skillId, l.skillLevel>> : l \in Range(s.levels)} : s \in Range(skills)}
                  = {PairOf(rows, i) : i \in ValidOf(rows)}
             /\ \A s \in Range(skills) :
                  /\ \A i, j \in DOMAIN s.levels :
                       i < j => s.levels[i].skillLevel < s.levels[j].skillLevel
                  /\ \A l \in Range(s.levels) :
                       /\ l.duration = Get(LastRow(rows, s.skillId, l.skillLevel), "effectValue", Null)
                       /\ l.description = Text(rows, s, l, "description")
                  /\ TextFollows(rows, s, "skillName", s.simpleDescription)
                  /\ TextFollows(rows, s, "skillType", s.skillType)
<1> DEFINE rows == Entries(m)
           G == Grouped(rows)
           order == Ascending(DOMAIN G)
           skills == skill_list(m)
<1>1. rows \in Seq(Range(rows)) /\ DOMAIN rows \subseteq Int
  BY ArrayFact
<1>2. AreGroups(G, rows)
  <2> HIDE DEF rows
  <2>1. \A x \in Range(rows) : IsRow(x)
    BY DEF rows
  <2> QED BY <1>1, <2>1, GroupsFact
<1>3. skills = [i \in DOMAIN order |-> SkillInfo(order[i], G[order[i]])]
  BY DEF skill_list
<1> HIDE DEF rows, G, skills
<1>4. /\ DOMAIN order = 1 .. Cardinality(DOMAIN G) /\ Range(order) = DOMAIN G
      /\ \A i, j \in DOMAIN order : i < j => order[i] < order[j]
  <2> DEFINE S == DOMAIN G
  <2>1. S \subseteq Int /\ IsFiniteSet(S)
    BY <1>2 DEF AreGroups
  <2> HIDE DEF S
  <2>2. /\ DOMAIN Ascending(S) = 1 .. Cardinality(S) /\ Range(Ascending(S)) = S
        /\ \A i, j \in DOMAIN Ascending(S) : i < j => Ascending(S)[i] < Ascending(S)[j]
    BY <2>1, AscendingFact
  <2> QED BY <2>2 DEF S
<1> HIDE DEF order
<1>5. Range(skills) = {SkillInfo(id, G[id]) : id \in DOMAIN G}
  BY <1>3, <1>4 DEF Range
<1>6. ASSUME NEW id \in DOMAIN G
      PROVE  LET s == SkillInfo(id, G[id])
             IN  /\ s.skillId = id
                 /\ {l.skillLevel : l \in Range(s.levels)} = DOMAIN G[id]
                 /\ \A i, j \in DOMAIN s.levels :
                      i < j => s.levels[i].skillLevel < s.levels[j].skillLevel
                 /\ \A l \in Range(s.levels) :
                      /\ l.duration = Get(LastRow(rows, s.skillId, l.skillLevel), "effectValue", Null)
                      /\ l.description = Text(rows, s, l, "description")
                 /\ TextFollows(rows, s, "skillName", s.simpleDescription)
                 /\ TextFollows(rows, s, "skillType", s.skillType)
  BY <1>1, <1>2, SkillFact
<1>7. \A i, j \in DOMAIN skills : i < j => skills[i].skillId < skills[j].skillId
  <2>1. DOMAIN skills = DOMAIN order
    BY <1>3
  <2>2. ASSUME NEW i \in DOMAIN order PROVE skills[i].skillId = order[i]
    <3>1. order[i] \in DOMAIN G
      BY <1>4 DEF Range
    <3>2. SkillInfo(order[i], G[order[i]]).skillId = order[i]
      BY <1>6, <3>1
    <3>3. skills[i] = SkillInfo(order[i], G[order[i]])
      BY <1>3
    <3> QED BY <3>2, <3>3
  <2> QED BY <1>4, <2>1, <2>2
<1>8. UNION {{<<s.skillId, l.skillLevel>> : l \in Range(s.levels)} : s \in Range(skills)}
        = {PairOf(rows, i) : i \in ValidOf(rows)}
  <2>1. ASSUME NEW s \in Range(skills), NEW l \in Range(s.levels)
        PROVE  <<s.skillId, l.skillLevel>> \in {PairOf(rows, i) : i \in ValidOf(rows)}
    <3>1. PICK id \in DOMAIN G : s = SkillInfo(id, G[id])
      BY <1>5
    <3>2. s.skillId = id /\ l.skillLevel \in DOMAIN G[id]
      BY <1>6, <2>1, <3>1
    <3>3. PICK i \in DOMAIN rows : IsLast(rows, id, l.skillLevel, i)
      BY <1>2, <3>2 DEF AreGroups
    <3>4. i \in ValidOf(rows) /\ PairOf(rows, i) = <<s.skillId, l.skillLevel>>
      BY <3>2, <3>3 DEF IsLast, ValidRow, ValidOf, PairOf, IdOf, LevelOf
    <3> QED BY <3>4
  <2>2. ASSUME NEW i \in ValidOf(rows)
        PROVE  \E s \in Range(skills) : \E l \in Range(s.levels) : PairOf(rows, i) = <<s.skillId, l.skillLevel>>
    <3> DEFINE id == IdOf(rows[i])
               level == LevelOf(rows[i])
               s == SkillInfo(id, G[id])
    <3>1. id \in DOMAIN G /\ level \in DOMAIN G[id]
      BY <1>2, <2>2 DEF AreGroups, ValidOf, PairOf, ValidRow, IdOf, LevelOf
    <3>2. PairOf(rows, i) = <<id, level>>
      BY DEF PairOf, IdOf, LevelOf
    <3> HIDE DEF id, level
    <3>3. s \in Range(skills) /\ s.skillId = id /\ {l.skillLevel : l \in Range(s.levels)} = DOMAIN G[id]
      BY <1>5, <1>6, <3>1
    <3> HIDE DEF s
    <3>4. PICK l \in Range(s.levels) : l.skillLevel = level
      BY <3>1, <3>3
    <3> QED BY <3>2, <3>3, <3>4
  <2> QED BY <2>1, <2>2
<1>9. ASSUME NEW s \in Range(skills)
      PROVE  /\ \A i, j \in DOMAIN s.levels : i < j => s.levels[i].skillLevel < s.levels[j].skillLevel
             /\ \A l \in Range(s.levels) :
                  /\ l.duration = Get(LastRow(rows, s.skillId, l.skillLevel), "effectValue", Null)
                  /\ l.description = Text(rows, s, l, "description")
             /\ TextFollows(rows, s, "skillName", s.simpleDescription)
             /\ TextFollows(rows, s, "skillType", s.skillType)
  <2>1. PICK id \in DOMAIN G : s = SkillInfo(id, G[id])
    BY <1>5
  <2> QED BY <1>6, <2>1
<1> QED
  BY <1>7, <1>8, <1>9 DEF rows, skills

\* Whatever the list holds, the skills are its valid rows, in order.
THEOREM SkillsAreTheirRows == Spec => []SkillsFollowRows
<1>1. Handled => SkillsFollowRows
  <2> SUFFICES ASSUME Handled, Answered, reply.kind = "skills" PROVE SkillsFollowRows
    BY DEF SkillsFollowRows
  <2>1. SchemaOf["skills"] = ListOf(SKILL_SCHEMA)
    BY DEF SchemaOf, Over, EVENT_TYPE_SCHEMAS
  <2>2. ListOf(SKILL_SCHEMA) \in Descriptors /\ Message(root, ListOf(SKILL_SCHEMA))
    BY <2>1, AnsweredMessage
  <2>3. /\ SKILL_SCHEMA \in Descriptors /\ IsArray(Entries(root))
        /\ \A k \in DOMAIN Entries(root) : Message(Entries(root)[k], SKILL_SCHEMA)
    BY <2>2, ListEntries
  <2>4. ASSUME NEW x, Message(x, SKILL_SCHEMA) PROVE IsRow(x)
    <3>1. /\ 1 \in DOMAIN SKILL_SCHEMA /\ 2 \in DOMAIN SKILL_SCHEMA
          /\ SKILL_SCHEMA[1] = Num(1, "skillId") /\ SKILL_SCHEMA[2] = Num(2, "skillLevel")
      BY DEF SKILL_SCHEMA
    <3>2. \A number, name : /\ Num(number, name).name = name /\ ~ Num(number, name).repeated
                            /\ Num(number, name).type.kind = "int"
      BY DEF Num, Field
    <3>3. ASSUME NEW i \in DOMAIN SKILL_SCHEMA, NEW number, NEW name, SKILL_SCHEMA[i] = Num(number, name)
          PROVE  Get(x, name, 0) \in Int
      <4>1. CASE name \in DOMAIN x
        <5>1. OfField(x[name], SKILL_SCHEMA[i])
          BY <2>3, <2>4, <3>2, <3>3, <4>1, MessageField
        <5>2. x[name] \in Int
          BY <3>2, <3>3, <5>1 DEF OfField, OfType
        <5> QED BY <4>1, <5>2 DEF Get
      <4>2. CASE name \notin DOMAIN x
        BY <4>2 DEF Get
      <4> QED BY <4>1, <4>2
    <3> QED BY <3>1, <3>3 DEF IsRow, IdOf, LevelOf
  <2>5. \A x \in Range(Entries(root)) : IsRow(x)
    BY <2>3, <2>4 DEF Range
  <2> DEFINE rows == Entries(root)
             skills == skill_list(root)
  <2>6. \A i, j \in DOMAIN skills : i < j => skills[i].skillId < skills[j].skillId
    BY <2>3, <2>5, SkillsFact
  <2>7. UNION {{<<s.skillId, l.skillLevel>> : l \in Range(s.levels)} : s \in Range(skills)}
          = {PairOf(rows, i) : i \in ValidOf(rows)}
    BY <2>3, <2>5, SkillsFact
  <2>8. \A s \in Range(skills) :
          /\ \A i, j \in DOMAIN s.levels : i < j => s.levels[i].skillLevel < s.levels[j].skillLevel
          /\ \A l \in Range(s.levels) :
               /\ l.duration = Get(LastRow(rows, s.skillId, l.skillLevel), "effectValue", Null)
               /\ l.description = Text(rows, s, l, "description")
          /\ TextFollows(rows, s, "skillName", s.simpleDescription)
          /\ TextFollows(rows, s, "skillType", s.skillType)
    BY <2>3, <2>5, SkillsFact
  <2> HIDE DEF skills, rows
  <2> QED
    BY <2>6, <2>7, <2>8 DEF SkillsFollowRows, TextFollows, Text, LastRow, ValidOf, PairOf, skills, rows
<1> QED
  BY <1>1, HandledInvariant, PTL

-----------------------------------------------------------------------------
(* Writing: what the game's writer makes of numbers                        *)

\* The first byte carries the lowest bits.
LEMMA CarriedPrefix ==
  ASSUME NEW b \in Byte, NEW s \in Seq(Byte)
  PROVE  Carried(<<b>> \o s) = (b % Continue) + Continue * Carried(s)
<1> DEFINE t == <<b>> \o s
           low == HighOf(s)
           high == HighOf(t)
           T == {n \in Nat : n <= Len(s) => high[n] = low[n]}
<1>1. t \in Seq(Byte) /\ Len(t) = Len(s) + 1 /\ Len(s) \in Nat
  OBVIOUS
<1>2. t[1] = b /\ \A i \in 1 .. Len(s) : t[i + 1] = s[i]
  OBVIOUS
<1> HIDE DEF t
<1>3. /\ low[0] = 0
      /\ \A n \in 1 .. Len(s) : low[n] = (s[Len(s) - n + 1] % Continue) + Continue * low[n - 1]
      /\ Carried(s) = low[Len(s)]
  BY HighFact
<1>4. /\ high[0] = 0
      /\ \A n \in 1 .. Len(t) : high[n] = (t[Len(t) - n + 1] % Continue) + Continue * high[n - 1]
      /\ Carried(t) = high[Len(t)]
  BY <1>1, HighFact
<1> HIDE DEF low, high
<1>5. 0 \in T
  BY <1>3, <1>4
<1>6. ASSUME NEW n \in Nat, n \in T PROVE n + 1 \in T
  <2> SUFFICES ASSUME n + 1 <= Len(s) PROVE high[n + 1] = low[n + 1]
    OBVIOUS
  <2>1. t[Len(t) - (n + 1) + 1] = s[Len(s) - (n + 1) + 1]
    <3>1. Len(s) - n \in 1 .. Len(s)
      BY <1>1
    <3>2. t[(Len(s) - n) + 1] = s[Len(s) - n]
      BY <1>2, <3>1
    <3>3. Len(t) - (n + 1) + 1 = (Len(s) - n) + 1 /\ Len(s) - (n + 1) + 1 = Len(s) - n
      BY <1>1
    <3> QED BY <3>2, <3>3
  <2>2. n + 1 \in 1 .. Len(s) /\ n + 1 \in 1 .. Len(t) /\ (n + 1) - 1 = n
    BY <1>1
  <2>3. low[n + 1] = (s[Len(s) - (n + 1) + 1] % Continue) + Continue * low[n]
    BY <1>3, <2>2
  <2>4. high[n + 1] = (t[Len(t) - (n + 1) + 1] % Continue) + Continue * high[n]
    BY <1>4, <2>2
  <2>5. high[n] = low[n]
    BY <1>6
  <2> QED BY <2>1, <2>3, <2>4, <2>5
<1>7. \A n \in Nat : n \in T
  BY <1>5, <1>6, Induction
<1>8. high[Len(s)] = low[Len(s)]
  BY <1>1, <1>7
<1>9. high[Len(t)] = (t[1] % Continue) + Continue * high[Len(s)]
  <2>1. Len(t) \in 1 .. Len(t) /\ Len(t) - Len(t) + 1 = 1 /\ Len(t) - 1 = Len(s)
    BY <1>1
  <2> QED BY <1>4, <2>1
<1> QED
  BY <1>2, <1>3, <1>4, <1>8, <1>9 DEF t

\* What the writer makes of a number: bytes that go on but for the last, that
\* carry the number, and that are too many exactly if it is too large.
IsVarint(s, v) ==
  /\ s \in Seq(Byte) /\ Len(s) >= 1
  /\ \A i \in 1 .. Len(s) - 1 : s[i] >= Continue
  /\ s[Len(s)] < Continue
  /\ Carried(s) = v
  /\ \A g \in 0 .. Groups : v < Full[g] <=> (Len(s) <= g \/ (Len(s) = g + 1 /\ s[Len(s)] <= 1))

\* A byte that ends a varint.
LEMMA ShortVarint ==
  ASSUME NEW v \in 0 .. Continue - 1
  PROVE  IsVarint(<<v>>, v)
<1> USE WireAssumption
<1>1. Continue \in Nat /\ Continue >= 8 /\ Groups \in Nat /\ v \in Byte
  BY DEF Byte
<1> DEFINE s == <<v>>
<1>2. s \in Seq(Byte) /\ Len(s) = 1 /\ s[1] = v
  BY <1>1
<1> HIDE DEF s
<1>3. Carried(s) = v
  <2>1. <<v>> \o << >> = <<v>> /\ << >> \in Seq(Byte)
    OBVIOUS
  <2>2. Carried(<< >>) = 0
    <3>1. Carried(<< >>) = HighOf(<< >>)[Len(<< >>)] /\ HighOf(<< >>)[0] = 0
      BY HighFact, <2>1
    <3>2. Len(<< >>) = 0
      OBVIOUS
    <3> QED BY <3>1, <3>2
  <2>3. Carried(<<v>> \o << >>) = (v % Continue) + Continue * 0
    BY <1>1, <2>1, <2>2, CarriedPrefix
  <2>4. v % Continue = v
    BY <1>1
  <2> QED BY <1>1, <2>1, <2>3, <2>4 DEF s
<1>4. ASSUME NEW g \in 0 .. Groups
      PROVE  v < Full[g] <=> (1 <= g \/ (1 = g + 1 /\ v <= 1))
  <2>1. CASE g = 0
    <3>1. Full[0] = 2
      BY FullFact
    <3> QED BY <2>1, <3>1
  <2>2. CASE g # 0
    <3>1. g \in 1 .. Groups /\ g - 1 \in 0 .. Groups
      BY <1>1, <2>2
    <3>2. Full[g - 1] \in Nat /\ Full[g - 1] >= 2
      BY <3>1, FullFact
    <3>3. Full[g] = Continue * Full[g - 1]
      BY <3>1, FullFact
    <3>4. v < Full[g]
      <4>1. PICK f \in Nat : f = Full[g - 1] /\ f >= 2
        BY <3>2
      <4>2. Continue * f >= Continue
        BY <1>1, <4>1
      <4> QED BY <1>1, <3>3, <4>1, <4>2
    <3> QED BY <2>2, <3>4
  <2> QED BY <2>1, <2>2
<1>5. \A i \in 1 .. 0 : s[i] >= Continue
  OBVIOUS
<1> QED
  BY <1>1, <1>2, <1>3, <1>4, <1>5 DEF IsVarint, s

\* A byte that goes on before a varint.
LEMMA LongVarint ==
  ASSUME NEW v \in Nat, v >= Continue, NEW s, IsVarint(s, v \div Continue)
  PROVE  IsVarint(<<Continue + (v % Continue)>> \o s, v)
<1> USE WireAssumption
<1> DEFINE b == Continue + (v % Continue)
           t == <<b>> \o s
           rest == v \div Continue
<1>1. Continue \in Nat /\ Continue >= 8 /\ Groups \in Nat
  OBVIOUS
<1>2. v % Continue \in 0 .. Continue - 1
  BY <1>1
<1>3. b \in Byte /\ b >= Continue
  BY <1>1, <1>2 DEF Byte
<1>4. b % Continue = v % Continue
  BY <1>1, <1>2
<1>5. rest \in Nat /\ v = Continue * rest + (v % Continue)
  BY <1>1
<1>6. /\ s \in Seq(Byte) /\ Len(s) >= 1 /\ Len(s) \in Nat
      /\ \A i \in 1 .. Len(s) - 1 : s[i] >= Continue
      /\ s[Len(s)] < Continue
      /\ Carried(s) = rest
      /\ \A g \in 0 .. Groups : rest < Full[g] <=> (Len(s) <= g \/ (Len(s) = g + 1 /\ s[Len(s)] <= 1))
  BY DEF IsVarint
<1> HIDE DEF b, rest
<1>7. t \in Seq(Byte) /\ Len(t) = Len(s) + 1 /\ t[1] = b /\ \A i \in 1 .. Len(s) : t[i + 1] = s[i]
  BY <1>3, <1>6
<1>8. Carried(t) = v
  <2>1. Carried(t) = (b % Continue) + Continue * rest
    BY <1>3, <1>6, CarriedPrefix
  <2> QED BY <1>1, <1>2, <1>4, <1>5, <2>1
<1> HIDE DEF t
<1>9. t[Len(t)] = s[Len(s)]
  <2>1. Len(s) \in 1 .. Len(s)
    BY <1>6
  <2> QED BY <1>7, <2>1
<1>10. ASSUME NEW i \in 1 .. Len(t) - 1 PROVE t[i] >= Continue
  <2>1. CASE i = 1
    BY <1>3, <1>7, <2>1
  <2>2. CASE i # 1
    <3>1. Len(s) \in Nat /\ Len(t) = Len(s) + 1
      BY <1>6, <1>7
    <3>2. i - 1 \in 1 .. Len(s) - 1 /\ i - 1 \in 1 .. Len(s) /\ (i - 1) + 1 = i
      BY <2>2, <3>1
    <3> QED BY <1>6, <1>7, <3>2
  <2> QED BY <2>1, <2>2
<1>11. ASSUME NEW g \in 0 .. Groups
       PROVE  v < Full[g] <=> (Len(t) <= g \/ (Len(t) = g + 1 /\ t[Len(t)] <= 1))
  <2>1. CASE g = 0
    <3>1. Full[0] = 2
      BY FullFact
    <3> QED BY <1>1, <1>6, <1>7, <2>1, <3>1
  <2>2. CASE g # 0
    <3>1. g \in 1 .. Groups /\ g - 1 \in 0 .. Groups
      BY <1>1, <2>2
    <3>2. Full[g - 1] \in Nat
      BY <3>1, FullFact
    <3>3. Full[g] = Continue * Full[g - 1]
      BY <3>1, FullFact
    <3>4. v < Continue * Full[g - 1] <=> rest < Full[g - 1]
      <4> DEFINE f == Full[g - 1]
      <4>1. f \in Nat
        BY <3>2
      <4> HIDE DEF f
      <4>2. v < Continue * f <=> v \div Continue < f
        BY <1>1, <4>1
      <4> QED BY <4>2 DEF f, rest
    <3>5. rest < Full[g - 1] <=> (Len(s) <= g - 1 \/ (Len(s) = (g - 1) + 1 /\ s[Len(s)] <= 1))
      BY <1>6, <3>1
    <3> QED BY <1>6, <1>7, <1>9, <3>1, <3>3, <3>4, <3>5
  <2> QED BY <2>1, <2>2
<1>12. Len(t) >= 1 /\ t[Len(t)] < Continue
  BY <1>6, <1>7, <1>9
<1> QED
  BY <1>7, <1>8, <1>10, <1>11, <1>12 DEF IsVarint, t, b

IsRest(rest, m) ==
  rest = [n \in 0 .. m |->
            IF n < Continue THEN <<n>> ELSE <<Continue + (n % Continue)>> \o rest[n \div Continue]]

\* What is left of a number is less than it.
LEMMA RestLess ==
  ASSUME NEW n \in Nat, n >= Continue
  PROVE  n \div Continue \in Nat /\ n \div Continue < n
<1>1. Continue \in Nat /\ Continue >= 8
  BY WireAssumption
<1>2. n \div Continue \in Nat /\ n = Continue * (n \div Continue) + (n % Continue) /\ n % Continue \in Nat
  BY <1>1
<1> DEFINE q == n \div Continue
<1>3. q \in Nat /\ n >= Continue * q
  BY <1>1, <1>2
<1> HIDE DEF q
<1>4. Continue * q >= 8 * q
  BY <1>1, <1>3
<1>5. n >= 8
  BY <1>1
<1>6. q < n
  BY <1>1, <1>3, <1>4, <1>5
<1> QED
  BY <1>3, <1>6 DEF q

\* The writer writes varints.
LEMMA WriteVarintFact ==
  ASSUME NEW v \in Nat
  PROVE  IsVarint(WriteVarint(v), v)
<1> DEFINE S == {m \in Nat : \E f : IsRest(f, m)}
<1>1. Continue \in Nat /\ Continue >= 8
  BY WireAssumption
<1>2. 0 \in S
  <2>1. IsRest([n \in 0 .. 0 |-> <<n>>], 0)
    BY <1>1 DEF IsRest
  <2> QED BY <2>1
<1>3. ASSUME NEW m \in Nat, m \in S PROVE m + 1 \in S
  <2>1. PICK f : IsRest(f, m)
    BY <1>3
  <2> DEFINE g == [n \in 0 .. m + 1 |->
                     IF n <= m THEN f[n]
                     ELSE IF n < Continue THEN <<n>>
                     ELSE <<Continue + (n % Continue)>> \o f[n \div Continue]]
  <2>2. \A n \in 0 .. m + 1 : n >= Continue => n \div Continue \in 0 .. m
    BY RestLess
  <2>3. \A n \in 0 .. m :
           f[n] = IF n < Continue THEN <<n>> ELSE <<Continue + (n % Continue)>> \o f[n \div Continue]
    BY <2>1 DEF IsRest
  <2>4. \A n \in 0 .. m : g[n] = f[n]
    OBVIOUS
  <2>5. \A n \in 0 .. m + 1 :
           g[n] = IF n < Continue THEN <<n>> ELSE <<Continue + (n % Continue)>> \o f[n \div Continue]
    <3> SUFFICES ASSUME NEW n \in 0 .. m + 1
                 PROVE  g[n] = IF n < Continue THEN <<n>>
                               ELSE <<Continue + (n % Continue)>> \o f[n \div Continue]
      OBVIOUS
    <3>1. CASE n \in 0 .. m
      BY <2>3, <2>4, <3>1
    <3>2. CASE n \notin 0 .. m
      BY <3>2
    <3> QED BY <3>1, <3>2
  <2>6. \A n \in 0 .. m + 1 :
           g[n] = IF n < Continue THEN <<n>> ELSE <<Continue + (n % Continue)>> \o g[n \div Continue]
    <3> SUFFICES ASSUME NEW n \in 0 .. m + 1
                 PROVE  g[n] = IF n < Continue THEN <<n>>
                               ELSE <<Continue + (n % Continue)>> \o g[n \div Continue]
      OBVIOUS
    <3> HIDE DEF g
    <3>1. CASE n < Continue
      BY <2>5, <3>1
    <3>2. CASE ~ n < Continue
      <4>1. n \div Continue \in 0 .. m
        BY <1>1, <2>2, <3>2
      <4>2. g[n \div Continue] = f[n \div Continue]
        BY <2>4, <4>1
      <4> QED BY <2>5, <3>2, <4>2
    <3> QED BY <3>1, <3>2
  <2>7. IsRest(g, m + 1)
    BY <2>6 DEF IsRest
  <2> QED BY <2>7
<1>4. v \in S
  BY <1>2, <1>3, Induction
<1> DEFINE rest == CHOOSE f : IsRest(f, v)
<1>5. IsRest(rest, v)
  BY <1>4
<1>6. WriteVarint(v) = rest[v]
  BY DEF WriteVarint, IsRest
<1> HIDE DEF rest
<1> DEFINE T == {m \in Nat : \A n \in 0 .. m : n <= v => IsVarint(rest[n], n)}
<1>7. ASSUME NEW n \in 0 .. v, \A k \in 0 .. n - 1 : IsVarint(rest[k], k)
      PROVE  IsVarint(rest[n], n)
  <2>1. CASE n < Continue
    <3>1. rest[n] = <<n>>
      BY <1>5, <2>1 DEF IsRest
    <3>2. n \in 0 .. Continue - 1
      BY <1>1, <2>1
    <3> QED BY <3>1, <3>2, ShortVarint
  <2>2. CASE ~ n < Continue
    <3>1. rest[n] = <<Continue + (n % Continue)>> \o rest[n \div Continue]
      BY <1>5, <2>2 DEF IsRest
    <3>2. n \in Nat /\ n >= Continue
      BY <1>1, <2>2
    <3>3. n \div Continue \in 0 .. n - 1
      BY <3>2, RestLess
    <3>4. IsVarint(rest[n \div Continue], n \div Continue)
      BY <1>7, <3>3
    <3> QED BY <3>1, <3>2, <3>4, LongVarint
  <2> QED BY <2>1, <2>2
<1>8. 0 \in T
  BY <1>7
<1>9. ASSUME NEW m \in Nat, m \in T PROVE m + 1 \in T
  <2> SUFFICES ASSUME NEW n \in 0 .. m + 1, n <= v PROVE IsVarint(rest[n], n)
    OBVIOUS
  <2>1. \A k \in 0 .. n - 1 : IsVarint(rest[k], k)
    BY <1>9
  <2> QED BY <1>7, <2>1
<1>10. v \in T
  BY <1>8, <1>9, Induction
<1> QED
  BY <1>6, <1>10

-----------------------------------------------------------------------------
(* Reading what is written: numbers                                        *)

\* From a position on the buffer holds the bytes, as far as it goes.
Agrees(buf, at, s) == \A i \in 1 .. Len(s) : at + i - 1 <= Len(buf) => buf[at + i - 1] = s[i]

\* All of them are there.
Complete(buf, at, s) == at + Len(s) - 1 <= Len(buf)

\* Bytes that are there are what a slice has.
LEMMA SliceFact ==
  ASSUME NEW buf \in Seq(Byte), NEW at \in Nat \ {0}, NEW s \in Seq(Byte),
         Agrees(buf, at, s), Complete(buf, at, s)
  PROVE  SubSeq(buf, at, at + Len(s) - 1) = s
<1> DEFINE t == SubSeq(buf, at, at + Len(s) - 1)
<1>1. Len(s) \in Nat /\ Len(buf) \in Nat /\ at + Len(s) - 1 <= Len(buf)
  BY DEF Complete
<1>2. t \in Seq(Byte)
  BY <1>1, SliceTyped
<1>3. Len(t) = Len(s) /\ \A i \in 1 .. Len(s) : t[i] = buf[at + i - 1]
  <2>1. at + Len(s) - 1 >= at - 1 /\ at + Len(s) - 1 - at + 1 = Len(s)
    BY <1>1
  <2>2. \A i \in at .. at + Len(s) - 1 : buf[i] \in Byte
    BY <1>1
  <2>3. Len(t) = at + Len(s) - 1 - at + 1
    BY <1>1, <2>1, <2>2, SubSeqProperties
  <2>4. \A i \in 1 .. at + Len(s) - 1 - at + 1 : t[i] = buf[at + i - 1]
    BY <1>1, <2>1, <2>2, SubSeqProperties
  <2> QED BY <2>1, <2>3, <2>4
<1>4. \A i \in 1 .. Len(s) : t[i] = s[i]
  BY <1>1, <1>3 DEF Agrees
<1> HIDE DEF t
<1>5. t = s
  BY <1>2, <1>3, <1>4
<1> QED
  BY <1>5 DEF t

\* A varint is read back if all of it is there and it fits a u64.
LEMMA ReadVarintFact ==
  ASSUME NEW buf \in Seq(Byte), NEW at \in Nat \ {0}, NEW v \in Nat,
         NEW s, IsVarint(s, v), Agrees(buf, at, s)
  PROVE  /\ v < Limit /\ Complete(buf, at, s) =>
              ReadVarint(buf, at) = {[value |-> v, next |-> at + Len(s)]}
         /\ ~ (v < Limit /\ Complete(buf, at, s)) => ReadVarint(buf, at) = {}
<1> DEFINE ends == Ends(buf, at)
<1>1. /\ s \in Seq(Byte) /\ Len(s) >= 1 /\ Len(s) \in Nat
      /\ \A i \in 1 .. Len(s) - 1 : s[i] >= Continue
      /\ s[Len(s)] < Continue
      /\ Carried(s) = v
  BY DEF IsVarint
<1>2. Continue \in Nat /\ Groups \in Nat \ {0} /\ Len(buf) \in Nat
  BY WireAssumption
<1>3. v < Limit <=> (Len(s) <= Groups \/ (Len(s) = Groups + 1 /\ s[Len(s)] <= 1))
  <2>1. Groups \in 0 .. Groups
    BY <1>2
  <2>2. v < Full[Groups] <=> (Len(s) <= Groups \/ (Len(s) = Groups + 1 /\ s[Len(s)] <= 1))
    BY <2>1 DEF IsVarint
  <2>3. Limit = Full[Groups]
    BY FullFact
  <2> QED BY <2>2, <2>3
<1>4. \A i \in 1 .. Len(s) : s[i] \in Int /\ (at + i - 1 <= Len(buf) => buf[at + i - 1] = s[i])
  <2>1. \A i \in 1 .. Len(s) : s[i] \in Byte
    BY <1>1
  <2> QED BY <1>2, <2>1 DEF Agrees, Byte
<1>5. \A n \in ends : n \in 1 .. Groups + 1 /\ at + n - 1 <= Len(buf) /\ buf[at + n - 1] < Continue
  BY DEF Ends
<1>6. \A n \in ends : n >= Len(s)
  <2> SUFFICES ASSUME NEW n \in ends, n < Len(s) PROVE FALSE
    BY <1>1, <1>2, <1>5
  <2>1. n \in 1 .. Len(s) - 1 /\ n \in 1 .. Len(s)
    BY <1>1, <1>2, <1>5
  <2>2. s[n] >= Continue /\ buf[at + n - 1] = s[n] /\ s[n] \in Int
    BY <1>1, <1>4, <1>5, <2>1
  <2> QED BY <1>2, <1>5, <2>2
<1>7. CASE ~ Complete(buf, at, s)
  <2>1. ends = {}
    BY <1>1, <1>2, <1>5, <1>6, <1>7 DEF Complete
  <2> QED BY <1>7, <2>1 DEF ReadVarint
<1>8. CASE Len(s) > Groups + 1
  <2>1. ends = {}
    BY <1>1, <1>2, <1>5, <1>6, <1>8
  <2>2. ~ (v < Limit)
    BY <1>1, <1>2, <1>3, <1>8
  <2> QED BY <2>1, <2>2 DEF ReadVarint
<1>9. CASE Complete(buf, at, s) /\ Len(s) <= Groups + 1
  <2>1. Len(s) \in 1 .. Len(s) /\ at + Len(s) - 1 <= Len(buf)
    BY <1>1, <1>9 DEF Complete
  <2>2. buf[at + Len(s) - 1] = s[Len(s)] /\ s[Len(s)] \in Int
    BY <1>4, <2>1
  <2>3. Len(s) \in ends
    BY <1>1, <1>2, <1>9, <2>1, <2>2 DEF Ends
  <2>4. ends \in SUBSET Nat
    BY <1>5
  <2>5. Min(ends) = Len(s)
    <3>1. Min(ends) \in ends /\ Min(ends) <= Len(s)
      BY <2>3, <2>4, MinFact
    <3>2. Min(ends) \in Nat /\ Min(ends) >= Len(s)
      BY <1>6, <2>4, <3>1
    <3> QED BY <1>1, <3>1, <3>2
  <2>6. SubSeq(buf, at, at + Len(s) - 1) = s
    BY <1>1, <1>9, SliceFact
  <2>7. (Len(s) = Groups + 1 /\ buf[at + Groups] > 1) <=> ~ (v < Limit)
    <3>1. Len(s) = Groups + 1 => at + Groups = at + Len(s) - 1
      BY <1>1, <1>2
    <3>2. CASE Len(s) = Groups + 1
      <4>1. buf[at + Groups] = s[Len(s)]
        BY <2>2, <3>1, <3>2
      <4>2. ~ (Len(s) <= Groups)
        BY <1>2, <3>2
      <4> QED BY <1>3, <2>2, <3>2, <4>1, <4>2
    <3>3. CASE Len(s) # Groups + 1
      <4>1. Len(s) <= Groups
        BY <1>1, <1>2, <1>9, <3>3
      <4> QED BY <1>3, <3>3, <4>1
    <3> QED BY <3>2, <3>3
  <2>8. ReadVarint(buf, at) =
           IF Len(s) = Groups + 1 /\ buf[at + Groups] > 1 THEN {}
           ELSE {[value |-> Carried(SubSeq(buf, at, at + Len(s) - 1)), next |-> at + Len(s)]}
    <3>1. Ends(buf, at) # {} /\ Min(Ends(buf, at)) = Len(s)
      BY <2>3, <2>5
    <3> HIDE DEF ends
    <3> QED BY <3>1 DEF ReadVarint
  <2> QED BY <1>1, <1>9, <2>6, <2>7, <2>8
<1> QED
  BY <1>1, <1>2, <1>7, <1>8, <1>9

\* What agrees with two parts agrees with each where it stands.
LEMMA AgreesParts ==
  ASSUME NEW buf, NEW at \in Nat \ {0}, NEW s \in Seq(Byte), NEW t \in Seq(Byte), Len(buf) \in Nat,
         Agrees(buf, at, s \o t)
  PROVE  /\ Agrees(buf, at, s) /\ Agrees(buf, at + Len(s), t)
         /\ at + Len(s) \in Nat \ {0}
         /\ Len(s \o t) = Len(s) + Len(t) /\ Len(s) \in Nat /\ Len(t) \in Nat
         /\ Complete(buf, at, s \o t) <=> Complete(buf, at + Len(s), t) /\ Complete(buf, at, s)
<1>1. /\ Len(s) \in Nat /\ Len(t) \in Nat /\ Len(s \o t) = Len(s) + Len(t)
      /\ \A i \in 1 .. Len(s) : (s \o t)[i] = s[i]
      /\ \A i \in 1 .. Len(t) : (s \o t)[Len(s) + i] = t[i]
  OBVIOUS
<1>2. \A i \in 1 .. Len(s) + Len(t) : at + i - 1 <= Len(buf) => buf[at + i - 1] = (s \o t)[i]
  BY <1>1 DEF Agrees
<1>3. Agrees(buf, at, s)
  <2> SUFFICES ASSUME NEW i \in 1 .. Len(s), at + i - 1 <= Len(buf) PROVE buf[at + i - 1] = s[i]
    BY DEF Agrees
  <2>1. i \in 1 .. Len(s) + Len(t)
    BY <1>1
  <2> QED BY <1>1, <1>2, <2>1
<1>4. Agrees(buf, at + Len(s), t)
  <2> SUFFICES ASSUME NEW i \in 1 .. Len(t), at + Len(s) + i - 1 <= Len(buf)
               PROVE  buf[at + Len(s) + i - 1] = t[i]
    BY DEF Agrees
  <2>1. Len(s) + i \in 1 .. Len(s) + Len(t) /\ at + (Len(s) + i) - 1 = at + Len(s) + i - 1
    BY <1>1
  <2>2. buf[at + (Len(s) + i) - 1] = (s \o t)[Len(s) + i]
    BY <1>2, <2>1
  <2> QED BY <1>1, <2>1, <2>2
<1>5. Complete(buf, at, s \o t) <=> Complete(buf, at + Len(s), t) /\ Complete(buf, at, s)
  BY <1>1 DEF Complete
<1>6. at + Len(s) \in Nat \ {0}
  BY <1>1
<1> QED
  BY <1>1, <1>3, <1>4, <1>5, <1>6

-----------------------------------------------------------------------------
(* Reading what is written: nodes                                          *)

NodeKinds == {"varint", "fixed64", "group", "fixed32", "string", "message"}

\* A node that can be written.
IsNode(node) ==
  /\ node.number \in Nat /\ node.int \in Nat /\ node.bytes \in Seq(Byte) /\ node.kind \in NodeKinds
  /\ node.kind = "fixed32" => Len(node.bytes) = Fixed32
  /\ node.kind = "fixed64" => Len(node.bytes) = Fixed64
  /\ Len(node.bytes) < Limit

\* What follows the key of a node, and what the reader takes from it.
Behind(node) ==
  CASE node.kind = "varint"                -> WriteVarint(node.int)
    [] node.kind \in {"string", "message"} -> WriteVarint(Len(node.bytes)) \o node.bytes
    [] OTHER                               -> node.bytes

DataOf(node) == IF node.kind = "varint" THEN node.int ELSE node.bytes

Readable(node) == node.kind # "group" /\ (node.kind = "varint" => node.int < Limit)

\* Each kind has its wire type.
LEMMA WireFact ==
  ASSUME NEW kind \in NodeKinds
  PROVE  /\ WireOf(kind) \in 0 .. 7
         /\ kind = "varint" <=> WireOf(kind) = 0
         /\ kind = "fixed64" <=> WireOf(kind) = 1
         /\ kind \in {"string", "message"} <=> WireOf(kind) = 2
         /\ kind = "group" <=> WireOf(kind) = 3
         /\ kind = "fixed32" <=> WireOf(kind) = 5
<1>1. CASE kind = "varint"
  BY <1>1 DEF WireOf
<1>2. CASE kind = "fixed64"
  BY <1>2 DEF WireOf
<1>3. CASE kind = "group"
  BY <1>3 DEF WireOf
<1>4. CASE kind = "fixed32"
  BY <1>4 DEF WireOf
<1>5. CASE kind \in {"string", "message"}
  BY <1>5 DEF WireOf
<1> QED
  BY <1>1, <1>2, <1>3, <1>4, <1>5 DEF NodeKinds

\* A payload of known extent is read if all of it is there.
LEMMA PayloadFact ==
  ASSUME NEW buf \in Seq(Byte), NEW at, NEW wire, NEW a \in Nat \ {0}, NEW bytes \in Seq(Byte),
         Extent(buf, wire, at) = {[value |-> Len(bytes), next |-> a]},
         Agrees(buf, a, bytes)
  PROVE  /\ Complete(buf, a, bytes) =>
              ReadPayload(buf, wire, at) = {[data |-> bytes, next |-> a + Len(bytes)]}
         /\ ~ Complete(buf, a, bytes) => ReadPayload(buf, wire, at) = {}
<1>1. Len(bytes) \in Nat /\ Len(buf) \in Nat
  OBVIOUS
<1> DEFINE x == [value |-> Len(bytes), next |-> a]
<1>2. x.value = Len(bytes) /\ x.next = a
  OBVIOUS
<1>3. CASE Complete(buf, a, bytes)
  <2>1. {y \in Extent(buf, wire, at) : y.next + y.value <= Len(buf) + 1} = {x}
    BY <1>1, <1>2, <1>3 DEF Complete
  <2>2. ReadPayload(buf, wire, at) = {[data |-> SubSeq(buf, a, a + Len(bytes) - 1), next |-> a + Len(bytes)]}
    BY <1>2, <2>1 DEF ReadPayload
  <2>3. SubSeq(buf, a, a + Len(bytes) - 1) = bytes
    BY <1>3, SliceFact
  <2> QED BY <1>3, <2>2, <2>3
<1>4. CASE ~ Complete(buf, a, bytes)
  <2>1. {y \in Extent(buf, wire, at) : y.next + y.value <= Len(buf) + 1} = {}
    BY <1>1, <1>2, <1>4 DEF Complete
  <2>2. ReadPayload(buf, wire, at) = {}
    BY <2>1 DEF ReadPayload
  <2> QED BY <1>4, <2>2
<1> QED
  BY <1>3, <1>4

\* What is behind the key is read back, if all of it is there.
LEMMA ReadDataFact ==
  ASSUME NEW buf \in Seq(Byte), NEW at \in Nat \ {0}, NEW node, IsNode(node),
         Agrees(buf, at, Behind(node))
  PROVE  /\ Behind(node) \in Seq(Byte)
         /\ Readable(node) /\ Complete(buf, at, Behind(node)) =>
              ReadData(buf, WireOf(node.kind), at) =
                {[data |-> DataOf(node), next |-> at + Len(Behind(node))]}
         /\ ~ (Readable(node) /\ Complete(buf, at, Behind(node))) =>
              ReadData(buf, WireOf(node.kind), at) = {}
<1> DEFINE wire == WireOf(node.kind)
           b == Behind(node)
<1>1. /\ node.int \in Nat /\ node.bytes \in Seq(Byte) /\ node.kind \in NodeKinds
      /\ Len(node.bytes) \in Nat /\ Len(node.bytes) < Limit
  BY DEF IsNode
<1>2. CASE node.kind = "varint"
  <2>1. b = WriteVarint(node.int)
    BY <1>2 DEF Behind
  <2>2. IsVarint(b, node.int)
    BY <1>1, <2>1, WriteVarintFact
  <2>3. ReadData(buf, wire, at) = {[data |-> v.value, next |-> v.next] : v \in ReadVarint(buf, at)}
    BY <1>1, <1>2, WireFact DEF ReadData
  <2>4. Readable(node) <=> node.int < Limit
    BY <1>2 DEF Readable
  <2>5. DataOf(node) = node.int
    BY <1>2 DEF DataOf
  <2> HIDE DEF b, wire
  <2>6. /\ node.int < Limit /\ Complete(buf, at, b) =>
             ReadVarint(buf, at) = {[value |-> node.int, next |-> at + Len(b)]}
        /\ ~ (node.int < Limit /\ Complete(buf, at, b)) => ReadVarint(buf, at) = {}
    BY <1>1, <2>2, ReadVarintFact DEF b
  <2>7. CASE node.int < Limit /\ Complete(buf, at, b)
    <3>1. ReadVarint(buf, at) = {[value |-> node.int, next |-> at + Len(b)]}
      BY <2>6, <2>7
    <3>2. ReadData(buf, wire, at) = {[data |-> node.int, next |-> at + Len(b)]}
      BY <2>3, <3>1
    <3>3. b \in Seq(Byte)
      BY <2>2 DEF IsVarint
    <3> QED BY <2>4, <2>5, <2>7, <3>2, <3>3 DEF b, wire
  <2>8. CASE ~ (node.int < Limit /\ Complete(buf, at, b))
    <3>1. ReadVarint(buf, at) = {}
      BY <2>6, <2>8
    <3>2. ReadData(buf, wire, at) = {}
      BY <2>3, <3>1
    <3>3. b \in Seq(Byte)
      BY <2>2 DEF IsVarint
    <3> QED BY <2>4, <2>8, <3>2, <3>3 DEF b, wire
  <2> QED BY <2>7, <2>8
<1>3. CASE node.kind \in {"string", "message"}
  <2> DEFINE key == WriteVarint(Len(node.bytes))
             a == at + Len(key)
  <2>1. b = key \o node.bytes
    BY <1>3 DEF Behind
  <2>2. IsVarint(key, Len(node.bytes))
    BY <1>1, WriteVarintFact
  <2>3. key \in Seq(Byte)
    BY <2>2 DEF IsVarint
  <2>4. Agrees(buf, at, key \o node.bytes)
    BY <2>1
  <2>5. wire = 2 /\ wire # 0 /\ wire # 1 /\ wire # 5
    BY <1>1, <1>3, WireFact
  <2>6. ReadData(buf, wire, at) = ReadPayload(buf, wire, at)
    BY <2>5 DEF ReadData
  <2>7. Extent(buf, wire, at) = ReadVarint(buf, at)
    <3> HIDE DEF wire
    <3> QED BY <2>5, Zenon DEF Extent
  <2>8. Readable(node) /\ DataOf(node) = node.bytes
    BY <1>3 DEF Readable, DataOf
  <2> HIDE DEF key
  <2>9. /\ Agrees(buf, at, key) /\ Agrees(buf, a, node.bytes) /\ a \in Nat \ {0}
        /\ Len(key \o node.bytes) = Len(key) + Len(node.bytes) /\ Len(key) \in Nat
        /\ Complete(buf, at, key \o node.bytes) <=>
             Complete(buf, a, node.bytes) /\ Complete(buf, at, key)
    BY <1>1, <2>3, <2>4, AgreesParts
  <2>10. /\ Len(node.bytes) < Limit /\ Complete(buf, at, key) =>
              ReadVarint(buf, at) = {[value |-> Len(node.bytes), next |-> at + Len(key)]}
         /\ ~ (Len(node.bytes) < Limit /\ Complete(buf, at, key)) => ReadVarint(buf, at) = {}
    BY <1>1, <2>2, <2>9, ReadVarintFact
  <2>11. b \in Seq(Byte)
    BY <1>1, <2>1, <2>3
  <2>12. CASE Complete(buf, at, key)
    <3>1. Extent(buf, wire, at) = {[value |-> Len(node.bytes), next |-> a]}
      BY <1>1, <2>7, <2>10, <2>12
    <3> HIDE DEF a, wire
    <3>2. /\ Complete(buf, a, node.bytes) =>
               ReadPayload(buf, wire, at) = {[data |-> node.bytes, next |-> a + Len(node.bytes)]}
          /\ ~ Complete(buf, a, node.bytes) => ReadPayload(buf, wire, at) = {}
      <4>1. a \in Nat \ {0} /\ Agrees(buf, a, node.bytes)
        BY <2>9
      <4> HIDE DEF b
      <4> QED BY <1>1, <3>1, <4>1, PayloadFact
    <3> HIDE DEF b
    <3>3. a + Len(node.bytes) = at + Len(b)
      <4>1. Len(b) = Len(key) + Len(node.bytes) /\ Len(key) \in Nat
        BY <2>1, <2>9
      <4>2. PICK m \in Nat, n \in Nat : m = Len(key) /\ n = Len(node.bytes)
        BY <1>1, <4>1
      <4>3. (at + m) + n = at + (m + n)
        OBVIOUS
      <4> QED BY <4>1, <4>2, <4>3 DEF a
    <3>4. Complete(buf, at, b) <=> Complete(buf, a, node.bytes)
      BY <2>1, <2>9, <2>12
    <3>5. CASE Complete(buf, a, node.bytes)
      BY <2>6, <2>8, <2>11, <3>2, <3>3, <3>4, <3>5 DEF b, wire
    <3>6. CASE ~ Complete(buf, a, node.bytes)
      BY <2>6, <2>11, <3>2, <3>4, <3>6 DEF b, wire
    <3> QED BY <3>5, <3>6
  <2>13. CASE ~ Complete(buf, at, key)
    <3>1. Extent(buf, wire, at) = {}
      BY <2>7, <2>10, <2>13
    <3>2. ReadPayload(buf, wire, at) = {}
      BY <3>1 DEF ReadPayload
    <3>3. ~ Complete(buf, at, b)
      BY <2>1, <2>9, <2>13
    <3> QED BY <2>6, <2>11, <3>2, <3>3
  <2> QED BY <2>12, <2>13
<1>4. CASE node.kind \in {"fixed32", "fixed64"}
  <2>1. b = node.bytes
    BY <1>4 DEF Behind
  <2>2. wire \in {1, 5}
    BY <1>1, <1>4, WireFact
  <2>3. ReadData(buf, wire, at) = ReadPayload(buf, wire, at)
    BY <2>2 DEF ReadData
  <2>4. Extent(buf, wire, at) = {[value |-> Len(node.bytes), next |-> at]}
    <3>1. CASE node.kind = "fixed64"
      <4>1. wire = 1 /\ wire # 2 /\ wire # 5 /\ Len(node.bytes) = Fixed64
        BY <1>1, <3>1, WireFact DEF IsNode
      <4> HIDE DEF wire
      <4>2. Extent(buf, wire, at) = {[value |-> Fixed64, next |-> at]}
        BY <4>1, Zenon DEF Extent
      <4> QED BY <4>1, <4>2
    <3>2. CASE node.kind = "fixed32"
      <4>1. wire = 5 /\ wire # 1 /\ wire # 2 /\ Len(node.bytes) = Fixed32
        BY <1>1, <3>2, WireFact DEF IsNode
      <4> HIDE DEF wire
      <4>2. Extent(buf, wire, at) = {[value |-> Fixed32, next |-> at]}
        BY <4>1, Zenon DEF Extent
      <4> QED BY <4>1, <4>2
    <3> QED BY <1>4, <3>1, <3>2
  <2>5. Readable(node) /\ DataOf(node) = node.bytes
    BY <1>4 DEF Readable, DataOf
  <2>6. Agrees(buf, at, node.bytes)
    BY <2>1
  <2> HIDE DEF wire
  <2>7. /\ Complete(buf, at, node.bytes) =>
             ReadPayload(buf, wire, at) = {[data |-> node.bytes, next |-> at + Len(node.bytes)]}
        /\ ~ Complete(buf, at, node.bytes) => ReadPayload(buf, wire, at) = {}
    BY <1>1, <2>4, <2>6, PayloadFact
  <2> HIDE DEF b
  <2>8. CASE Complete(buf, at, node.bytes)
    BY <1>1, <2>1, <2>3, <2>5, <2>7, <2>8 DEF b, wire
  <2>9. CASE ~ Complete(buf, at, node.bytes)
    BY <1>1, <2>1, <2>3, <2>7, <2>9 DEF b, wire
  <2> QED BY <2>8, <2>9
<1>5. CASE node.kind = "group"
  <2>1. wire = 3 /\ wire # 0 /\ wire # 1 /\ wire # 2 /\ wire # 5
    BY <1>1, <1>5, WireFact
  <2>2. Extent(buf, wire, at) = {}
    BY <2>1, Zenon DEF Extent
  <2>3. ReadData(buf, wire, at) = {}
    BY <2>1, <2>2 DEF ReadData, ReadPayload
  <2>4. ~ Readable(node) /\ b = node.bytes
    BY <1>5 DEF Readable, Behind
  <2> QED BY <1>1, <2>3, <2>4
<1> QED
  BY <1>1, <1>2, <1>3, <1>4, <1>5 DEF NodeKinds

\* The key of a node carries its number and its wire type.
LEMMA KeyFact ==
  ASSUME NEW n \in Nat, NEW w \in 0 .. 7
  PROVE  /\ n * 8 + w \in Nat /\ (n * 8 + w) \div 8 = n /\ (n * 8 + w) % 8 = w
         /\ n < TagLimit => n * 8 + w < Limit
<1>1. n * 8 + w \in Nat /\ (n * 8 + w) \div 8 = n /\ (n * 8 + w) % 8 = w
  OBVIOUS
<1>2. n < TagLimit => n * 8 + w < Limit
  BY WireAssumption, KeyAssumption, LimitFact
<1> QED
  BY <1>1, <1>2

\* What a turn of the loop sees of a node that ends before `next`.
ShownAs(node, next) ==
  [number |-> node.number, wire |-> WireOf(node.kind), data |-> DataOf(node), next |-> next]

\* A node is written as its key and what is behind it.
LEMMA WriteNodeTyped ==
  ASSUME NEW node, IsNode(node)
  PROVE  /\ Behind(node) \in Seq(Byte)
         /\ WriteNode(node) = WriteVarint(node.number * 8 + WireOf(node.kind)) \o Behind(node)
         /\ WriteNode(node) \in Seq(Byte) /\ Len(WriteNode(node)) >= 1
         /\ node.kind \in {"string", "message"} => Len(node.bytes) < Len(WriteNode(node))
<1> DEFINE k == node.number * 8 + WireOf(node.kind)
           key == WriteVarint(k)
           b == Behind(node)
<1>1. node.bytes \in Seq(Byte) /\ node.int \in Nat
  BY DEF IsNode
<1>2. \A v \in Nat : WriteVarint(v) \in Seq(Byte) /\ Len(WriteVarint(v)) \in Nat /\ Len(WriteVarint(v)) >= 1
  BY WriteVarintFact DEF IsVarint
<1>3. k \in Nat
  <2>1. node.number \in Nat /\ WireOf(node.kind) \in 0 .. 7
    BY WireFact DEF IsNode
  <2> QED BY <2>1
<1>4. WriteNode(node) = key \o b
  BY DEF WriteNode, Behind
<1>5. b \in Seq(Byte) /\ (node.kind \in {"string", "message"} => Len(node.bytes) <= Len(b))
  <2>1. CASE node.kind = "varint"
    BY <1>1, <1>2, <2>1 DEF Behind
  <2>2. CASE node.kind \in {"string", "message"}
    <3> DEFINE size == WriteVarint(Len(node.bytes))
    <3>1. b = size \o node.bytes
      BY <2>2 DEF Behind
    <3>2. size \in Seq(Byte)
      BY <1>1, <1>2, LenProperties
    <3> HIDE DEF size, b
    <3>3. b \in Seq(Byte) /\ Len(b) = Len(size) + Len(node.bytes)
      BY <1>1, <3>1, <3>2, ConcatProperties
    <3>4. PICK m \in Nat, n \in Nat : m = Len(size) /\ n = Len(node.bytes)
      BY <1>1, <3>2, LenProperties
    <3>5. n <= m + n
      OBVIOUS
    <3> QED BY <3>3, <3>4, <3>5 DEF b
  <2>3. CASE node.kind \notin {"varint", "string", "message"}
    <3>1. b = node.bytes
      BY <2>3 DEF Behind
    <3> QED BY <1>1, <2>3, <3>1
  <2> QED BY <2>1, <2>2, <2>3
<1> HIDE DEF k
<1>6. key \in Seq(Byte) /\ Len(key) >= 1
  BY <1>2, <1>3
<1> HIDE DEF key, b
<1>7. key \o b \in Seq(Byte) /\ Len(key \o b) = Len(key) + Len(b)
  BY <1>5, <1>6, ConcatProperties
<1>8. PICK m \in Nat, n \in Nat, j \in Nat : m = Len(key) /\ n = Len(b) /\ j = Len(node.bytes)
  BY <1>1, <1>5, <1>6, LenProperties
<1>9. m >= 1 /\ (node.kind \in {"string", "message"} => j <= n)
  BY <1>5, <1>6, <1>8
<1>10. m + n >= 1 /\ (j <= n => j < m + n)
  BY <1>9
<1> QED
  BY <1>4, <1>5, <1>7, <1>8, <1>9, <1>10 DEF key, k, b

\* A node is read back if it is protobuf and all of it is there; else nothing
\* is read.
LEMMA ReadFieldFact ==
  ASSUME NEW buf \in Seq(Byte), NEW at \in Nat \ {0}, NEW node, IsNode(node),
         Agrees(buf, at, WriteNode(node))
  PROVE  /\ ~ Malformed(node) /\ Complete(buf, at, WriteNode(node)) =>
              ReadField(buf, at) = {ShownAs(node, at + Len(WriteNode(node)))}
         /\ ~ (~ Malformed(node) /\ Complete(buf, at, WriteNode(node))) => ReadField(buf, at) = {}
<1> DEFINE w == WireOf(node.kind)
           k == node.number * 8 + w
           key == WriteVarint(k)
           b == Behind(node)
           a == at + Len(key)
<1>1. node.number \in Nat /\ node.kind \in NodeKinds /\ w \in 0 .. 7 /\ node.bytes \in Seq(Byte)
  BY WireFact DEF IsNode
<1>2. k \in Nat /\ k \div 8 = node.number /\ k % 8 = w /\ (node.number < TagLimit => k < Limit)
  <2> HIDE DEF w
  <2> QED BY <1>1, KeyFact
<1>3. WriteNode(node) = key \o b
  BY DEF WriteNode, Behind
<1>4. Malformed(node) <=> node.number \notin 1 .. TagLimit - 1 \/ ~ Readable(node)
  <2>1. CASE node.kind = "varint"
    <3>1. node.int \in Nat /\ Limit \in Nat
      BY LimitFact DEF IsNode
    <3> QED BY <2>1, <3>1 DEF Malformed, Readable
  <2>2. CASE node.kind # "varint"
    BY <2>2 DEF Malformed, Readable
  <2> QED BY <2>1, <2>2
<1> HIDE DEF k, w
<1>5. IsVarint(key, k)
  BY <1>2, WriteVarintFact
<1>6. key \in Seq(Byte) /\ Len(key) >= 1 /\ Len(key) \in Nat
  BY <1>5 DEF IsVarint
<1> HIDE DEF key
<1>7. b \in Seq(Byte)
  BY WriteNodeTyped
<1>8. /\ Agrees(buf, at, key) /\ Agrees(buf, a, b) /\ a \in Nat \ {0}
      /\ Len(key \o b) = Len(key) + Len(b) /\ Len(b) \in Nat
      /\ Complete(buf, at, key \o b) <=> Complete(buf, a, b) /\ Complete(buf, at, key)
  <2> HIDE DEF b
  <2>1. Agrees(buf, at, key \o b) /\ Len(buf) \in Nat
    BY <1>3
  <2> QED BY <1>6, <1>7, <2>1, AgreesParts
<1>9. /\ k < Limit /\ Complete(buf, at, key) =>
           ReadVarint(buf, at) = {[value |-> k, next |-> at + Len(key)]}
      /\ ~ (k < Limit /\ Complete(buf, at, key)) => ReadVarint(buf, at) = {}
  BY <1>2, <1>5, <1>8, ReadVarintFact
<1>10. /\ Readable(node) /\ Complete(buf, a, b) =>
            ReadData(buf, w, a) = {[data |-> DataOf(node), next |-> a + Len(b)]}
       /\ ~ (Readable(node) /\ Complete(buf, a, b)) => ReadData(buf, w, a) = {}
  <2> HIDE DEF a
  <2> QED BY <1>8, ReadDataFact DEF w
<1> HIDE DEF b
<1>11. a + Len(b) = at + Len(WriteNode(node))
  BY <1>3, <1>6, <1>8
<1> DEFINE keys == {x \in ReadVarint(buf, at) : x.value \div 8 \in 1 .. TagLimit - 1}
<1>12. ReadField(buf, at) =
         UNION { {[number |-> x.value \div 8, wire |-> x.value % 8, data |-> d.data, next |-> d.next] :
                    d \in ReadData(buf, x.value % 8, x.next)} : x \in keys }
  BY DEF ReadField
<1>13. CASE node.number \in 1 .. TagLimit - 1 /\ Complete(buf, at, key)
  <2> DEFINE one == [value |-> k, next |-> a]
  <2>1. one.value = k /\ one.next = a
    OBVIOUS
  <2>2. k < Limit
    BY <1>2, <1>13, WireAssumption
  <2>3. ReadVarint(buf, at) = {one}
    BY <1>9, <1>13, <2>2
  <2> HIDE DEF one, a
  <2>4. keys = {one}
    BY <1>2, <1>13, <2>1, <2>3
  <2> HIDE DEF keys
  <2>5. ReadField(buf, at) =
          {[number |-> one.value \div 8, wire |-> one.value % 8, data |-> d.data, next |-> d.next] :
             d \in ReadData(buf, one.value % 8, one.next)}
    BY <1>12, <2>4
  <2>6. ReadField(buf, at) =
          {[number |-> node.number, wire |-> w, data |-> d.data, next |-> d.next] :
             d \in ReadData(buf, w, a)}
    BY <1>2, <2>1, <2>5
  <2>7. Complete(buf, at, WriteNode(node)) <=> Complete(buf, a, b)
    BY <1>3, <1>8, <1>13
  <2>8. CASE Readable(node) /\ Complete(buf, a, b)
    <3>1. ReadData(buf, w, a) = {[data |-> DataOf(node), next |-> a + Len(b)]}
      BY <1>10, <2>8
    <3>2. ReadField(buf, at) =
            {[number |-> node.number, wire |-> w, data |-> DataOf(node), next |-> a + Len(b)]}
      BY <2>6, <3>1
    <3>3. ReadField(buf, at) = {ShownAs(node, at + Len(WriteNode(node)))}
      BY <1>11, <3>2 DEF ShownAs, w
    <3>4. ~ Malformed(node)
      BY <1>4, <1>13, <2>8
    <3> QED BY <2>7, <2>8, <3>3, <3>4
  <2>9. CASE ~ (Readable(node) /\ Complete(buf, a, b))
    <3>1. ReadData(buf, w, a) = {}
      BY <1>10, <2>9
    <3>2. ReadField(buf, at) = {}
      BY <2>6, <3>1
    <3>3. ~ (~ Malformed(node) /\ Complete(buf, at, WriteNode(node)))
      BY <1>4, <1>13, <2>7, <2>9
    <3> QED BY <3>2, <3>3
  <2> QED BY <2>8, <2>9
<1>14. CASE ~ (node.number \in 1 .. TagLimit - 1 /\ Complete(buf, at, key))
  <2>1. keys = {}
    <3>1. CASE k < Limit /\ Complete(buf, at, key)
      <4>1. ReadVarint(buf, at) = {[value |-> k, next |-> at + Len(key)]}
        BY <1>9, <3>1
      <4>2. node.number \notin 1 .. TagLimit - 1
        BY <1>14, <3>1
      <4> QED BY <1>2, <4>1, <4>2
    <3>2. CASE ~ (k < Limit /\ Complete(buf, at, key))
      <4>1. ReadVarint(buf, at) = {}
        BY <1>9, <3>2
      <4> QED BY <4>1
    <3> QED BY <3>1, <3>2
  <2> HIDE DEF keys
  <2>2. ReadField(buf, at) = {}
    BY <1>12, <2>1
  <2>3. ~ (~ Malformed(node) /\ Complete(buf, at, WriteNode(node)))
    BY <1>3, <1>4, <1>8, <1>14
  <2> QED BY <2>2, <2>3
<1> QED
  BY <1>13, <1>14

\* A zero is no field, as the padding has it.
LEMMA ReadZero ==
  ASSUME NEW buf \in Seq(Byte), NEW at \in 1 .. Len(buf), buf[at] = 0
  PROVE  ReadField(buf, at) = {}
<1>1. Continue \in Nat /\ Continue >= 8 /\ Len(buf) \in Nat
  BY WireAssumption
<1> DEFINE zero == <<0>>
<1>2. IsVarint(zero, 0)
  <2>1. 0 \in 0 .. Continue - 1
    BY <1>1
  <2> QED BY <2>1, ShortVarint
<1>3. Agrees(buf, at, zero) /\ Complete(buf, at, zero)
  BY <1>1 DEF Agrees, Complete
<1>4. 0 < Limit /\ at \in Nat \ {0}
  BY LimitFact
<1> HIDE DEF zero
<1>5. ReadVarint(buf, at) = {[value |-> 0, next |-> at + Len(zero)]}
  BY <1>2, <1>3, <1>4, ReadVarintFact
<1>6. 0 \div 8 \notin 1 .. TagLimit - 1
  BY WireAssumption
<1>7. {k \in ReadVarint(buf, at) : k.value \div 8 \in 1 .. TagLimit - 1} = {}
  BY <1>5, <1>6
<1> QED
  BY <1>7 DEF ReadField

\* Behind the last byte is no field.
LEMMA ReadEnd ==
  ASSUME NEW buf \in Seq(Byte)
  PROVE  ReadField(buf, Len(buf) + 1) = {}
<1>1. Len(buf) + 1 \in Positions(buf) /\ Len(buf) \in Nat
  BY LenProperties DEF Positions
<1>2. \A f \in ReadField(buf, Len(buf) + 1) : f.next \in Positions(buf) /\ f.next > Len(buf) + 1
  BY <1>1, ReadFieldTyped
<1> QED
  BY <1>1, <1>2 DEF Positions

-----------------------------------------------------------------------------
(* Reading what is written: messages                                       *)

AreNodes(A) == \A x \in A : IsNode(x)

\* A message is written node by node.
LEMMA WriteFact ==
  ASSUME NEW A, AreNodes(A)
  PROVE  /\ Write(<< >>) = << >>
         /\ \A ns \in Seq(A) : Write(ns) \in Seq(Byte)
         /\ \A ns \in Seq(A) : \A x \in A : Write(Append(ns, x)) = Write(ns) \o WriteNode(x)
<1> DEFINE g == [x \in A |-> WriteNode(x)]
<1>1. Maps(g, A, Seq(Byte))
  BY WriteNodeTyped DEF Maps, AreNodes
<1>2. ASSUME NEW ns \in Seq(A)
      PROVE  Write(ns) = FlattenSeq(Mapped(ns, g)) /\ Mapped(ns, g) \in Seq(Seq(Byte))
  <2>1. \A i \in DOMAIN ns : ns[i] \in A
    BY ElementOfSeq, LenProperties
  <2>2. [i \in DOMAIN ns |-> WriteNode(ns[i])] = Mapped(ns, g)
    BY <2>1 DEF Mapped
  <2>3. Mapped(ns, g) \in Seq(Seq(Byte))
    <3> HIDE DEF g
    <3> QED BY <1>1, MappedTyped
  <2> QED BY <2>2, <2>3 DEF Write
<1>3. Write(<< >>) = << >>
  <2>1. << >> \in Seq(A)
    OBVIOUS
  <2>2. Mapped(<< >>, g) = << >>
    BY MappedEmpty
  <2> HIDE DEF g
  <2> QED BY <1>2, <2>1, <2>2, FlatEmpty
<1>4. ASSUME NEW ns \in Seq(A) PROVE Write(ns) \in Seq(Byte)
  <2> HIDE DEF g
  <2> DEFINE ss == Mapped(ns, g)
  <2>1. ss \in Seq(Seq(Byte)) /\ Write(ns) = FlattenSeq(ss)
    BY <1>2
  <2> HIDE DEF ss
  <2> QED BY <2>1, FlatTyped
<1>5. ASSUME NEW ns \in Seq(A), NEW x \in A
      PROVE  Write(Append(ns, x)) = Write(ns) \o WriteNode(x)
  <2>1. g[x] = WriteNode(x)
    OBVIOUS
  <2> HIDE DEF g
  <2> DEFINE ss == Mapped(ns, g)
             s == g[x]
  <2>2. ss \in Seq(Seq(Byte)) /\ Write(ns) = FlattenSeq(ss)
    BY <1>2
  <2>3. Append(ns, x) \in Seq(A)
    OBVIOUS
  <2>4. Mapped(Append(ns, x), g) = Append(ss, s)
    BY <1>1, MappedAppend
  <2>5. Write(Append(ns, x)) = FlattenSeq(Append(ss, s))
    BY <1>2, <2>3, <2>4
  <2>6. s \in Seq(Byte)
    BY <1>1 DEF Maps
  <2> HIDE DEF ss, s
  <2>7. FlattenSeq(Append(ss, s)) = FlattenSeq(ss) \o s
    BY <2>2, <2>6, FlatAppend
  <2> QED BY <2>1, <2>2, <2>5, <2>7 DEF s
<1> QED
  BY <1>3, <1>4, <1>5

\* The first k nodes, and what the loop sees of them.
IsRead(fields, buf, nodes, k) ==
  /\ Len(fields) = k
  /\ \A i \in 1 .. k :
       /\ ~ Malformed(nodes[i])
       /\ \E next : fields[i] = ShownAs(nodes[i], next)
       /\ nodes[i].kind = "message" => Len(nodes[i].bytes) < Len(buf)

\* The loop sees the first k nodes and is then at q.
ReadUpTo(buf, nodes, k, fields, q) ==
  /\ IsRead(fields, buf, nodes, k)
  /\ FromOf(buf)[1] = fields \o FromOf(buf)[q]
  /\ k = Len(nodes) => q = 1 + Len(Write(nodes))
  /\ k < Len(nodes) => /\ ReadField(buf, q) = {}
                       /\ Malformed(nodes[k + 1]) \/ Len(Write(nodes)) > Len(buf)

\* One more node is read, or it is where the loop ends.
LEMMA ReadOn ==
  ASSUME NEW buf \in Seq(Byte), NEW A, AreNodes(A), NEW ns \in Seq(A), NEW x \in A,
         Agrees(buf, 1, Write(Append(ns, x))),
         NEW k \in 0 .. Len(ns), NEW fields \in Seq(Seen), NEW q \in Positions(buf),
         ReadUpTo(buf, ns, k, fields, q)
  PROVE  \E j \in 0 .. Len(ns) + 1 : \E more \in Seq(Seen) : \E p \in Positions(buf) :
           ReadUpTo(buf, Append(ns, x), j, more, p)
<1> DEFINE t == Append(ns, x)
           w == WriteNode(x)
<1>1. /\ Len(ns) \in Nat /\ Len(t) = Len(ns) + 1 /\ t[Len(ns) + 1] = x
      /\ \A i \in 1 .. Len(ns) : t[i] = ns[i]
  BY LenProperties, AppendProperties
<1>2. Write(t) = Write(ns) \o w /\ Write(ns) \in Seq(Byte)
  BY WriteFact
<1>3. w \in Seq(Byte) /\ (x.kind = "message" => Len(x.bytes) < Len(w)) /\ IsNode(x)
  BY WriteNodeTyped DEF AreNodes
<1>4. Len(Write(t)) = Len(Write(ns)) + Len(w) /\ Len(w) \in Nat /\ Len(Write(ns)) \in Nat /\ Len(buf) \in Nat
  BY <1>2, <1>3, ConcatProperties, LenProperties
<1>5. /\ IsRead(fields, buf, ns, k)
      /\ FromOf(buf)[1] = fields \o FromOf(buf)[q]
      /\ k = Len(ns) => q = 1 + Len(Write(ns))
      /\ k < Len(ns) => ReadField(buf, q) = {} /\ (Malformed(ns[k + 1]) \/ Len(Write(ns)) > Len(buf))
  BY DEF ReadUpTo
<1> HIDE DEF t, w
<1>6. IsRead(fields, buf, t, k)
  <2>1. \A i \in 1 .. k : t[i] = ns[i]
    BY <1>1
  <2> QED BY <1>5, <2>1 DEF IsRead
<1>7. q \in Nat \ {0} /\ q <= Len(buf) + 1
  BY <1>4 DEF Positions
<1>8. k \in 0 .. Len(ns) + 1
  BY <1>1
<1>9. CASE k < Len(ns)
  <2>1. Malformed(t[k + 1]) \/ Len(Write(t)) > Len(buf)
    <3>1. k + 1 \in 1 .. Len(ns)
      BY <1>1, <1>9
    <3> QED BY <1>1, <1>4, <1>5, <1>9, <3>1
  <2>2. ReadUpTo(buf, t, k, fields, q)
    BY <1>1, <1>5, <1>6, <1>9, <2>1 DEF ReadUpTo
  <2> QED BY <1>8, <2>2 DEF t
<1>10. CASE k = Len(ns)
  <2>1. q = 1 + Len(Write(ns)) /\ Agrees(buf, q, w)
    <3>1. Agrees(buf, 1, Write(ns) \o w) /\ 1 \in Nat \ {0}
      BY <1>2 DEF t
    <3> QED BY <1>2, <1>3, <1>4, <1>5, <1>10, <3>1, AgreesParts
  <2>2. /\ ~ Malformed(x) /\ Complete(buf, q, w) => ReadField(buf, q) = {ShownAs(x, q + Len(w))}
        /\ ~ (~ Malformed(x) /\ Complete(buf, q, w)) => ReadField(buf, q) = {}
    BY <1>3, <1>7, <2>1, ReadFieldFact DEF w
  <2>3. CASE ~ Malformed(x) /\ Complete(buf, q, w)
    <3> DEFINE p == q + Len(w)
               f == ShownAs(x, p)
               more == Append(fields, f)
    <3>1. ReadField(buf, q) = {f}
      BY <2>2, <2>3
    <3>2. NextField(buf, q) = f /\ f \in ReadField(buf, q)
      BY <3>1 DEF NextField, Some
    <3>3. f \in Seen /\ f.next = p /\ p \in Positions(buf)
      <4>1. f.next = p
        BY DEF ShownAs
      <4>2. f \in Seen /\ f.next \in Positions(buf)
        BY <3>2, ReadFieldTyped
      <4> QED BY <4>1, <4>2
    <3> HIDE DEF f
    <3>4. FromOf(buf)[q] = <<f>> \o FromOf(buf)[p]
      BY <3>1, <3>2, <3>3, FromFact
    <3>5. FromOf(buf)[p] \in Seq(Seen)
      BY <3>3, FieldsTyped
    <3>6. fields \o (<<f>> \o FromOf(buf)[p]) = (fields \o <<f>>) \o FromOf(buf)[p]
      <4> DEFINE one == <<f>>
                 r == FromOf(buf)[p]
      <4>1. one \in Seq(Seen) /\ r \in Seq(Seen)
        BY <3>3, <3>5
      <4> HIDE DEF one, r
      <4>2. fields \o (one \o r) = (fields \o one) \o r
        BY <4>1, ConcatAssociative
      <4> QED BY <4>2 DEF one, r
    <3>7. more = fields \o <<f>> /\ more \in Seq(Seen)
      BY <3>3, AppendIsConcat
    <3>8. FromOf(buf)[1] = more \o FromOf(buf)[p]
      BY <1>5, <3>4, <3>6, <3>7
    <3>9. IsRead(more, buf, t, k + 1)
      <4>1. Len(fields) = k
        BY <1>6 DEF IsRead
      <4>2. /\ Len(more) = k + 1 /\ more[k + 1] = f
            /\ \A i \in 1 .. k : more[i] = fields[i]
        BY <3>3, <4>1, AppendProperties
      <4>3. t[k + 1] = x
        BY <1>1, <1>10
      <4>4. x.kind = "message" => Len(x.bytes) < Len(buf)
        <5> SUFFICES ASSUME x.kind = "message" PROVE Len(x.bytes) < Len(buf)
          OBVIOUS
        <5>1. Len(x.bytes) < Len(w) /\ Len(x.bytes) \in Nat
          BY <1>3, LenProperties DEF IsNode
        <5>2. q + Len(w) - 1 <= Len(buf)
          BY <2>3 DEF Complete
        <5>3. Len(w) <= Len(buf)
          BY <1>4, <1>7, <5>2
        <5> QED BY <1>4, <5>1, <5>3
      <4> SUFFICES ASSUME NEW i \in 1 .. k + 1
                   PROVE  /\ ~ Malformed(t[i])
                          /\ \E next : more[i] = ShownAs(t[i], next)
                          /\ t[i].kind = "message" => Len(t[i].bytes) < Len(buf)
        BY <4>2 DEF IsRead
      <4>5. CASE i \in 1 .. k
        BY <1>6, <4>2, <4>5 DEF IsRead
      <4>6. CASE i = k + 1
        BY <2>3, <4>2, <4>3, <4>4, <4>6 DEF f
      <4>7. i \in 1 .. k \/ i = k + 1
        BY <1>1
      <4> QED BY <4>5, <4>6, <4>7
    <3>10. p = 1 + Len(Write(t))
      BY <1>4, <2>1
    <3>11. k + 1 \in 0 .. Len(ns) + 1 /\ k + 1 = Len(t)
      BY <1>1, <1>10
    <3>12. ReadUpTo(buf, t, k + 1, more, p)
      BY <1>1, <3>8, <3>9, <3>10, <3>11 DEF ReadUpTo
    <3> QED BY <3>3, <3>7, <3>11, <3>12 DEF t
  <2>4. CASE ~ (~ Malformed(x) /\ Complete(buf, q, w))
    <3>1. ReadField(buf, q) = {}
      BY <2>2, <2>4
    <3>2. Malformed(t[k + 1]) \/ Len(Write(t)) > Len(buf)
      <4>1. CASE Malformed(x)
        BY <1>1, <1>10, <4>1
      <4>2. CASE ~ Complete(buf, q, w)
        BY <1>4, <2>1, <4>2 DEF Complete
      <4> QED BY <2>4, <4>1, <4>2
    <3>3. k < Len(t) /\ k # Len(t)
      BY <1>1, <1>10
    <3>4. ReadUpTo(buf, t, k, fields, q)
      BY <1>5, <1>6, <3>1, <3>2, <3>3 DEF ReadUpTo
    <3> QED BY <1>8, <3>4 DEF t
  <2> QED BY <2>3, <2>4
<1> QED
  BY <1>1, <1>9, <1>10

\* A buffer that begins as the message is written, or ends within it; behind
\* the message is nothing, or a zero.
Holds(buf, nodes) ==
  /\ buf \in Seq(Byte)
  /\ Agrees(buf, 1, Write(nodes))
  /\ Len(Write(nodes)) < Len(buf) => buf[Len(Write(nodes)) + 1] = 0

\* The loop sees the nodes up to the first that is not protobuf or not whole.
LEMMA FieldsFact ==
  ASSUME NEW A, AreNodes(A), NEW nodes \in Seq(A), NEW buf, Holds(buf, nodes)
  PROVE  \E k \in 0 .. Len(nodes) :
           /\ IsRead(Fields(buf), buf, nodes, k)
           /\ k < Len(nodes) /\ Len(Write(nodes)) <= Len(buf) => Malformed(nodes[k + 1])
<1> DEFINE Up(ns) == \E k \in 0 .. Len(ns) : \E fields \in Seq(Seen) : \E q \in Positions(buf) :
                       ReadUpTo(buf, ns, k, fields, q)
           T == {ns \in Seq(A) : Agrees(buf, 1, Write(ns)) => Up(ns)}
<1>1. buf \in Seq(Byte) /\ Len(buf) \in Nat
  BY LenProperties DEF Holds
<1>2. << >> \in T
  <2>1. << >> \in Seq(A) /\ Len(<< >>) = 0 /\ << >> \in Seq(Seen) /\ Write(<< >>) = << >>
    BY WriteFact
  <2>2. 1 \in Positions(buf) /\ FromOf(buf)[1] \in Seq(Seen)
    <3>1. 1 \in Positions(buf)
      BY <1>1 DEF Positions
    <3> QED BY <1>1, <3>1, FieldsTyped
  <2>3. FromOf(buf)[1] = << >> \o FromOf(buf)[1]
    BY <2>2, ConcatEmptySeq
  <2>4. IsRead(<< >>, buf, << >>, 0)
    BY <2>1 DEF IsRead
  <2>5. ReadUpTo(buf, << >>, 0, << >>, 1)
    BY <2>1, <2>3, <2>4 DEF ReadUpTo
  <2>6. 0 \in 0 .. Len(<< >>)
    BY <2>1
  <2> QED BY <2>1, <2>2, <2>5, <2>6
<1>3. ASSUME NEW ns \in Seq(A), NEW x \in A, ns \in T PROVE Append(ns, x) \in T
  <2> SUFFICES ASSUME Agrees(buf, 1, Write(Append(ns, x))) PROVE Up(Append(ns, x))
    BY AppendProperties
  <2>1. Write(Append(ns, x)) = Write(ns) \o WriteNode(x) /\ Write(ns) \in Seq(Byte)
    BY WriteFact
  <2>2. WriteNode(x) \in Seq(Byte)
    BY WriteNodeTyped DEF AreNodes
  <2>3. Agrees(buf, 1, Write(ns))
    BY <1>1, <2>1, <2>2, AgreesParts
  <2>4. Up(ns)
    BY <1>3, <2>3
  <2>5. PICK k \in 0 .. Len(ns), fields \in Seq(Seen), q \in Positions(buf) :
           ReadUpTo(buf, ns, k, fields, q)
    BY <2>4
  <2>6. \E j \in 0 .. Len(ns) + 1 : \E more \in Seq(Seen) : \E p \in Positions(buf) :
           ReadUpTo(buf, Append(ns, x), j, more, p)
    BY <1>1, <2>5, ReadOn
  <2>7. Len(Append(ns, x)) = Len(ns) + 1
    BY AppendProperties
  <2> QED BY <2>6, <2>7
<1> HIDE DEF T
<1>4. nodes \in T
  BY <1>2, <1>3, SeqInduction
<1>5. PICK k \in 0 .. Len(nodes), fields \in Seq(Seen), q \in Positions(buf) :
         ReadUpTo(buf, nodes, k, fields, q)
  BY <1>4 DEF Holds, T
<1>6. Len(nodes) \in Nat /\ Len(Write(nodes)) \in Nat
  BY WriteFact, LenProperties
<1>7. ReadField(buf, q) = {}
  <2>1. CASE k < Len(nodes)
    BY <1>5, <2>1 DEF ReadUpTo
  <2>2. CASE k = Len(nodes)
    <3>1. q = 1 + Len(Write(nodes)) /\ q \in 1 .. Len(buf) + 1
      BY <1>5, <2>2 DEF ReadUpTo, Positions
    <3>2. CASE q = Len(buf) + 1
      BY <1>1, <3>2, ReadEnd
    <3>3. CASE q # Len(buf) + 1
      <4>1. q \in 1 .. Len(buf) /\ Len(Write(nodes)) < Len(buf) /\ q = Len(Write(nodes)) + 1
        BY <1>1, <1>6, <3>1, <3>3
      <4>2. buf[q] = 0
        BY <4>1 DEF Holds
      <4> QED BY <1>1, <4>1, <4>2, ReadZero
    <3> QED BY <3>2, <3>3
  <2> QED BY <1>6, <2>1, <2>2
<1>8. Fields(buf) = fields
  <2>1. FromOf(buf)[q] = << >> /\ Fields(buf) = FromOf(buf)[1]
    BY <1>1, <1>7, FromFact
  <2>2. Fields(buf) = fields \o << >>
    BY <1>5, <2>1 DEF ReadUpTo
  <2> QED BY <2>2, ConcatEmptySeq
<1>9. IsRead(fields, buf, nodes, k)
  BY <1>5 DEF ReadUpTo
<1>10. k < Len(nodes) /\ Len(Write(nodes)) <= Len(buf) => Malformed(nodes[k + 1])
  BY <1>1, <1>5, <1>6 DEF ReadUpTo
<1> QED
  BY <1>8, <1>9, <1>10

-----------------------------------------------------------------------------
(* What is understood of nodes                                             *)

\* What the nodes of one field are, as one more is heard.
LEMMA OfAppend ==
  ASSUME NEW A, NEW h \in Seq(A), NEW x \in A, NEW field
  PROVE  /\ Of(field, h) \in Seq(A) /\ Valid(field, h) \in Seq(A)
         /\ Of(field, Append(h, x)) =
              IF x.number = field.number THEN Append(Of(field, h), x) ELSE Of(field, h)
         /\ Valid(field, Append(h, x)) =
              IF x.number = field.number /\ Fits(x, field.type)
              THEN Append(Valid(field, h), x) ELSE Valid(field, h)
<1> DEFINE N == {n \in A : n.number = field.number}
           V == {n \in A : n.number = field.number /\ Fits(n, field.type)}
<1>1. ASSUME NEW s \in Seq(A)
      PROVE  Of(field, s) = Kept(s, N) /\ Valid(field, s) = Kept(s, V)
  <2> DEFINE R == Range(s)
             NR == {n \in R : n.number = field.number}
             VR == {n \in R : n.number = field.number /\ Fits(n, field.type)}
  <2>1. \A i \in DOMAIN s : s[i] \in A
    BY ElementOfSeq, LenProperties
  <2>2. R \subseteq A
    BY <2>1 DEF Range
  <2>3. s \in Seq(R)
    BY <2>1 DEF Range
  <2>4. (\A n \in R : n \in NR <=> n \in N) /\ (\A n \in R : n \in VR <=> n \in V)
    BY <2>2
  <2>5. Of(field, s) = Kept(s, NR) /\ Valid(field, s) = Kept(s, VR)
    BY DEF Of, Valid
  <2> HIDE DEF R, NR, VR, N, V
  <2>6. Kept(s, NR) = Kept(s, N)
    BY <2>3, <2>4, KeptSame
  <2>7. Kept(s, VR) = Kept(s, V)
    BY <2>3, <2>4, KeptSame
  <2> QED BY <2>5, <2>6, <2>7
<1>2. x \in N <=> x.number = field.number
  OBVIOUS
<1>3. x \in V <=> x.number = field.number /\ Fits(x, field.type)
  OBVIOUS
<1> HIDE DEF N, V
<1>4. Append(h, x) \in Seq(A)
  BY AppendProperties
<1>5. Kept(Append(h, x), N) = IF x \in N THEN Append(Kept(h, N), x) ELSE Kept(h, N)
  BY KeptAppend
<1>6. Kept(Append(h, x), V) = IF x \in V THEN Append(Kept(h, V), x) ELSE Kept(h, V)
  BY KeptAppend
<1>7. Kept(h, N) \in Seq(A) /\ Kept(h, V) \in Seq(A)
  BY KeptTyped
<1> QED
  BY <1>1, <1>2, <1>3, <1>4, <1>5, <1>6, <1>7

\* Nothing is heard at first.
LEMMA OfNothing ==
  ASSUME NEW field
  PROVE  Of(field, << >>) = << >> /\ Valid(field, << >>) = << >>
BY KeptEmpty DEF Of, Valid

\* A field that has no node has no valid one.
LEMMA OfNone ==
  ASSUME NEW A, NEW h \in Seq(A), NEW field, Of(field, h) = << >>
  PROVE  Valid(field, h) = << >>
<1> DEFINE T == {s \in Seq(A) : Valid(field, s) = << >> \/ Of(field, s) # << >>}
<1>1. << >> \in T
  BY OfNothing
<1>2. ASSUME NEW s \in Seq(A), NEW x \in A, s \in T PROVE Append(s, x) \in T
  <2>1. Append(s, x) \in Seq(A) /\ Of(field, s) \in Seq(A)
    BY AppendProperties, OfAppend
  <2>2. CASE x.number = field.number
    <3>1. Of(field, Append(s, x)) = Append(Of(field, s), x)
      BY <2>2, OfAppend
    <3>2. Append(Of(field, s), x) # << >>
      BY <2>1, AppendProperties
    <3> QED BY <2>1, <3>1, <3>2
  <2>3. CASE x.number # field.number
    <3>1. Of(field, Append(s, x)) = Of(field, s) /\ Valid(field, Append(s, x)) = Valid(field, s)
      BY <2>3, OfAppend
    <3> QED BY <1>2, <2>1, <3>1
  <2> QED BY <2>2, <2>3
<1> HIDE DEF T
<1>3. h \in T
  BY <1>1, <1>2, SeqInduction
<1> QED
  BY <1>3 DEF T

\* The values of the valid nodes of a field.
ValuesIn(field, h, meant) ==
  [i \in DOMAIN Valid(field, h) |-> Meaning(Valid(field, h)[i], field.type, meant)]

\* Without a valid node they are none.
LEMMA NoValues ==
  ASSUME NEW field, NEW h, NEW meant, Valid(field, h) = << >>
  PROVE  ValuesIn(field, h, meant) = << >>
BY DEF ValuesIn

\* One more valid node has one more value.
LEMMA ValuesAppend ==
  ASSUME NEW A, NEW h \in Seq(A), NEW x \in A, NEW field, NEW meant
  PROVE  /\ x.number = field.number /\ Fits(x, field.type) =>
              /\ ValuesIn(field, Append(h, x), meant) =
                   Append(ValuesIn(field, h, meant), Meaning(x, field.type, meant))
              /\ Last(ValuesIn(field, Append(h, x), meant)) = Meaning(x, field.type, meant)
         /\ ~ (x.number = field.number /\ Fits(x, field.type)) =>
              ValuesIn(field, Append(h, x), meant) = ValuesIn(field, h, meant)
<1> DEFINE g == [n \in A |-> Meaning(n, field.type, meant)]
           B == {g[n] : n \in A}
<1>1. Maps(g, A, B)
  BY DEF Maps
<1>2. g[x] = Meaning(x, field.type, meant)
  OBVIOUS
<1>3. ASSUME NEW s \in Seq(A) PROVE ValuesIn(field, s, meant) = Mapped(Valid(field, s), g)
  <2> DEFINE v == Valid(field, s)
  <2>1. v \in Seq(A)
    <3>1. s \o << >> = s
      BY ConcatEmptySeq
    <3> QED BY OfAppend
  <2> HIDE DEF v
  <2>2. \A i \in DOMAIN v : v[i] \in A
    BY <2>1, ElementOfSeq, LenProperties
  <2>3. [i \in DOMAIN v |-> Meaning(v[i], field.type, meant)] = Mapped(v, g)
    BY <2>2 DEF Mapped
  <2> QED BY <2>3 DEF v, ValuesIn
<1>4. Append(h, x) \in Seq(A)
  BY AppendProperties
<1> HIDE DEF g, B
<1>5. CASE x.number = field.number /\ Fits(x, field.type)
  <2> DEFINE v == Valid(field, h)
  <2>1. v \in Seq(A) /\ Valid(field, Append(h, x)) = Append(v, x)
    BY <1>5, OfAppend
  <2> HIDE DEF v
  <2>2. Mapped(Append(v, x), g) = Append(Mapped(v, g), g[x])
    BY <1>1, <2>1, MappedAppend
  <2>3. Mapped(v, g) \in Seq(B) /\ g[x] \in B
    BY <1>1, <2>1, MappedTyped DEF Maps
  <2>4. Last(Append(Mapped(v, g), g[x])) = g[x]
    BY <2>3, AppendProperties DEF Last
  <2>5. ValuesIn(field, h, meant) = Mapped(v, g)
    BY <1>3 DEF v
  <2>6. ValuesIn(field, Append(h, x), meant) = Append(Mapped(v, g), g[x])
    BY <1>3, <1>4, <2>1, <2>2
  <2> QED BY <1>2, <1>5, <2>4, <2>5, <2>6
<1>6. CASE ~ (x.number = field.number /\ Fits(x, field.type))
  <2>1. Valid(field, Append(h, x)) = Valid(field, h)
    BY <1>6, OfAppend
  <2>2. ValuesIn(field, Append(h, x), meant) = ValuesIn(field, h, meant)
    BY <2>1 DEF ValuesIn
  <2> QED BY <1>6, <2>2
<1> QED
  BY <1>5, <1>6

\* The value of a field is all of them or the last.
LEMMA ValueFact ==
  ASSUME NEW field, NEW h, NEW meant
  PROVE  Value(field, h, meant) =
           IF field.repeated THEN ValuesIn(field, h, meant) ELSE Last(ValuesIn(field, h, meant))
BY DEF Value, ValuesIn

\* What is understood of nodes that are protobuf.
Told(h, schema, meant) ==
  LET present == {f \in Range(schema) : Present(f, h)}
  IN  [name \in {f.name : f \in present} |->
         Value(CHOOSE f \in present : f.name = name, h, meant)]

PresentIn(schema, h) == {i \in DOMAIN schema : Present(schema[i], h)}

IsTold(object, h, schema, meant) ==
  /\ IsObject(object)
  /\ DOMAIN object = {schema[i].name : i \in PresentIn(schema, h)}
  /\ \A i \in PresentIn(schema, h) : object[schema[i].name] = Value(schema[i], h, meant)

\* Each field that is present is a member, with its value.
LEMMA ToldFact ==
  ASSUME NEW schema \in Descriptors, NEW h, NEW meant
  PROVE  IsTold(Told(h, schema, meant), h, schema, meant)
<1> DEFINE present == {f \in Range(schema) : Present(f, h)}
           names == {f.name : f \in present}
<1>1. Told(h, schema, meant) = [name \in names |-> Value(CHOOSE f \in present : f.name = name, h, meant)]
  BY DEF Told
<1>2. present = {schema[i] : i \in PresentIn(schema, h)}
  BY DEF Range, PresentIn
<1>3. names = {schema[i].name : i \in PresentIn(schema, h)}
  BY <1>2
<1>4. ASSUME NEW i \in PresentIn(schema, h)
      PROVE  (CHOOSE f \in present : f.name = schema[i].name) = schema[i]
  <2>1. schema[i] \in present
    BY <1>2
  <2>2. ASSUME NEW f \in present, f.name = schema[i].name PROVE f = schema[i]
    <3>1. PICK j \in DOMAIN schema : f = schema[j]
      BY DEF Range
    <3>2. i \in DOMAIN schema
      BY DEF PresentIn
    <3>3. j = i
      BY <2>2, <3>1, <3>2, DescriptorsAssumption
    <3> QED BY <3>1, <3>3
  <2> HIDE DEF present
  <2> QED BY <2>1, <2>2
<1> HIDE DEF present, names
<1>5. \A i \in PresentIn(schema, h) : schema[i].name \in names
  BY <1>3
<1> QED
  BY <1>1, <1>3, <1>4, <1>5 DEF IsObject, IsTold

IsPut(put, name, value, object) ==
  /\ IsObject(put)
  /\ DOMAIN put = {name} \cup DOMAIN object
  /\ put[name] = value
  /\ \A n \in DOMAIN object : n # name => put[n] = object[n]

\* The object that one more member makes.
LEMMA OverMember ==
  ASSUME NEW object, NEW name, NEW value
  PROVE  IsPut(Over(Member(name, value), object), name, value, object)
<1> DEFINE m == Member(name, value)
<1>1. DOMAIN m = {name} /\ m[name] = value
  BY DEF Member
<1> HIDE DEF m
<1>2. Over(m, object) = [n \in DOMAIN m \cup DOMAIN object |-> IF n \in DOMAIN m THEN m[n] ELSE object[n]]
  BY DEF Over
<1>3. IsObject(Over(m, object))
  BY <1>2 DEF IsObject
<1> QED
  BY <1>1, <1>2, <1>3 DEF m, IsPut

\* A field is as it was, or another.
SameField(schema, i, h, t, meant) ==
  /\ Present(schema[i], t) <=> Present(schema[i], h)
  /\ Value(schema[i], t, meant) = Value(schema[i], h, meant)

\* If all fields are as they were, nothing else is understood.
LEMMA ToldSame ==
  ASSUME NEW schema \in Descriptors, NEW h, NEW t, NEW meant,
         \A i \in DOMAIN schema : SameField(schema, i, h, t, meant)
  PROVE  Told(t, schema, meant) = Told(h, schema, meant)
<1>1. PresentIn(schema, t) = PresentIn(schema, h)
  BY DEF PresentIn, SameField
<1> DEFINE old == Told(h, schema, meant)
           new == Told(t, schema, meant)
<1>2. IsTold(old, h, schema, meant) /\ IsTold(new, t, schema, meant)
  BY ToldFact
<1> HIDE DEF old, new
<1>3. /\ IsObject(new) /\ DOMAIN new = DOMAIN old
      /\ \A i \in PresentIn(schema, h) : new[schema[i].name] = Value(schema[i], t, meant)
  BY <1>1, <1>2 DEF IsTold
<1>4. ASSUME NEW n \in DOMAIN old PROVE new[n] = old[n]
  <2>1. PICK i \in PresentIn(schema, h) : n = schema[i].name
    BY <1>2 DEF IsTold
  <2>2. Value(schema[i], t, meant) = Value(schema[i], h, meant)
    BY DEF PresentIn, SameField
  <2> QED BY <1>2, <1>3, <2>1, <2>2 DEF IsTold
<1>5. new = old
  BY <1>2, <1>3, <1>4 DEF IsObject, IsTold
<1> QED
  BY <1>5 DEF old, new

\* If all fields but one are, and that is present, its member is put.
LEMMA ToldPut ==
  ASSUME NEW schema \in Descriptors, NEW i \in DOMAIN schema, NEW h, NEW t, NEW meant,
         \A j \in DOMAIN schema : j # i => SameField(schema, j, h, t, meant),
         Present(schema[i], t)
  PROVE  Told(t, schema, meant) =
           Over(Member(schema[i].name, Value(schema[i], t, meant)), Told(h, schema, meant))
<1> DEFINE old == Told(h, schema, meant)
           new == Told(t, schema, meant)
           name == schema[i].name
           value == Value(schema[i], t, meant)
           put == Over(Member(name, value), old)
<1>1. \A j \in DOMAIN schema : schema[j].name = schema[i].name => j = i
  BY DescriptorsAssumption
<1>2. IsTold(old, h, schema, meant) /\ IsTold(new, t, schema, meant)
  BY ToldFact
<1>3. \A j \in DOMAIN schema : j # i =>
         /\ j \in PresentIn(schema, t) <=> j \in PresentIn(schema, h)
         /\ Value(schema[j], t, meant) = Value(schema[j], h, meant)
  BY DEF PresentIn, SameField
<1>4. i \in PresentIn(schema, t) /\ PresentIn(schema, t) \subseteq DOMAIN schema
      /\ PresentIn(schema, h) \subseteq DOMAIN schema
  BY DEF PresentIn
<1> HIDE DEF old, new
<1>5. IsPut(put, name, value, old)
  BY OverMember
<1> HIDE DEF put
<1>6. /\ IsObject(new) /\ DOMAIN new = {schema[j].name : j \in PresentIn(schema, t)}
      /\ \A j \in PresentIn(schema, t) : new[schema[j].name] = Value(schema[j], t, meant)
  BY <1>2 DEF IsTold
<1>7. /\ DOMAIN old = {schema[j].name : j \in PresentIn(schema, h)}
       /\ \A j \in PresentIn(schema, h) : old[schema[j].name] = Value(schema[j], h, meant)
  BY <1>2 DEF IsTold
<1>8. /\ IsObject(put) /\ DOMAIN put = {name} \cup DOMAIN old
       /\ put[name] = value /\ \A n \in DOMAIN old : n # name => put[n] = old[n]
  BY <1>5 DEF IsPut
<1>9. DOMAIN new = DOMAIN put
  <2>1. ASSUME NEW n \in DOMAIN new PROVE n \in DOMAIN put
    <3>1. PICK j \in PresentIn(schema, t) : n = schema[j].name
      BY <1>6
    <3>2. CASE j = i
      BY <1>8, <3>1, <3>2
    <3>3. CASE j # i
      BY <1>7, <1>3, <1>4, <1>8, <3>1, <3>3
    <3> QED BY <3>2, <3>3
  <2>2. ASSUME NEW n \in DOMAIN put PROVE n \in DOMAIN new
    <3>1. CASE n = name
      BY <1>6, <1>4, <3>1
    <3>2. CASE n # name
      <4>1. PICK j \in PresentIn(schema, h) : n = schema[j].name
        BY <1>7, <1>8, <3>2
      <4>2. j # i /\ j \in DOMAIN schema
        BY <1>4, <3>2, <4>1
      <4> QED BY <1>6, <1>3, <4>1, <4>2
    <3> QED BY <3>1, <3>2
  <2> QED BY <2>1, <2>2
<1>10. ASSUME NEW n \in DOMAIN new PROVE new[n] = put[n]
  <2>1. PICK j \in PresentIn(schema, t) : n = schema[j].name
    BY <1>6
  <2>2. CASE j = i
    BY <1>6, <1>8, <2>1, <2>2
  <2>3. CASE j # i
    <3>1. j \in DOMAIN schema /\ j \in PresentIn(schema, h)
      BY <1>3, <1>4, <2>3
    <3>2. n \in DOMAIN old /\ n # name /\ old[n] = Value(schema[j], h, meant)
      BY <1>1, <1>7, <2>1, <2>3, <3>1
    <3>3. put[n] = old[n]
      BY <1>8, <3>2
    <3>4. new[n] = Value(schema[j], t, meant)
      BY <1>6, <2>1
    <3> QED BY <1>3, <2>3, <3>1, <3>2, <3>3, <3>4
  <2> QED BY <2>2, <2>3
<1>11. new = put
  BY <1>6, <1>8, <1>9, <1>10 DEF IsObject
<1> QED
  BY <1>11 DEF new, put, old

-----------------------------------------------------------------------------
(* Parsing and storing what is understood                                  *)

\* The nested readings agree: what the reader makes of the bytes of a node is
\* what the node means; and a node is no string where its field is a message,
\* nor the other way round.
AgreesOn(x, type, read, meant) ==
  /\ x.kind = "message" /\ type.kind = "message" =>
       read[<<x.bytes, type.of>>] = meant[<<x.nodes, type.of>>]
  /\ {x.kind, type.kind} # {"string", "message"}

\* A node that fits its field is parsed into what it means, another into nothing.
LEMMA ParseFact ==
  ASSUME NEW x, IsNode(x), ~ Malformed(x), NEW next, NEW type, NEW read, NEW meant,
         AgreesOn(x, type, read, meant)
  PROVE  /\ Fits(x, type) => Parse(ShownAs(x, next), type, read) = {Meaning(x, type, meant)}
         /\ ~ Fits(x, type) => Parse(ShownAs(x, next), type, read) = {}
<1> DEFINE f == ShownAs(x, next)
           kind == type.kind
<1>1. f.wire = WireOf(x.kind) /\ f.data = DataOf(x)
  BY DEF ShownAs
<1>2. x.kind \in NodeKinds /\ x.int \in Nat /\ x.bytes \in Seq(Byte)
  BY DEF IsNode
<1>3. /\ f.wire = 0 <=> x.kind = "varint"
      /\ f.wire = 2 <=> x.kind \in {"string", "message"}
      /\ f.wire = 5 <=> x.kind = "fixed32"
  BY <1>1, <1>2, WireFact
<1>4. /\ x.kind = "varint" => f.data = x.int
      /\ x.kind # "varint" => f.data = x.bytes
  BY <1>1 DEF DataOf
<1> HIDE DEF f
<1>5. CASE kind = "int"
  <2>1. Fits(x, type) <=> f.wire = 0
    BY <1>3, <1>5 DEF Fits
  <2>2. CASE f.wire = 0
    <3>1. Parse(f, type, read) = {Signed(f.data)}
      BY <1>5, <2>2, Zenon DEF Parse
    <3>2. Meaning(x, type, meant) = IF x.int < Limit \div 2 THEN x.int ELSE x.int - Limit
      BY <1>5 DEF Meaning
    <3>3. f.data = x.int
      BY <1>3, <1>4, <2>2
    <3>4. Signed(x.int) = IF x.int < Limit \div 2 THEN x.int ELSE x.int - Limit
      <4>1. PICK half \in Nat : half = Limit \div 2 /\ Limit = 2 * half
        BY LimitFact
      <4>2. 2 * x.int >= 2 * half <=> ~ (x.int < half)
        BY <1>2
      <4> QED BY <4>1, <4>2 DEF Signed
    <3> QED BY <2>1, <2>2, <3>1, <3>2, <3>3, <3>4 DEF f
  <2>3. CASE f.wire # 0
    <3>1. Parse(f, type, read) = {}
      <4>1. ~ (kind = "int" /\ f.wire = 0) /\ kind # "bool" /\ kind # "string" /\ kind # "message"
            /\ kind # "float"
        BY <1>5, <2>3
      <4> QED BY <4>1, Zenon DEF Parse
    <3> QED BY <2>1, <2>3, <3>1 DEF f
  <2> QED BY <2>2, <2>3
<1>6. CASE kind = "bool"
  <2>1. Fits(x, type) <=> f.wire = 0
    BY <1>3, <1>6 DEF Fits
  <2>2. CASE f.wire = 0
    <3>1. Parse(f, type, read) = {f.data = 1}
      <4>1. kind = "bool" /\ f.wire = 0 /\ kind # "int" /\ kind # "string" /\ kind # "message"
            /\ kind # "float"
        BY <1>6, <2>2
      <4> QED BY <4>1, Zenon DEF Parse
    <3>2. Meaning(x, type, meant) = (x.int = 1)
      <4>1. kind = "bool" /\ kind # "int" /\ kind # "string" /\ kind # "message" /\ kind # "float"
        BY <1>6
      <4> QED BY <4>1, Zenon DEF Meaning
    <3>3. f.data = x.int
      BY <1>3, <1>4, <2>2
    <3>4. Parse(f, type, read) = {Meaning(x, type, meant)}
      BY <3>1, <3>2, <3>3, Zenon
    <3> QED BY <2>1, <2>2, <3>4 DEF f
  <2>3. CASE f.wire # 0
    <3>1. Parse(f, type, read) = {}
      <4>1. ~ (kind = "bool" /\ f.wire = 0) /\ kind # "int" /\ kind # "string" /\ kind # "message"
            /\ kind # "float"
        BY <1>6, <2>3
      <4> QED BY <4>1, Zenon DEF Parse
    <3> QED BY <2>1, <2>3, <3>1 DEF f
  <2> QED BY <2>2, <2>3
<1>7. CASE kind = "string"
  <2>1. Fits(x, type) <=> f.wire = 2
    <3>1. {x.kind, kind} # {"string", "message"}
      BY DEF AgreesOn
    <3>2. x.kind # "message"
      BY <1>7, <3>1
    <3> QED BY <1>3, <1>7, <3>2 DEF Fits
  <2>2. CASE f.wire = 2
    <3>1. Parse(f, type, read) = {[i \in DOMAIN f.data |-> Get(Words, f.data[i], Lossy)]}
      <4>1. kind = "string" /\ f.wire = 2 /\ kind # "int" /\ kind # "bool" /\ kind # "message"
            /\ kind # "float"
        BY <1>7, <2>2
      <4> QED BY <4>1, Zenon DEF Parse
    <3>2. Meaning(x, type, meant) = [i \in DOMAIN x.bytes |-> Get(Words, x.bytes[i], Lossy)]
      <4>1. kind = "string" /\ kind # "int" /\ kind # "bool" /\ kind # "message" /\ kind # "float"
        BY <1>7
      <4> QED BY <4>1, Zenon DEF Meaning
    <3>3. f.data = x.bytes
      BY <1>3, <1>4, <2>2
    <3> QED BY <2>1, <2>2, <3>1, <3>2, <3>3 DEF f
  <2>3. CASE f.wire # 2
    <3>1. Parse(f, type, read) = {}
      <4>1. ~ (kind = "string" /\ f.wire = 2) /\ kind # "int" /\ kind # "bool" /\ kind # "message"
            /\ kind # "float"
        BY <1>7, <2>3
      <4> QED BY <4>1, Zenon DEF Parse
    <3> QED BY <2>1, <2>3, <3>1 DEF f
  <2> QED BY <2>2, <2>3
<1>8. CASE kind = "message"
  <2>1. Fits(x, type) <=> f.wire = 2
    <3>1. {x.kind, kind} # {"string", "message"}
      BY DEF AgreesOn
    <3>2. x.kind # "string"
      BY <1>8, <3>1
    <3> QED BY <1>3, <1>8, <3>2 DEF Fits
  <2>2. CASE f.wire = 2
    <3>1. Parse(f, type, read) = {read[<<f.data, type.of>>]}
      <4>1. kind = "message" /\ f.wire = 2 /\ kind # "int" /\ kind # "bool" /\ kind # "string"
            /\ kind # "float"
        BY <1>8, <2>2
      <4> QED BY <4>1, Zenon DEF Parse
    <3>2. Meaning(x, type, meant) = meant[<<x.nodes, type.of>>]
      <4>1. kind = "message" /\ kind # "int" /\ kind # "bool" /\ kind # "string" /\ kind # "float"
        BY <1>8
      <4> QED BY <4>1, Zenon DEF Meaning
    <3>3. f.data = x.bytes
      BY <1>3, <1>4, <2>2
    <3>4. x.kind = "message"
      BY <1>8, <2>1, <2>2 DEF Fits
    <3>5. read[<<x.bytes, type.of>>] = meant[<<x.nodes, type.of>>]
      BY <1>8, <3>4 DEF AgreesOn
    <3> QED BY <2>1, <2>2, <3>1, <3>2, <3>3, <3>5 DEF f
  <2>3. CASE f.wire # 2
    <3>1. Parse(f, type, read) = {}
      <4>1. ~ (kind = "message" /\ f.wire = 2) /\ kind # "int" /\ kind # "bool" /\ kind # "string"
            /\ kind # "float"
        BY <1>8, <2>3
      <4> QED BY <4>1, Zenon DEF Parse
    <3> QED BY <2>1, <2>3, <3>1 DEF f
  <2> QED BY <2>2, <2>3
<1>9. CASE kind = "float"
  <2>1. Fits(x, type) <=> f.wire = 5
    BY <1>3, <1>9 DEF Fits
  <2>2. CASE f.wire = 5
    <3>1. Parse(f, type, read) = {IF NaNByte \in Range(f.data) THEN Null ELSE f.data[1]}
      <4>1. kind = "float" /\ f.wire = 5 /\ kind # "int" /\ kind # "bool" /\ kind # "string"
            /\ kind # "message"
        BY <1>9, <2>2
      <4> QED BY <4>1, Zenon DEF Parse
    <3>2. Meaning(x, type, meant) = IF NaNByte \in Range(x.bytes) THEN Null ELSE Head(x.bytes)
      <4>1. kind = "float" /\ kind # "int" /\ kind # "bool" /\ kind # "string" /\ kind # "message"
        BY <1>9
      <4> QED BY <4>1, Zenon DEF Meaning
    <3>3. f.data = x.bytes
      BY <1>3, <1>4, <2>2
    <3>4. Head(x.bytes) = x.bytes[1]
      <4>1. x.kind = "fixed32"
        BY <1>9, <2>1, <2>2 DEF Fits
      <4>2. Len(x.bytes) >= 1
        BY <4>1, WireAssumption DEF IsNode
      <4>3. PICK b \in Seq(Byte) : b = x.bytes /\ Len(b) >= 1
        BY <1>2, <4>2
      <4>4. b # << >>
        BY <4>3
      <4>5. Head(b) = b[1]
        BY <4>4
      <4> QED BY <4>3, <4>5
    <3> QED BY <2>1, <2>2, <3>1, <3>2, <3>3, <3>4 DEF f
  <2>3. CASE f.wire # 5
    <3>1. Parse(f, type, read) = {}
      <4>1. ~ (kind = "float" /\ f.wire = 5) /\ kind # "int" /\ kind # "bool" /\ kind # "string"
            /\ kind # "message"
        BY <1>9, <2>3
      <4> QED BY <4>1, Zenon DEF Parse
    <3> QED BY <2>1, <2>3, <3>1 DEF f
  <2> QED BY <2>2, <2>3
<1>10. CASE kind \notin {"int", "bool", "string", "message", "float"}
  <2>1. ~ Fits(x, type)
    BY <1>10 DEF Fits
  <2>2. Parse(f, type, read) = {}
    <3>1. kind # "int" /\ kind # "bool" /\ kind # "string" /\ kind # "message" /\ kind # "float"
      BY <1>10
    <3> QED BY <3>1, Zenon DEF Parse
  <2> QED BY <2>1, <2>2 DEF f
<1> QED
  BY <1>5, <1>6, <1>7, <1>8, <1>9, <1>10

\* A field another node is for stays as it is.
LEMMA OtherField ==
  ASSUME NEW A, NEW h \in Seq(A), NEW x \in A, NEW schema, NEW i \in DOMAIN schema, NEW meant,
         schema[i].number # x.number
  PROVE  SameField(schema, i, h, Append(h, x), meant)
<1>1. Of(schema[i], Append(h, x)) = Of(schema[i], h) /\ Valid(schema[i], Append(h, x)) = Valid(schema[i], h)
  BY OfAppend
<1> QED
  BY <1>1 DEF SameField, Present, Value

\* The node agrees with every field that it may be for.
AgreesWith(x, schema, read, meant) ==
  \A i \in DOMAIN schema : schema[i].number = x.number => AgreesOn(x, schema[i].type, read, meant)

\* One turn of the loop makes of what was understood what is understood with
\* one more node.
LEMMA StoreFact ==
  ASSUME NEW schema \in Descriptors, NEW A, NEW h \in Seq(A), NEW x \in A, NEW next,
         NEW read, NEW meant, IsNode(x), ~ Malformed(x), AgreesWith(x, schema, read, meant)
  PROVE  Store(Told(h, schema, meant), ShownAs(x, next), schema, read) = Told(Append(h, x), schema, meant)
<1> DEFINE f == ShownAs(x, next)
           known == {i \in DOMAIN schema : schema[i].number = f.number}
           old == Told(h, schema, meant)
           t == Append(h, x)
<1>1. f.number = x.number
  BY DEF ShownAs
<1> HIDE DEF f
<1>2. CASE known = {}
  <2>1. Store(old, f, schema, read) = old
    BY <1>2 DEF Store
  <2>2. \A i \in DOMAIN schema : SameField(schema, i, h, t, meant)
    BY <1>1, <1>2, OtherField
  <2> HIDE DEF t
  <2>3. Told(t, schema, meant) = old
    BY <2>2, ToldSame
  <2> QED BY <2>1, <2>3 DEF f, t
<1>3. CASE known # {}
  <2> DEFINE i == Min(known)
             field == schema[i]
             value == Parse(f, field.type, read)
  <2>1. known \in SUBSET Nat
    BY DescriptorsAssumption
  <2>2. i \in known
    BY <1>3, <2>1, MinFact
  <2>3. i \in DOMAIN schema /\ field.number = x.number
    BY <1>1, <2>2
  <2>4. Store(old, f, schema, read) = Insert(old, field, value)
    BY <1>3 DEF Store
  <2> HIDE DEF i, known
  <2>5. \A j \in DOMAIN schema : j # i => schema[j].number # x.number
    BY <2>3, DescriptorsAssumption
  <2>6. \A j \in DOMAIN schema : j # i => SameField(schema, j, h, t, meant)
    BY <2>5, OtherField
  <2>7. AgreesOn(x, field.type, read, meant)
    BY <2>3 DEF AgreesWith
  <2>8. /\ Fits(x, field.type) => value = {Meaning(x, field.type, meant)}
        /\ ~ Fits(x, field.type) => value = {}
    <3> HIDE DEF field
    <3> QED BY <2>7, ParseFact DEF f
  <2> HIDE DEF value
  <2>9. IsTold(old, h, schema, meant)
    BY ToldFact
  <2>10. /\ DOMAIN old = {schema[j].name : j \in PresentIn(schema, h)}
         /\ i \in PresentIn(schema, h) => old[field.name] = Value(field, h, meant)
    BY <2>9 DEF IsTold
  <2>11. field.name \in DOMAIN old <=> i \in PresentIn(schema, h)
    <3>1. \A j \in PresentIn(schema, h) : j \in DOMAIN schema
      BY DEF PresentIn
    <3> QED BY <2>3, <2>10, <3>1, DescriptorsAssumption
  <2>12. i \in PresentIn(schema, h) <=> Present(field, h)
    BY <2>3 DEF PresentIn
  <2>13. /\ Of(field, t) = Append(Of(field, h), x)
         /\ Of(field, h) \in Seq(A) /\ Valid(field, h) \in Seq(A)
         /\ Valid(field, t) = IF Fits(x, field.type) THEN Append(Valid(field, h), x) ELSE Valid(field, h)
    <3> HIDE DEF field
    <3>1. Of(field, h) \in Seq(A) /\ Valid(field, h) \in Seq(A)
      BY OfAppend
    <3>2. Of(field, Append(h, x)) = Append(Of(field, h), x)
      BY <2>3, OfAppend
    <3>3. Valid(field, Append(h, x)) =
            IF x.number = field.number /\ Fits(x, field.type)
            THEN Append(Valid(field, h), x) ELSE Valid(field, h)
      <4>1. CASE x.number = field.number /\ Fits(x, field.type)
        BY <4>1, OfAppend
      <4>2. CASE ~ (x.number = field.number /\ Fits(x, field.type))
        BY <4>2, OfAppend
      <4> QED BY <4>1, <4>2
    <3> QED BY <2>3, <3>1, <3>2, <3>3
  <2>14. /\ Fits(x, field.type) =>
              /\ ValuesIn(field, t, meant) =
                   Append(ValuesIn(field, h, meant), Meaning(x, field.type, meant))
              /\ Last(ValuesIn(field, t, meant)) = Meaning(x, field.type, meant)
         /\ ~ Fits(x, field.type) => ValuesIn(field, t, meant) = ValuesIn(field, h, meant)
    BY <2>3, ValuesAppend
  <2> DEFINE new == Told(t, schema, meant)
  <2>15. Present(field, t) => new = Over(Member(field.name, Value(field, t, meant)), old)
    <3> HIDE DEF t
    <3> QED BY <2>3, <2>6, ToldPut
  <2> HIDE DEF old, new, t
  <2>16. CASE field.repeated
    <3>1. Present(field, t)
      <4>1. Append(Of(field, h), x) # << >>
        BY <2>13, AppendProperties
      <4> QED BY <2>13, <2>16, <4>1 DEF Present
    <3>2. Value(field, t, meant) = ValuesIn(field, t, meant)
      BY <2>16, ValueFact
    <3>3. Get(old, field.name, << >>) = ValuesIn(field, h, meant)
      <4>1. CASE Present(field, h)
        <5>1. field.name \in DOMAIN old /\ old[field.name] = Value(field, h, meant)
          BY <2>10, <2>11, <2>12, <4>1
        <5>2. Value(field, h, meant) = ValuesIn(field, h, meant)
          BY <2>16, ValueFact
        <5> QED BY <5>1, <5>2 DEF Get
      <4>2. CASE ~ Present(field, h)
        <5>1. field.name \notin DOMAIN old
          BY <2>11, <2>12, <4>2
        <5>2. Of(field, h) = << >>
          BY <2>16, <4>2 DEF Present
        <5>3. ValuesIn(field, h, meant) = << >>
          BY <5>2, OfNone, NoValues
        <5> QED BY <5>1, <5>3 DEF Get
      <4> QED BY <4>1, <4>2
    <3>4. Insert(old, field, value) =
            Over(Member(field.name, IF value = {} THEN ValuesIn(field, h, meant)
                                    ELSE Append(ValuesIn(field, h, meant), Some(value))), old)
      BY <2>16, <3>3 DEF Insert
    <3>5. (IF value = {} THEN ValuesIn(field, h, meant)
           ELSE Append(ValuesIn(field, h, meant), Some(value))) = ValuesIn(field, t, meant)
      <4>1. CASE Fits(x, field.type)
        <5>1. value = {Meaning(x, field.type, meant)}
          BY <2>8, <4>1
        <5>2. value # {} /\ Some(value) = Meaning(x, field.type, meant)
          BY <5>1 DEF Some
        <5> QED BY <2>14, <4>1, <5>2
      <4>2. CASE ~ Fits(x, field.type)
        <5>1. value = {}
          BY <2>8, <4>2
        <5> QED BY <2>14, <4>2, <5>1
      <4> QED BY <4>1, <4>2
    <3> QED BY <2>4, <2>15, <3>1, <3>2, <3>4, <3>5 DEF f, old, t, new
  <2>17. CASE ~ field.repeated /\ Fits(x, field.type)
    <3>1. value = {Meaning(x, field.type, meant)}
      BY <2>8, <2>17
    <3>2. value # {} /\ Some(value) = Meaning(x, field.type, meant)
      BY <3>1 DEF Some
    <3>3. Insert(old, field, value) = Over(Member(field.name, Meaning(x, field.type, meant)), old)
      BY <2>17, <3>2 DEF Insert
    <3>4. Present(field, t)
      <4>1. Append(Valid(field, h), x) # << >>
        BY <2>13, AppendProperties
      <4> QED BY <2>13, <2>17, <4>1 DEF Present
    <3>5. Value(field, t, meant) = Meaning(x, field.type, meant)
      BY <2>14, <2>17, ValueFact
    <3> QED BY <2>4, <2>15, <3>3, <3>4, <3>5 DEF f, old, t, new
  <2>18. CASE ~ field.repeated /\ ~ Fits(x, field.type)
    <3>1. value = {}
      BY <2>8, <2>18
    <3>2. Insert(old, field, value) = old
      BY <2>18, <3>1 DEF Insert
    <3>3. SameField(schema, i, h, t, meant)
      <4>1. Valid(field, t) = Valid(field, h)
        BY <2>13, <2>18
      <4>2. Present(field, t) <=> Present(field, h)
        BY <2>18, <4>1 DEF Present
      <4>3. Value(field, t, meant) = Value(field, h, meant)
        BY <4>1 DEF Value
      <4> QED BY <4>2, <4>3 DEF SameField
    <3>4. \A j \in DOMAIN schema : SameField(schema, j, h, t, meant)
      BY <2>6, <3>3
    <3>5. new = old
      BY <3>4, ToldSame DEF new, old
    <3> QED BY <2>4, <3>2, <3>5 DEF f, old, t, new
  <2> QED BY <2>16, <2>17, <2>18
<1> QED
  BY <1>2, <1>3

-----------------------------------------------------------------------------
(* The loop understands what it sees                                       *)

\* The first nodes of a message, one by one.
LEMMA PrefixFact ==
  ASSUME NEW A, NEW ns \in Seq(A)
  PROVE  /\ SubSeq(ns, 1, 0) = << >>
         /\ SubSeq(ns, 1, Len(ns)) = ns
         /\ \A n \in 0 .. Len(ns) : SubSeq(ns, 1, n) \in Seq(A)
         /\ \A n \in 0 .. Len(ns) : n + 1 <= Len(ns) =>
              ns[n + 1] \in A /\ SubSeq(ns, 1, n + 1) = Append(SubSeq(ns, 1, n), ns[n + 1])
<1>1. Len(ns) \in Nat /\ \A i \in 1 .. Len(ns) : ns[i] \in A
  BY LenProperties, ElementOfSeq
<1>2. SubSeq(ns, 1, 0) = << >>
  BY SubSeqEmpty
<1>3. SubSeq(ns, 1, Len(ns)) = ns
  BY SubSeqFull
<1>4. ASSUME NEW n \in 0 .. Len(ns) PROVE SubSeq(ns, 1, n) \in Seq(A)
  <2>1. n \in Int /\ \A i \in 1 .. n : ns[i] \in A
    BY <1>1
  <2> QED BY <2>1, SubSeqProperties
<1>5. ASSUME NEW n \in 0 .. Len(ns), n + 1 <= Len(ns)
      PROVE  ns[n + 1] \in A /\ SubSeq(ns, 1, n + 1) = Append(SubSeq(ns, 1, n), ns[n + 1])
  <2>1. n + 1 \in 1 .. Len(ns) /\ 1 \in 1 .. Len(ns) /\ (n + 1) - 1 = n
    BY <1>1, <1>5
  <2>2. SubSeq(ns, 1, n + 1) = SubSeq(ns, 1, (n + 1) - 1) \o <<ns[n + 1]>>
    BY <2>1, SubSeqRecursiveSecond
  <2>3. SubSeq(ns, 1, n) \in Seq(A) /\ ns[n + 1] \in A
    BY <1>1, <1>4, <2>1
  <2>4. Append(SubSeq(ns, 1, n), ns[n + 1]) = SubSeq(ns, 1, n) \o <<ns[n + 1]>>
    BY <2>3, AppendIsConcat
  <2> QED BY <2>1, <2>2, <2>3, <2>4
<1> QED
  BY <1>2, <1>3, <1>4, <1>5

\* Of nothing nothing is understood.
LEMMA ToldNothing ==
  ASSUME NEW schema \in Descriptors, NEW meant
  PROVE  Told(<< >>, schema, meant) = Empty
<1>1. \A i \in DOMAIN schema : ~ Present(schema[i], << >>)
  BY OfNothing DEF Present
<1>2. PresentIn(schema, << >>) = {}
  BY <1>1 DEF PresentIn
<1> DEFINE t == Told(<< >>, schema, meant)
<1>3. IsTold(t, << >>, schema, meant)
  BY ToldFact
<1> HIDE DEF t
<1>4. IsObject(t) /\ DOMAIN t = {}
  BY <1>2, <1>3 DEF IsTold
<1>5. t = Empty
  BY <1>4 DEF IsObject, Empty
<1> QED
  BY <1>5 DEF t

\* The loop understands the nodes that it sees.
LEMMA LoopTold ==
  ASSUME NEW A, AreNodes(A), NEW nodes \in Seq(A), NEW schema \in Descriptors,
         NEW buf \in Seq(Byte), NEW k \in 0 .. Len(nodes), IsRead(Fields(buf), buf, nodes, k),
         NEW read, NEW meant, \A i \in 1 .. k : AgreesWith(nodes[i], schema, read, meant)
  PROVE  Loop(buf, schema, read) = Told(SubSeq(nodes, 1, k), schema, meant)
<1> DEFINE stored == StoredOf(buf, schema, read)
           fields == Fields(buf)
           T == {n \in Nat : n <= k => stored[n] = Told(SubSeq(nodes, 1, n), schema, meant)}
<1>1. Len(nodes) \in Nat
  BY LenProperties
<1>2. /\ Len(fields) = k
      /\ \A i \in 1 .. k : ~ Malformed(nodes[i]) /\ \E next : fields[i] = ShownAs(nodes[i], next)
  BY DEF IsRead
<1>3. /\ stored[0] = Empty
      /\ \A n \in 1 .. k : stored[n] = Store(stored[n - 1], fields[n], schema, read)
      /\ Loop(buf, schema, read) = stored[k]
  <2>1. /\ stored[0] = Empty
        /\ \A n \in 1 .. Len(fields) : stored[n] = Store(stored[n - 1], fields[n], schema, read)
        /\ Loop(buf, schema, read) = stored[Len(fields)]
    BY LoopFact
  <2> HIDE DEF stored, fields
  <2> QED BY <1>2, <2>1
<1> HIDE DEF stored, fields
<1>4. 0 \in T
  <2>1. SubSeq(nodes, 1, 0) = << >>
    BY PrefixFact
  <2>2. Told(<< >>, schema, meant) = Empty
    BY ToldNothing
  <2> QED BY <1>3, <2>1, <2>2
<1>5. ASSUME NEW n \in Nat, n \in T PROVE n + 1 \in T
  <2> SUFFICES ASSUME n + 1 <= k
               PROVE  stored[n + 1] = Told(SubSeq(nodes, 1, n + 1), schema, meant)
    OBVIOUS
  <2> DEFINE x == nodes[n + 1]
             h == SubSeq(nodes, 1, n)
  <2>1. n \in 0 .. Len(nodes) /\ n + 1 <= Len(nodes) /\ n + 1 \in 1 .. k /\ (n + 1) - 1 = n
    BY <1>1
  <2>2. h \in Seq(A)
    BY <2>1, PrefixFact
  <2>3. x \in A /\ SubSeq(nodes, 1, n + 1) = Append(h, x)
    BY <2>1, PrefixFact
  <2>4. stored[n + 1] = Store(stored[n], fields[n + 1], schema, read)
    BY <1>3, <2>1
  <2>5. stored[n] = Told(h, schema, meant)
    BY <1>5, <2>1
  <2>6. PICK next : fields[n + 1] = ShownAs(x, next)
    BY <1>2, <2>1
  <2>7. IsNode(x) /\ ~ Malformed(x) /\ AgreesWith(x, schema, read, meant)
    BY <1>2, <2>1, <2>3 DEF AreNodes
  <2> HIDE DEF x, h
  <2>8. Store(Told(h, schema, meant), ShownAs(x, next), schema, read) = Told(Append(h, x), schema, meant)
    BY <2>2, <2>3, <2>7, StoreFact
  <2> QED BY <2>3, <2>4, <2>5, <2>6, <2>8
<1>6. \A n \in Nat : n \in T
  <2> HIDE DEF T
  <2> QED BY <1>4, <1>5, Induction
<1>7. k \in Nat /\ k <= k
  BY <1>1
<1> QED
  BY <1>3, <1>6, <1>7

\* What is heard of a message is all up to the first node that is no protobuf.
LEMMA HeardFact ==
  ASSUME NEW A, NEW nodes \in Seq(A), NEW k \in 0 .. Len(nodes),
         \A i \in 1 .. k : ~ Malformed(nodes[i])
  PROVE  /\ Heard(SubSeq(nodes, 1, k)) = SubSeq(nodes, 1, k)
         /\ k = Len(nodes) \/ Malformed(nodes[k + 1]) => Heard(nodes) = SubSeq(nodes, 1, k)
<1> DEFINE h == SubSeq(nodes, 1, k)
<1>1. Len(nodes) \in Nat /\ DOMAIN nodes = 1 .. Len(nodes) /\ \A i \in 1 .. Len(nodes) : nodes[i] \in A
  BY LenProperties, ElementOfSeq
<1>2. h \in Seq(A) /\ Len(h) = k /\ \A i \in 1 .. k : h[i] = nodes[i]
  <2>1. k \in Int /\ \A i \in 1 .. k : nodes[i] \in A
    BY <1>1
  <2>2. /\ h \in Seq(A) /\ Len(h) = (IF 1 <= k THEN k - 1 + 1 ELSE 0)
        /\ \A i \in 1 .. k - 1 + 1 : h[i] = nodes[1 + i - 1]
    BY <2>1, SubSeqProperties
  <2>3. k - 1 + 1 = k /\ (1 <= k \/ k = 0) /\ \A i \in 1 .. k : 1 + i - 1 = i
    BY <1>1
  <2> QED BY <2>2, <2>3
<1> HIDE DEF h
<1>3. DOMAIN h = 1 .. k
  BY <1>2, LenProperties
<1>4. {i \in DOMAIN h : Malformed(h[i])} = {}
  BY <1>2, <1>3
<1>5. Heard(h) = h
  BY <1>4 DEF Heard
<1>6. CASE k = Len(nodes)
  <2>1. {i \in DOMAIN nodes : Malformed(nodes[i])} = {}
    BY <1>1, <1>6
  <2>2. Heard(nodes) = nodes
    BY <2>1 DEF Heard
  <2>3. h = nodes
    BY <1>6, PrefixFact DEF h
  <2> QED BY <1>5, <2>2, <2>3 DEF h
<1>7. CASE k # Len(nodes) /\ Malformed(nodes[k + 1])
  <2> DEFINE bad == {i \in DOMAIN nodes : Malformed(nodes[i])}
  <2>1. k + 1 \in DOMAIN nodes
    <3>1. PICK m \in Nat : m = Len(nodes)
      BY <1>1
    <3>2. k \in 0 .. m /\ k # m
      BY <1>7, <3>1
    <3>3. k + 1 \in 1 .. m
      BY <3>1, <3>2
    <3> QED BY <1>1, <3>1, <3>3
  <2>2. k + 1 \in bad
    BY <1>7, <2>1
  <2>3. bad \in SUBSET Nat
    BY <1>1
  <2>4. \A i \in bad : i >= k + 1
    <3> SUFFICES ASSUME NEW i \in bad, ~ i >= k + 1 PROVE FALSE
      OBVIOUS
    <3>1. i \in 1 .. k
      BY <1>1
    <3> QED BY <3>1
  <2>5. Heard(nodes) = IF bad = {} THEN nodes ELSE SubSeq(nodes, 1, Min(bad) - 1)
    BY DEF Heard
  <2> HIDE DEF bad
  <2>6. Min(bad) \in bad /\ Min(bad) <= k + 1 /\ bad # {}
    BY <2>2, <2>3, MinFact
  <2>7. Min(bad) = k + 1
    <3>1. PICK m : m = Min(bad)
      OBVIOUS
    <3>2. m \in Nat /\ m <= k + 1 /\ m >= k + 1 /\ k \in Nat
      <4>1. m \in bad /\ m <= k + 1
        BY <2>6, <3>1
      <4>2. m \in Nat /\ m >= k + 1
        BY <2>3, <2>4, <4>1
      <4> QED BY <1>1, <4>1, <4>2
    <3>3. m = k + 1
      BY <3>2
    <3> QED BY <3>1, <3>3
  <2>8. Min(bad) - 1 = k
    BY <2>7
  <2> QED BY <1>5, <2>5, <2>6, <2>8 DEF h
<1>8. CASE k # Len(nodes) /\ ~ Malformed(nodes[k + 1])
  BY <1>5, <1>8 DEF h
<1> QED
  BY <1>6, <1>7, <1>8

\* A message that has nodes has bytes.
LEMMA WriteSome ==
  ASSUME NEW A, AreNodes(A), NEW nodes \in Seq(A), Len(Write(nodes)) <= 0
  PROVE  nodes = << >>
<1> DEFINE T == {ns \in Seq(A) : ns = << >> \/ Len(Write(ns)) >= 1}
<1>1. << >> \in T
  OBVIOUS
<1>2. ASSUME NEW ns \in Seq(A), NEW x \in A, ns \in T PROVE Append(ns, x) \in T
  <2>1. Write(Append(ns, x)) = Write(ns) \o WriteNode(x) /\ Write(ns) \in Seq(Byte)
    BY WriteFact
  <2>2. WriteNode(x) \in Seq(Byte) /\ Len(WriteNode(x)) >= 1
    BY WriteNodeTyped DEF AreNodes
  <2>3. Len(Write(Append(ns, x))) = Len(Write(ns)) + Len(WriteNode(x)) /\ Len(Write(ns)) \in Nat
        /\ Len(WriteNode(x)) \in Nat
    BY <2>1, <2>2, ConcatProperties, LenProperties
  <2>4. Append(ns, x) \in Seq(A)
    BY AppendProperties
  <2> QED BY <2>2, <2>3, <2>4
<1> HIDE DEF T
<1>3. nodes \in T
  BY <1>1, <1>2, SeqInduction
<1>4. Len(Write(nodes)) \in Nat
  BY WriteFact, LenProperties
<1> QED
  BY <1>3, <1>4 DEF T

-----------------------------------------------------------------------------
(* Messages in messages                                                    *)

\* The nodes that have messages of a set in them.
NodesOver(T) ==
  [number : Nat, int : Nat, bytes : Seq(Byte), nodes : T,
   kind : {"varint", "fixed64", "group", "fixed32", "string", "message"}]

MessagesAt(n, below) == IF n = 0 THEN {<< >>} ELSE Seq(NodesOver(below))

AreMessages(to, d) == to = [n \in 0 .. d |-> MessagesAt(n, to[n - 1])]

\* A message is a sequence of nodes, and empty where nothing can be nested.
LEMMA MessagesFact ==
  ASSUME NEW d \in Nat
  PROVE  \E below : Messages(d) = MessagesAt(d, below)
<1> DEFINE S == {k \in Nat : \E f : AreMessages(f, k)}
<1>1. 0 \in S
  <2> DEFINE g == [n \in 0 .. 0 |-> MessagesAt(0, {})]
  <2>1. MessagesAt(0, {}) = MessagesAt(0, g[0 - 1])
    BY DEF MessagesAt
  <2>2. AreMessages(g, 0)
    BY <2>1 DEF AreMessages
  <2> QED BY <2>2
<1>2. ASSUME NEW k \in Nat, k \in S PROVE k + 1 \in S
  <2>1. PICK f : AreMessages(f, k)
    BY <1>2
  <2> DEFINE g == [n \in 0 .. k + 1 |-> IF n <= k THEN f[n] ELSE MessagesAt(k + 1, f[k])]
  <2>2. \A n \in 0 .. k : n # 0 => n - 1 \in 0 .. k
    OBVIOUS
  <2>3. \A below, other : MessagesAt(0, below) = MessagesAt(0, other)
    BY DEF MessagesAt
  <2>4. AreMessages(g, k + 1)
    BY <2>1, <2>2, <2>3 DEF AreMessages
  <2> QED BY <2>4
<1>3. \A k \in Nat : k \in S
  BY <1>1, <1>2, Induction
<1> DEFINE to == CHOOSE f : AreMessages(f, d)
<1>4. AreMessages(to, d)
  BY <1>3
<1>5. Messages(d) = to[d]
  BY DEF Messages, AreMessages, MessagesAt, NodesOver
<1> HIDE DEF to
<1>6. to[d] = MessagesAt(d, to[d - 1])
  BY <1>4 DEF AreMessages
<1> QED
  BY <1>5, <1>6

SentAt(n, below) ==
  {m \in Messages(n) \X Descriptors : n # 0 => WellFormed(m) /\ Inner(m) \subseteq below}

AreSent(to, d) == to = [n \in 0 .. d |-> SentAt(n, to[n - 1])]

SentTo == CHOOSE to : AreSent(to, Depth)

\* What is sent is well formed, and so is what is in it.
LEMMA SentFact ==
  /\ Sendable(Depth) = SentTo[Depth]
  /\ \A d \in 0 .. Depth : SentTo[d] = SentAt(d, SentTo[d - 1])
<1> DEFINE S == {k \in Nat : \E f : AreSent(f, k)}
<1>1. 0 \in S
  <2> DEFINE g == [n \in 0 .. 0 |-> SentAt(0, {})]
  <2>1. SentAt(0, {}) = SentAt(0, g[0 - 1])
    BY DEF SentAt
  <2>2. AreSent(g, 0)
    BY <2>1 DEF AreSent
  <2> QED BY <2>2
<1>2. ASSUME NEW k \in Nat, k \in S PROVE k + 1 \in S
  <2>1. PICK f : AreSent(f, k)
    BY <1>2
  <2> DEFINE g == [n \in 0 .. k + 1 |-> IF n <= k THEN f[n] ELSE SentAt(k + 1, f[k])]
  <2>2. \A n \in 0 .. k : n # 0 => n - 1 \in 0 .. k
    OBVIOUS
  <2>3. \A below, other : SentAt(0, below) = SentAt(0, other)
    BY DEF SentAt
  <2>4. AreSent(g, k + 1)
    BY <2>1, <2>2, <2>3 DEF AreSent
  <2> QED BY <2>4
<1>3. \A k \in Nat : k \in S
  BY <1>1, <1>2, Induction
<1>4. \E f : AreSent(f, Depth)
  BY <1>3, DepthAssumption
<1>5. AreSent(SentTo, Depth)
  BY <1>4 DEF SentTo
<1>6. Sendable(Depth) = SentTo[Depth]
  BY DEF Sendable, SentTo, AreSent, SentAt
<1> QED
  BY <1>5, <1>6 DEF AreSent

MeantAt(n, below) ==
  [m \in Messages(n) \X Descriptors |-> IF n = 0 THEN Empty ELSE Understood(m[1], m[2], below)]

IsMeant(meant, d) == meant = [n \in 0 .. d |-> MeantAt(n, meant[n - 1])]

Meant == CHOOSE meant : IsMeant(meant, Depth)

\* What is meant by a message is what is understood of the nodes heard of it.
LEMMA MeantFact ==
  /\ \A nodes, schema : Means(nodes, schema) = Meant[Depth][<<nodes, schema>>]
  /\ \A d \in 0 .. Depth : \A nodes \in Messages(d) : \A schema \in Descriptors :
       Meant[d][<<nodes, schema>>] = Told(Heard(nodes), schema, Meant[d - 1])
<1> DEFINE S == {k \in Nat : \E f : IsMeant(f, k)}
<1>1. 0 \in S
  <2> DEFINE g == [n \in 0 .. 0 |-> MeantAt(0, {})]
  <2>1. MeantAt(0, {}) = MeantAt(0, g[0 - 1])
    BY DEF MeantAt
  <2>2. IsMeant(g, 0)
    BY <2>1 DEF IsMeant
  <2> QED BY <2>2
<1>2. ASSUME NEW k \in Nat, k \in S PROVE k + 1 \in S
  <2>1. PICK f : IsMeant(f, k)
    BY <1>2
  <2> DEFINE g == [n \in 0 .. k + 1 |-> IF n <= k THEN f[n] ELSE MeantAt(k + 1, f[k])]
  <2>2. \A n \in 0 .. k : n # 0 => n - 1 \in 0 .. k
    OBVIOUS
  <2>3. \A below, other : MeantAt(0, below) = MeantAt(0, other)
    BY DEF MeantAt
  <2>4. IsMeant(g, k + 1)
    BY <2>1, <2>2, <2>3 DEF IsMeant
  <2> QED BY <2>4
<1>3. \A k \in Nat : k \in S
  BY <1>1, <1>2, Induction
<1>4. \E f : IsMeant(f, Depth)
  BY <1>3, DepthAssumption
<1>5. IsMeant(Meant, Depth)
  BY <1>4 DEF Meant
<1>6. ASSUME NEW nodes, NEW schema PROVE Means(nodes, schema) = Meant[Depth][<<nodes, schema>>]
  BY DEF Means, Meant, IsMeant, MeantAt
<1>7. ASSUME NEW d \in 0 .. Depth, NEW nodes \in Messages(d), NEW schema \in Descriptors
      PROVE  Meant[d][<<nodes, schema>>] = Told(Heard(nodes), schema, Meant[d - 1])
  <2>1. Meant[d] = MeantAt(d, Meant[d - 1])
    BY <1>5 DEF IsMeant
  <2>2. Meant[d][<<nodes, schema>>] = IF d = 0 THEN Empty ELSE Understood(nodes, schema, Meant[d - 1])
    BY <2>1 DEF MeantAt
  <2>3. CASE d = 0
    <3>1. nodes = << >>
      <4>1. PICK below : Messages(0) = MessagesAt(0, below)
        BY MessagesFact
      <4> QED BY <2>3, <4>1 DEF MessagesAt
    <3>2. Heard(<< >>) = << >>
      <4>1. {i \in DOMAIN << >> : Malformed(<< >>[i])} = {}
        OBVIOUS
      <4> QED BY <4>1 DEF Heard
    <3>3. Told(<< >>, schema, Meant[d - 1]) = Empty
      BY ToldNothing
    <3> QED BY <2>2, <2>3, <3>1, <3>2, <3>3
  <2>4. CASE d # 0
    <3>1. Understood(nodes, schema, Meant[d - 1]) = Told(Heard(nodes), schema, Meant[d - 1])
      BY DEF Understood, Told
    <3> QED BY <2>2, <2>4, <3>1
  <2> QED BY <2>3, <2>4
<1> QED
  BY <1>6, <1>7

-----------------------------------------------------------------------------
(* The decoder understands what is sent                                    *)

\* What the nodes of a message that is sent are: nodes that can be written, any
\* of which is a message that nests no deeper.
AreSentNodes(A, nodes, d) ==
  /\ AreNodes(A)
  /\ nodes \in Seq(A)
  /\ \A h \in Seq(A) : h \in Messages(d)

\* The nodes of a message that is sent can be written.
LEMMA SentNodes ==
  ASSUME NEW d \in 0 .. Depth, NEW m \in SentTo[d]
  PROVE  /\ m = <<m[1], m[2]>> /\ m[1] \in Messages(d) /\ m[2] \in Descriptors
         /\ \E A : AreSentNodes(A, m[1], d)
         /\ d # 0 => WellFormed(m) /\ Inner(m) \subseteq SentTo[d - 1]
<1>1. d \in Nat
  BY DepthAssumption
<1>2. m \in SentAt(d, SentTo[d - 1])
  BY SentFact
<1>3. m \in Messages(d) \X Descriptors /\ (d # 0 => WellFormed(m) /\ Inner(m) \subseteq SentTo[d - 1])
  BY <1>2 DEF SentAt
<1>4. m = <<m[1], m[2]>> /\ m[1] \in Messages(d) /\ m[2] \in Descriptors
  BY <1>3
<1>5. PICK below : Messages(d) = MessagesAt(d, below)
  BY <1>1, MessagesFact
<1>6. CASE d = 0
  <2>1. Messages(d) = {<< >>}
    BY <1>5, <1>6 DEF MessagesAt
  <2>2. AreNodes({}) /\ m[1] \in Seq({})
    <3>1. m[1] = << >> /\ << >> \in Seq({})
      BY <1>4, <2>1
    <3>2. AreNodes({})
      BY DEF AreNodes
    <3> QED BY <3>1, <3>2
  <2>3. \A h \in Seq({}) : h = << >>
    <3> SUFFICES ASSUME NEW h \in Seq({}) PROVE h = << >>
      OBVIOUS
    <3>1. Len(h) \in Nat /\ \A i \in 1 .. Len(h) : h[i] \in {}
      BY LenProperties, ElementOfSeq
    <3>2. Len(h) = 0
      BY <3>1
    <3> QED BY <3>2, EmptySeq
  <2>4. AreSentNodes({}, m[1], d)
    BY <2>1, <2>2, <2>3 DEF AreSentNodes
  <2> QED BY <1>3, <1>4, <2>4
<1>7. CASE d # 0
  <2> DEFINE B == NodesOver(below)
             A == {x \in B : IsNode(x)}
  <2>1. Messages(d) = Seq(B)
    BY <1>5, <1>7 DEF MessagesAt
  <2>2. m[1] \in Seq(B) /\ Len(m[1]) \in Nat /\ \A i \in 1 .. Len(m[1]) : m[1][i] \in B
    BY <1>4, <2>1, LenProperties, ElementOfSeq
  <2>3. ASSUME NEW i \in 1 .. Len(m[1]) PROVE IsNode(m[1][i])
    <3> DEFINE x == m[1][i]
    <3>1. x \in B
      BY <2>2
    <3>2. x \in Range(m[1])
      BY <2>2 DEF Range
    <3>3. /\ x.kind = "fixed32" => Len(x.bytes) = Fixed32
          /\ x.kind = "fixed64" => Len(x.bytes) = Fixed64
          /\ Len(x.bytes) < Limit
      BY <1>3, <1>7, <3>2 DEF WellFormed
    <3> HIDE DEF x
    <3>4. x.number \in Nat /\ x.int \in Nat /\ x.bytes \in Seq(Byte) /\ x.kind \in NodeKinds
      BY <3>1 DEF NodesOver, NodeKinds
    <3>5. IsNode(x)
      BY <3>3, <3>4 DEF IsNode
    <3> QED BY <3>5 DEF x
  <2>4. \A i \in 1 .. Len(m[1]) : m[1][i] \in A
    BY <2>2, <2>3
  <2>5. AreNodes(A) /\ A \subseteq B
    BY DEF AreNodes
  <2> HIDE DEF A, B
  <2>6. m[1] \in [1 .. Len(m[1]) -> A]
    <3>1. m[1] \in [1 .. Len(m[1]) -> B]
      BY <2>2, LenProperties
    <3> QED BY <2>4, <3>1
  <2>7. m[1] \in Seq(A)
    BY <2>2, <2>6, AsSeq
  <2>8. \A h \in Seq(A) : h \in Messages(d)
    <3> SUFFICES ASSUME NEW h \in Seq(A) PROVE h \in Seq(B)
      BY <2>1
    <3>1. Len(h) \in Nat /\ h \in [1 .. Len(h) -> A]
      BY LenProperties
    <3>2. h \in [1 .. Len(h) -> B]
      BY <2>5, <3>1
    <3> QED BY <3>1, <3>2, AsSeq
  <2>9. AreSentNodes(A, m[1], d)
    BY <2>5, <2>7, <2>8 DEF AreSentNodes
  <2> QED BY <1>3, <1>4, <2>9
<1> QED
  BY <1>6, <1>7

\* A value is what a beginning of the message means, and what all of it means
\* if the buffer is as long.
IsMeantBy(value, m, buf, d) ==
  /\ \E k \in 0 .. Len(m[1]) : value = Meant[d][<<SubSeq(m[1], 1, k), m[2]>>]
  /\ Len(Write(m[1])) <= Len(buf) => value = Meant[d][m]

\* So the reader reads the messages that nest d deep.
Reading(d) ==
  \A m \in SentTo[d] : \A buf \in Seq(Byte) : \A n \in Nat : \A e \in 0 .. n :
    Holds(buf, m[1]) /\ Len(buf) <= e => IsMeantBy(Reader(n)[e][<<buf, m[2]>>], m, buf, d)

\* The bytes of a message hold it.
LEMMA HoldsItself ==
  ASSUME NEW nodes, Write(nodes) \in Seq(Byte)
  PROVE  Holds(Write(nodes), nodes)
<1> DEFINE w == Write(nodes)
<1>1. Len(w) \in Nat
  BY LenProperties
<1> HIDE DEF w
<1>2. \A i \in 1 .. Len(w) : 1 + i - 1 = i
  BY <1>1
<1>3. Agrees(w, 1, w)
  BY <1>2 DEF Agrees
<1>4. ~ (Len(w) < Len(w))
  BY <1>1
<1> QED
  BY <1>3, <1>4 DEF Holds, w

\* A nested message is read as it is meant.
LEMMA InnerAgrees ==
  ASSUME NEW d \in 0 .. Depth, d # 0, Reading(d - 1), NEW m \in SentTo[d],
         NEW i \in 1 .. Len(m[1]), NEW n \in Nat, NEW e \in 0 .. n, e # 0,
         m[1][i].kind = "message" => Len(m[1][i].bytes) < e
  PROVE  AgreesWith(m[1][i], m[2], Reader(n)[e - 1], Meant[d - 1])
<1> DEFINE x == m[1][i]
<1>1. m[1] \in Messages(d) /\ m[2] \in Descriptors /\ WellFormed(m) /\ Inner(m) \subseteq SentTo[d - 1]
  BY SentNodes
<1>2. PICK A : AreSentNodes(A, m[1], d)
  BY SentNodes
<1>3. x \in A /\ IsNode(x) /\ x \in Range(m[1])
  <2>1. Len(m[1]) \in Nat /\ DOMAIN m[1] = 1 .. Len(m[1]) /\ x \in A
    BY <1>2, LenProperties, ElementOfSeq DEF AreSentNodes
  <2>2. x \in Range(m[1])
    BY <2>1 DEF Range
  <2> QED BY <1>2, <2>1, <2>2 DEF AreSentNodes, AreNodes
<1>4. x.kind = "message" => Len(x.bytes) < e
  OBVIOUS
<1> HIDE DEF x
<1> SUFFICES ASSUME NEW j \in DOMAIN m[2], m[2][j].number = x.number
             PROVE  AgreesOn(x, m[2][j].type, Reader(n)[e - 1], Meant[d - 1])
  BY DEF AgreesWith, x
<1> DEFINE field == m[2][j]
           p == <<x, field>>
<1>5. p \in Places(m) /\ p[1] = x /\ p[2] = field
  BY <1>3 DEF Places, Range
<1>6. /\ {x.kind, field.type.kind} # {"string", "message"}
      /\ x.kind = "message" /\ field.type.kind = "message" => x.bytes = Write(x.nodes)
  <2> HIDE DEF p, field
  <2>1. /\ {p[1].kind, p[2].type.kind} # {"string", "message"}
        /\ p[1].kind = "message" /\ p[2].type.kind = "message" => p[1].bytes = Write(p[1].nodes)
    BY <1>1, <1>5 DEF WellFormed
  <2> QED BY <1>5, <2>1
<1>7. ASSUME x.kind = "message", field.type.kind = "message"
      PROVE  Reader(n)[e - 1][<<x.bytes, field.type.of>>] = Meant[d - 1][<<x.nodes, field.type.of>>]
  <2> DEFINE inner == <<x.nodes, field.type.of>>
  <2>1. inner \in Inner(m)
    <3> HIDE DEF p, field
    <3> QED BY <1>5, <1>7 DEF Inner
  <2>2. inner \in SentTo[d - 1] /\ inner[1] = x.nodes /\ inner[2] = field.type.of
    BY <1>1, <2>1
  <2> HIDE DEF inner
  <2>3. x.bytes = Write(inner[1]) /\ x.bytes \in Seq(Byte) /\ Len(x.bytes) \in Nat
    BY <1>3, <1>6, <1>7, <2>2, LenProperties DEF IsNode
  <2>4. Holds(x.bytes, inner[1])
    BY <2>3, HoldsItself
  <2>5. e - 1 \in 0 .. n /\ Len(x.bytes) <= e - 1
    BY <1>4, <1>7, <2>3
  <2>6. IsMeantBy(Reader(n)[e - 1][<<x.bytes, inner[2]>>], inner, x.bytes, d - 1)
    BY <2>2, <2>3, <2>4, <2>5 DEF Reading
  <2>7. Len(Write(inner[1])) <= Len(x.bytes)
    BY <2>3
  <2>8. Reader(n)[e - 1][<<x.bytes, inner[2]>>] = Meant[d - 1][inner]
    BY <2>6, <2>7 DEF IsMeantBy
  <2> QED BY <2>2, <2>8 DEF inner
<1> QED
  BY <1>6, <1>7 DEF AgreesOn

\* The value is what is told of the nodes up to the first that is no protobuf or
\* not whole.
IsSeen(value, m, buf, d, k) ==
  /\ value = Told(SubSeq(m[1], 1, k), m[2], Meant[d - 1])
  /\ \A i \in 1 .. k : ~ Malformed(m[1][i])
  /\ Len(Write(m[1])) <= Len(buf) => k = Len(m[1]) \/ Malformed(m[1][k + 1])

\* What the reader makes of a buffer is what is told of the nodes it sees.
LEMMA SeenTold ==
  ASSUME NEW d \in 0 .. Depth, d # 0 => Reading(d - 1), NEW m \in SentTo[d],
         NEW buf \in Seq(Byte), NEW n \in Nat, NEW e \in 0 .. n, Holds(buf, m[1]), Len(buf) <= e
  PROVE  \E k \in 0 .. Len(m[1]) : IsSeen(Reader(n)[e][<<buf, m[2]>>], m, buf, d, k)
<1> DEFINE nodes == m[1]
           schema == m[2]
<1>1. schema \in Descriptors /\ nodes \in Messages(d)
  BY SentNodes
<1>2. PICK A : AreSentNodes(A, nodes, d)
  BY SentNodes
<1>3. AreNodes(A) /\ nodes \in Seq(A) /\ Len(nodes) \in Nat /\ Len(buf) \in Nat
  BY <1>2, LenProperties DEF AreSentNodes
<1>4. Reader(n)[e][<<buf, schema>>] = IF e = 0 THEN Empty ELSE Loop(buf, schema, Reader(n)[e - 1])
  <2>1. IsReader(Reader(n), n)
    BY ReaderFact
  <2>2. Reader(n)[e] = Level(e, Reader(n)[e - 1])
    BY <2>1 DEF IsReader
  <2>3. <<buf, schema>> \in Seq(Byte) \X Descriptors
    BY <1>1
  <2> QED BY <2>2, <2>3 DEF Level
<1>5. CASE e = 0
  <2>1. SubSeq(nodes, 1, 0) = << >>
    BY <1>3, PrefixFact
  <2>2. Told(<< >>, schema, Meant[d - 1]) = Empty
    BY <1>1, ToldNothing
  <2>3. Len(Write(nodes)) <= Len(buf) => 0 = Len(nodes)
    <3>1. Len(buf) = 0
      BY <1>3, <1>5
    <3>2. Len(Write(nodes)) <= 0 => nodes = << >>
      BY <1>3, WriteSome
    <3> QED BY <3>1, <3>2
  <2>4. 0 \in 0 .. Len(nodes) /\ \A i \in 1 .. 0 : ~ Malformed(nodes[i])
    BY <1>3
  <2> QED BY <1>4, <1>5, <2>1, <2>2, <2>3, <2>4 DEF IsSeen
<1>6. CASE e # 0
  <2> DEFINE read == Reader(n)[e - 1]
             meant == Meant[d - 1]
  <2>1. PICK k \in 0 .. Len(nodes) :
           /\ IsRead(Fields(buf), buf, nodes, k)
           /\ k < Len(nodes) /\ Len(Write(nodes)) <= Len(buf) => Malformed(nodes[k + 1])
    BY <1>3, FieldsFact
  <2>2. \A i \in 1 .. k : ~ Malformed(nodes[i]) /\ (nodes[i].kind = "message" => Len(nodes[i].bytes) < Len(buf))
    BY <2>1 DEF IsRead
  <2>3. ASSUME NEW i \in 1 .. k PROVE AgreesWith(nodes[i], schema, read, meant)
    <3>1. i \in 1 .. Len(nodes)
      BY <1>3
    <3>2. d # 0
      <4> SUFFICES ASSUME d = 0 PROVE FALSE
        OBVIOUS
      <4>1. PICK below : Messages(0) = MessagesAt(0, below)
        BY MessagesFact
      <4>2. nodes = << >>
        BY <1>1, <4>1 DEF MessagesAt
      <4> QED BY <3>1, <4>2
    <3>3. nodes[i].kind = "message" => Len(nodes[i].bytes) < e
      <4>1. nodes[i] \in A /\ IsNode(nodes[i])
        BY <1>3, <3>1, ElementOfSeq DEF AreNodes
      <4>2. Len(nodes[i].bytes) \in Nat
        BY <4>1, LenProperties DEF IsNode
      <4> QED BY <1>3, <2>2, <4>2
    <3> QED BY <1>6, <3>1, <3>2, <3>3, InnerAgrees
  <2> HIDE DEF read, meant, nodes, schema
  <2>4. Loop(buf, schema, read) = Told(SubSeq(nodes, 1, k), schema, meant)
    BY <1>1, <1>3, <2>1, <2>3, LoopTold
  <2>5. Len(Write(nodes)) <= Len(buf) => k = Len(nodes) \/ Malformed(nodes[k + 1])
    <3>1. k < Len(nodes) \/ k = Len(nodes)
      BY <1>3
    <3> QED BY <2>1, <3>1
  <2> QED BY <1>4, <1>6, <2>2, <2>4, <2>5 DEF read, meant, nodes, schema, IsSeen
<1> QED
  BY <1>5, <1>6

\* What the reader makes of a buffer is what the message means that it holds.
LEMMA ReadAsMeant ==
  ASSUME NEW d \in 0 .. Depth, d # 0 => Reading(d - 1)
  PROVE  Reading(d)
<1> SUFFICES ASSUME NEW m \in SentTo[d], NEW buf \in Seq(Byte), NEW n \in Nat, NEW e \in 0 .. n,
                    Holds(buf, m[1]), Len(buf) <= e
             PROVE  IsMeantBy(Reader(n)[e][<<buf, m[2]>>], m, buf, d)
  BY DEF Reading
<1>0. PICK k \in 0 .. Len(m[1]) : IsSeen(Reader(n)[e][<<buf, m[2]>>], m, buf, d, k)
  BY SeenTold
<1> DEFINE value == Reader(n)[e][<<buf, m[2]>>]
           nodes == m[1]
           schema == m[2]
           meant == Meant[d - 1]
<1>1. m = <<nodes, schema>> /\ schema \in Descriptors /\ nodes \in Messages(d)
  BY SentNodes
<1>2. PICK A : AreSentNodes(A, nodes, d)
  BY SentNodes
<1>3. /\ k \in 0 .. Len(nodes)
      /\ value = Told(SubSeq(nodes, 1, k), schema, meant)
      /\ \A i \in 1 .. k : ~ Malformed(nodes[i])
      /\ Len(Write(nodes)) <= Len(buf) => k = Len(nodes) \/ Malformed(nodes[k + 1])
  BY <1>0 DEF IsSeen
<1> DEFINE h == SubSeq(nodes, 1, k)
<1> HIDE DEF value, nodes, schema, meant
<1>4. nodes \in Seq(A) /\ \A s \in Seq(A) : s \in Messages(d)
  BY <1>2 DEF AreSentNodes
<1>5. /\ Heard(h) = h
      /\ k = Len(nodes) \/ Malformed(nodes[k + 1]) => Heard(nodes) = h
  BY <1>3, <1>4, HeardFact
<1>6. h \in Messages(d)
  BY <1>3, <1>4, PrefixFact
<1> HIDE DEF h
<1>7. Meant[d][<<h, schema>>] = Told(Heard(h), schema, meant)
  BY <1>1, <1>6, MeantFact DEF meant
<1>8. Meant[d][<<nodes, schema>>] = Told(Heard(nodes), schema, meant)
  BY <1>1, MeantFact DEF meant
<1>9. value = Meant[d][<<h, schema>>]
  BY <1>3, <1>5, <1>7 DEF h
<1>10. Len(Write(nodes)) <= Len(buf) => value = Meant[d][m]
  BY <1>1, <1>3, <1>5, <1>8 DEF h
<1> QED
  BY <1>9, <1>10 DEF IsMeantBy, value, nodes, schema, h

\* The decoder understands every message that is sent.
LEMMA DecodeFact ==
  ASSUME NEW m \in Sendable(Depth), NEW buf, Holds(buf, m[1])
  PROVE  IsMeantBy(Decode(buf, m[2]), m, buf, Depth)
<1> DEFINE T == {d \in Nat : d <= Depth => Reading(d)}
<1>1. 0 \in T
  BY ReadAsMeant, DepthAssumption
<1>2. ASSUME NEW d \in Nat, d \in T PROVE d + 1 \in T
  <2> SUFFICES ASSUME d + 1 <= Depth PROVE Reading(d + 1)
    OBVIOUS
  <2>1. d + 1 \in 0 .. Depth /\ (d + 1) - 1 = d /\ Reading(d)
    BY <1>2, DepthAssumption
  <2> QED BY <2>1, ReadAsMeant
<1>3. \A d \in Nat : d \in T
  <2> HIDE DEF T
  <2> QED BY <1>1, <1>2, Induction
<1>4. Reading(Depth)
  BY <1>3, DepthAssumption
<1>5. buf \in Seq(Byte) /\ Len(buf) \in Nat
  BY LenProperties DEF Holds
<1>6. m \in SentTo[Depth]
  BY SentFact
<1>7. Len(buf) \in 0 .. Len(buf) /\ Len(buf) <= Len(buf)
  BY <1>5
<1>8. IsMeantBy(Reader(Len(buf))[Len(buf)][<<buf, m[2]>>], m, buf, Depth)
  BY <1>4, <1>5, <1>6, <1>7 DEF Reading
<1> QED
  BY <1>8 DEF Decode

-----------------------------------------------------------------------------
(* From the message to the body and back                                   *)

\* What is encrypted of a message.
Stream(bytes, encoding) == IF encoding = "bzip2" THEN Compressed(bytes) ELSE bytes

IsPadded(all, s) ==
  /\ all \in Seq(Nat) /\ Len(s) <= Len(all) /\ Len(all) % Block = 0
  /\ \A i \in 1 .. Len(s) : all[i] = s[i]
  /\ \A i \in 1 .. Len(all) : i > Len(s) => all[i] = 0

Fill(L) == (-L) % Block

\* A number and what is missing to the next multiple make a multiple.
LEMMA FillFact ==
  ASSUME NEW L \in Nat
  PROVE  Fill(L) \in Nat /\ (L + Fill(L)) % Block = 0
<1> DEFINE B == Block
           k == Fill(L)
           q == (-L) \div B
           n == L + k
           p == n \div B
           r == n % B
<1>1. B \in Nat \ {0}
  BY BlockAssumption
<1>2. k \in 0 .. B - 1 /\ q \in Int /\ -L = B * q + k
  <2>1. k = (-L) % B
    BY DEF Fill
  <2> HIDE DEF B, k
  <2> QED BY <1>1, <2>1
<1> HIDE DEF k, q
<1>3. n \in Nat /\ n = - (B * q)
  <2> DEFINE x == B * q
  <2>1. x \in Int
    BY <1>1, <1>2
  <2> HIDE DEF x, B
  <2>2. -L = x + k /\ k \in Nat
    BY <1>1, <1>2 DEF x
  <2>3. n \in Nat /\ n = - x
    BY <2>1, <2>2
  <2> QED BY <2>3 DEF x
<1> HIDE DEF n
<1>4. r \in 0 .. B - 1 /\ p \in Int /\ n = B * p + r
  <2>1. n \in Nat
    BY <1>3
  <2> HIDE DEF B
  <2> QED BY <1>1, <2>1
<1> HIDE DEF p, r, B
<1> DEFINE t == - q - p
<1>5. t \in Int /\ r = B * t
  <2>1. B * (- q - p) = - (B * q) - B * p
    BY <1>1, <1>2, <1>4
  <2> QED BY <1>1, <1>2, <1>3, <1>4, <2>1
<1> HIDE DEF t
<1>6. t = 0
  <2>1. t >= 1 => B * t >= B
    BY <1>1, <1>5
  <2>2. t <= -1 => B * t <= -B
    BY <1>1, <1>5
  <2> QED BY <1>1, <1>4, <1>5, <2>1, <2>2
<1>7. r = 0
  BY <1>1, <1>5, <1>6
<1>8. k \in Nat
  BY <1>1, <1>2
<1>9. n % B = 0
  BY <1>7 DEF r
<1>10. (L + k) % B = 0
  BY <1>9 DEF n
<1> QED
  BY <1>8, <1>10 DEF k, B

\* Padding is zeros up to a whole block.
LEMMA PaddedFact ==
  ASSUME NEW s \in Seq(Nat)
  PROVE  IsPadded(Padded(s), s)
<1> DEFINE k == Fill(Len(s))
           zeros == [i \in 1 .. k |-> 0]
           all == s \o zeros
<1>1. Len(s) \in Nat
  BY LenProperties
<1>2. k \in Nat /\ (Len(s) + k) % Block = 0
  BY <1>1, FillFact
<1> HIDE DEF k
<1>3. zeros \in [1 .. k -> Nat] /\ \A i \in 1 .. k : zeros[i] = 0
  OBVIOUS
<1> HIDE DEF zeros
<1>4. zeros \in Seq(Nat) /\ Len(zeros) = k
  BY <1>2, <1>3, AsSeq
<1>5. /\ all \in Seq(Nat) /\ Len(all) = Len(s) + k
      /\ \A i \in 1 .. Len(s) + k : all[i] = IF i <= Len(s) THEN s[i] ELSE zeros[i - Len(s)]
  BY <1>1, <1>4, ConcatProperties
<1> HIDE DEF all
<1>6. \A i \in 1 .. Len(s) : all[i] = s[i]
  BY <1>1, <1>2, <1>5
<1>7. ASSUME NEW i \in 1 .. Len(all), i > Len(s) PROVE all[i] = 0
  <2>1. i - Len(s) \in 1 .. k /\ i \in 1 .. Len(s) + k /\ ~ (i <= Len(s))
    BY <1>1, <1>2, <1>5, <1>7
  <2> QED BY <1>3, <1>5, <2>1
<1>8. Len(s) <= Len(all) /\ Len(all) % Block = 0
  BY <1>1, <1>2, <1>5
<1>9. IsPadded(all, s)
  BY <1>5, <1>6, <1>7, <1>8 DEF IsPadded
<1> QED
  BY <1>9 DEF Padded, Fill, all, zeros, k

\* A compressed message is behind its length.
LEMMA StreamFact ==
  ASSUME NEW w \in Seq(Byte), NEW encoding
  PROVE  /\ Stream(w, encoding) \in Seq(Nat)
         /\ encoding # "bzip2" => Stream(w, encoding) = w
         /\ encoding = "bzip2" =>
              /\ Len(Stream(w, encoding)) = Len(w) + 1
              /\ Stream(w, encoding)[1] = Len(w)
              /\ \A i \in 1 .. Len(w) : Stream(w, encoding)[i + 1] = w[i]
<1>1. w \in Seq(Nat) /\ Len(w) \in Nat
  BY BytesFact
<1>2. CASE encoding # "bzip2"
  BY <1>1, <1>2 DEF Stream
<1>3. CASE encoding = "bzip2"
  <2> DEFINE n == Len(w)
             s == <<n>> \o w
  <2>1. Stream(w, encoding) = s
    BY <1>3 DEF Stream, Compressed
  <2>2. n \in Nat
    BY <1>1
  <2> HIDE DEF n
  <2>3. <<n>> \in Seq(Nat) /\ Len(<<n>>) = 1 /\ <<n>>[1] = n
    BY <2>2
  <2>4. /\ s \in Seq(Nat) /\ Len(s) = 1 + n
        /\ \A i \in 1 .. 1 + n : s[i] = IF i <= 1 THEN <<n>>[i] ELSE w[i - 1]
    BY <1>1, <2>2, <2>3, ConcatProperties DEF n
  <2> HIDE DEF s
  <2>5. s[1] = n
    BY <2>2, <2>3, <2>4
  <2>6. ASSUME NEW i \in 1 .. n PROVE s[i + 1] = w[i]
    <3>1. i + 1 \in 1 .. 1 + n /\ ~ (i + 1 <= 1) /\ (i + 1) - 1 = i
      BY <2>2
    <3> QED BY <2>4, <3>1
  <2>7. Len(s) = n + 1
    BY <2>2, <2>4
  <2> QED BY <1>3, <2>1, <2>4, <2>5, <2>6, <2>7 DEF n
<1> QED
  BY <1>2, <1>3

\* A beginning of a sequence.
IsPart(part, all, kept) ==
  /\ kept \in 0 .. Len(all) /\ Len(part) = kept
  /\ \A i \in 1 .. kept : part[i] = all[i]

\* What arrives decrypts to a beginning of what was encrypted.
LEMMA BodyFact ==
  ASSUME NEW r \in Replies \cup Fragile, NEW header, NEW kept \in 0 .. Len(BodyOf(r, header))
  PROVE  /\ IsPart(Unsealed(SubSeq(BodyOf(r, header), 1, kept)),
                   Padded(Stream(r.bytes, Encoding(header))), kept)
         /\ Len(BodyOf(r, header)) = Len(Padded(Stream(r.bytes, Encoding(header))))
<1> DEFINE padded == Padded(Stream(r.bytes, Encoding(header)))
           all == BodyOf(r, header)
           body == SubSeq(all, 1, kept)
           part == Unsealed(body)
<1>1. r.bytes \in Seq(Byte)
  BY RepliesAssumption
<1>2. padded \in Seq(Nat)
  BY <1>1, StreamFact, PaddedFact DEF IsPadded
<1>3. all = [i \in DOMAIN padded |-> [sealed |-> padded[i]]]
  BY DEF BodyOf, Sealed, Stream
<1> HIDE DEF padded, all
<1>4. Len(padded) \in Nat /\ DOMAIN padded = 1 .. Len(padded) /\ \A i \in 1 .. Len(padded) : padded[i] \in Nat
  BY <1>2, LenProperties, ElementOfSeq
<1>5. all \in [1 .. Len(padded) -> [sealed : Nat]]
  BY <1>3, <1>4
<1>6. Len(all) = Len(padded)
  BY <1>4, <1>5, AsSeq
<1>7. kept \in 0 .. Len(padded) /\ kept \in Nat
  BY <1>4, <1>6 DEF all
<1>8. \A i \in 1 .. kept : all[i] \in [sealed : Nat] /\ all[i].sealed = padded[i]
  BY <1>3, <1>4, <1>5, <1>7
<1>9. /\ body \in Seq([sealed : Nat])
      /\ Len(body) = IF 1 <= kept THEN kept - 1 + 1 ELSE 0
      /\ \A i \in 1 .. kept - 1 + 1 : body[i] = all[1 + i - 1]
  BY <1>7, <1>8, SubSeqProperties
<1> HIDE DEF body
<1>10. Len(body) = kept /\ DOMAIN body = 1 .. kept /\ \A i \in 1 .. kept : body[i] = all[i]
  BY <1>7, <1>9
<1>11. part = [i \in 1 .. kept |-> body[i].sealed]
  BY <1>10 DEF Unsealed
<1> HIDE DEF part
<1>12. \A i \in 1 .. kept : part[i] = padded[i]
  BY <1>8, <1>10, <1>11
<1>13. part \in [1 .. kept -> Nat]
  BY <1>4, <1>7, <1>8, <1>10, <1>11
<1>14. Len(part) = kept
  BY <1>7, <1>13, AsSeq
<1> QED
  BY <1>6, <1>7, <1>12, <1>14 DEF IsPart, part, body, all, padded

-----------------------------------------------------------------------------
(* What is left of a message on its way                                    *)

\* What is left of a message on its way, all of it if the reply is whole.
IsLeft(body, nodes, encoding, whole) ==
  \E kept \in Nat :
    /\ IsPart(body, Padded(Stream(Write(nodes), encoding)), kept)
    /\ whole => kept = Len(Padded(Stream(Write(nodes), encoding)))

\* The answer means a beginning of what was sent, all of it if the reply is whole.
IsUnderstood(value, nodes, schema, whole) ==
  /\ \E n \in 0 .. Len(nodes) : value = Means(SubSeq(nodes, 1, n), schema)
  /\ whole => value = Means(nodes, schema)

\* The inductive invariant: at every stage the body is as much of what the game
\* sent as has arrived, and what is decoded of it is what that means.
Followed ==
  /\ stage # "idle" => <<reply.nodes, SchemaOf[reply.kind]>> \in Sendable(Depth)
  /\ stage = "received" => IsLeft(Unsealed(raw.body), reply.nodes, raw.encoding, reply.whole)
  /\ stage = "decrypted" => IsLeft(raw.body, reply.nodes, raw.encoding, reply.whole)
  /\ stage = "plain" => /\ Holds(raw.body, reply.nodes)
                        /\ reply.whole => Len(Write(reply.nodes)) <= Len(raw.body)
  /\ Answered => IsUnderstood(root, reply.nodes, SchemaOf[reply.kind], reply.whole)
  /\ stage = "answered" /\ outcome = 500 /\ reply.whole => reply.nodes = << >>

\* A message that is sent is bytes, and none only if it has no nodes.
LEMMA SentBytes ==
  ASSUME NEW nodes, NEW schema, <<nodes, schema>> \in Sendable(Depth)
  PROVE  /\ Write(nodes) \in Seq(Byte) /\ Len(Write(nodes)) \in Nat
         /\ Len(Write(nodes)) = 0 => nodes = << >>
<1> DEFINE m == <<nodes, schema>>
<1>1. Depth \in 0 .. Depth /\ m \in SentTo[Depth] /\ m[1] = nodes
  BY SentFact, DepthAssumption
<1> HIDE DEF m
<1>2. PICK A : AreSentNodes(A, nodes, Depth)
  BY <1>1, SentNodes
<1>3. AreNodes(A) /\ nodes \in Seq(A)
  BY <1>2 DEF AreSentNodes
<1>4. Write(nodes) \in Seq(Byte)
  BY <1>3, WriteFact
<1>5. Len(Write(nodes)) \in Nat
  BY <1>4, LenProperties
<1>6. Len(Write(nodes)) <= 0 => nodes = << >>
  BY <1>3, WriteSome
<1> QED
  BY <1>4, <1>5, <1>6

\* Of a message that is sent as many bytes are encrypted as whole blocks have.
LEMMA StreamPadded ==
  ASSUME NEW w \in Seq(Byte), NEW encoding
  PROVE  /\ Stream(w, encoding) \in Seq(Nat) /\ Len(Stream(w, encoding)) \in Nat
         /\ IsPadded(Padded(Stream(w, encoding)), Stream(w, encoding))
         /\ Len(Padded(Stream(w, encoding))) \in Nat
<1> DEFINE s == Stream(w, encoding)
<1>1. s \in Seq(Nat)
  BY StreamFact
<1> HIDE DEF s
<1>2. IsPadded(Padded(s), s)
  BY <1>1, PaddedFact
<1>3. Len(s) \in Nat /\ Len(Padded(s)) \in Nat
  BY <1>1, <1>2, LenProperties DEF IsPadded
<1> QED
  BY <1>1, <1>2, <1>3 DEF s

\* The whole of a message that has bytes is one block or more.
LEMMA LeftWhole ==
  ASSUME NEW nodes, NEW body, NEW encoding, NEW whole, whole, Write(nodes) \in Seq(Byte),
         IsLeft(body, nodes, encoding, whole), Len(body) = 0 \/ Len(body) % Block # 0
  PROVE  Len(Write(nodes)) = 0
<1> DEFINE w == Write(nodes)
           s == Stream(w, encoding)
           all == Padded(s)
<1>1. Len(s) \in Nat /\ IsPadded(all, s) /\ Len(all) \in Nat
  BY StreamPadded
<1>2. Len(body) = Len(all)
  BY DEF IsLeft, IsPart
<1>3. encoding # "bzip2" => s = w
  BY StreamFact
<1>4. encoding = "bzip2" => Len(s) = Len(w) + 1
  BY StreamFact
<1>5. Len(w) \in Nat
  BY LenProperties
<1> HIDE DEF w, s, all
<1>6. Len(s) <= Len(all) /\ Len(all) % Block = 0
  BY <1>1 DEF IsPadded
<1>7. Len(s) = 0
  BY <1>1, <1>2, <1>6
<1>8. Len(w) = 0
  BY <1>3, <1>4, <1>5, <1>7
<1> QED
  BY <1>8 DEF w

\* What is left of a message that is not compressed holds it.
LEMMA LeftPlain ==
  ASSUME NEW nodes, NEW body \in Seq(Byte), NEW whole, Write(nodes) \in Seq(Byte),
         IsLeft(body, nodes, "none", whole)
  PROVE  Holds(body, nodes) /\ (whole => Len(Write(nodes)) <= Len(body))
<1> DEFINE w == Write(nodes)
           s == Stream(w, "none")
           all == Padded(s)
<1>1. s = w
  BY StreamFact
<1>2. IsPadded(all, s) /\ Len(all) \in Nat
  BY StreamPadded
<1>3. PICK kept \in Nat : IsPart(body, all, kept) /\ (whole => kept = Len(all))
  BY DEF IsLeft
<1>4. Len(w) \in Nat
  BY LenProperties
<1> HIDE DEF w, s, all
<1>5. /\ Len(body) = kept /\ kept <= Len(all)
      /\ \A i \in 1 .. kept : body[i] = all[i]
  BY <1>2, <1>3 DEF IsPart
<1>6. /\ Len(w) <= Len(all)
      /\ \A i \in 1 .. Len(w) : all[i] = w[i]
      /\ \A i \in 1 .. Len(all) : i > Len(w) => all[i] = 0
  BY <1>1, <1>2 DEF IsPadded
<1>7. Agrees(body, 1, w)
  <2> SUFFICES ASSUME NEW i \in 1 .. Len(w), 1 + i - 1 <= Len(body) PROVE body[1 + i - 1] = w[i]
    BY DEF Agrees
  <2>1. i \in 1 .. kept /\ 1 + i - 1 = i
    BY <1>4, <1>5
  <2> QED BY <1>5, <1>6, <2>1
<1>8. ASSUME Len(w) < Len(body) PROVE body[Len(w) + 1] = 0
  <2>1. Len(w) + 1 \in 1 .. kept /\ Len(w) + 1 \in 1 .. Len(all) /\ Len(w) + 1 > Len(w)
    BY <1>2, <1>4, <1>5, <1>8
  <2> QED BY <1>5, <1>6, <2>1
<1>9. whole => Len(w) <= Len(body)
  BY <1>3, <1>5, <1>6
<1> QED
  BY <1>7, <1>8, <1>9 DEF Holds, w

\* What is left of a compressed message decompresses to all of it or not at all,
\* and does if the reply is whole.
LEMMA LeftPacked ==
  ASSUME NEW nodes, NEW body, NEW whole, IsBody(body, "bzip2"), Len(body) > 0,
         Write(nodes) \in Seq(Byte), IsLeft(body, nodes, "bzip2", whole)
  PROVE  /\ whole => Decompressed(body) # {}
         /\ \A message \in Decompressed(body) : message = Write(nodes)
<1> DEFINE w == Write(nodes)
           s == Stream(w, "bzip2")
           all == Padded(s)
<1>1. Len(s) = Len(w) + 1 /\ s[1] = Len(w) /\ \A i \in 1 .. Len(w) : s[i + 1] = w[i]
  BY StreamFact
<1>2. IsPadded(all, s) /\ Len(all) \in Nat
  BY StreamPadded
<1>3. PICK kept \in Nat : IsPart(body, all, kept) /\ (whole => kept = Len(all))
  BY DEF IsLeft
<1>4. Len(w) \in Nat /\ w \in Seq(Byte)
  BY LenProperties
<1> HIDE DEF w, s, all
<1>5. body \in Seq(Nat) /\ body # << >> /\ Len(body) \in Nat
  BY LenProperties DEF IsBody
<1>6. /\ Len(body) = kept /\ kept <= Len(all)
      /\ \A i \in 1 .. kept : body[i] = all[i]
  BY <1>2, <1>3 DEF IsPart
<1>7. /\ Len(w) + 1 <= Len(all)
      /\ \A i \in 1 .. Len(w) + 1 : all[i] = s[i]
  BY <1>1, <1>2 DEF IsPadded
<1>8. Head(body) = Len(w)
  <2>1. Head(body) = body[1]
    BY <1>5
  <2>2. 1 \in 1 .. kept /\ 1 \in 1 .. Len(w) + 1
    BY <1>4, <1>5, <1>6
  <2>3. body[1] = all[1]
    BY <1>6, <2>2
  <2>4. all[1] = s[1]
    BY <1>7, <2>2
  <2> QED BY <1>1, <2>1, <2>3, <2>4
<1>9. whole => Decompressed(body) # {}
  <2> SUFFICES ASSUME whole PROVE Decompressed(body) # {}
    OBVIOUS
  <2>1. Len(body) > Head(body)
    BY <1>3, <1>4, <1>6, <1>7, <1>8
  <2> QED BY <2>1 DEF Decompressed
<1>10. ASSUME NEW message \in Decompressed(body) PROVE message = w
  <2>1. Len(body) > Len(w) /\ message = SubSeq(body, 2, Len(w) + 1)
    BY <1>8 DEF Decompressed
  <2>2. \A i \in 2 .. Len(w) + 1 : body[i] \in Byte
    <3> SUFFICES ASSUME NEW i \in 2 .. Len(w) + 1 PROVE body[i] \in Byte
      OBVIOUS
    <3>1. i - 1 \in 1 .. Len(w) /\ (i - 1) + 1 = i /\ i \in 1 .. kept /\ i \in 1 .. Len(w) + 1
      BY <1>4, <1>6, <2>1
    <3>2. body[i] = w[i - 1]
      BY <1>1, <1>6, <1>7, <3>1
    <3> QED BY <1>4, <3>1, <3>2, ElementOfSeq
  <2>3. /\ message \in Seq(Byte)
        /\ Len(message) = IF 2 <= Len(w) + 1 THEN (Len(w) + 1) - 2 + 1 ELSE 0
        /\ \A i \in 1 .. (Len(w) + 1) - 2 + 1 : message[i] = body[2 + i - 1]
    <3>1. Len(w) + 1 \in Int /\ 2 \in Int
      BY <1>4
    <3> QED BY <2>1, <2>2, <3>1, SubSeqProperties
  <2>4. (Len(w) + 1) - 2 + 1 = Len(w) /\ (~ (2 <= Len(w) + 1) => Len(w) = 0)
    BY <1>4
  <2>5. Len(message) = Len(w) /\ \A i \in 1 .. Len(w) : message[i] = body[2 + i - 1]
    BY <2>3, <2>4
  <2>6. ASSUME NEW i \in 1 .. Len(w) PROVE message[i] = w[i]
    <3>1. 2 + i - 1 = i + 1 /\ i + 1 \in 1 .. kept /\ i + 1 \in 1 .. Len(w) + 1
      BY <1>4, <1>6, <2>1
    <3> QED BY <1>1, <1>6, <1>7, <2>5, <3>1
  <2> QED BY <1>4, <2>3, <2>5, <2>6
<1> QED
  BY <1>9, <1>10 DEF w

-----------------------------------------------------------------------------
(* What is answered is what was sent                                       *)

\* What arrives, in any of the three ways, is left of what the game sent.
LEMMA ReceivedFollowed ==
  ASSUME NEW r \in Replies \cup Fragile, NEW header, NEW status,
         NEW kept \in 0 .. Len(BodyOf(r, header)),
         Received(r, header, status, kept), stage' = "received"
  PROVE  Followed'
<1> DEFINE body == SubSeq(BodyOf(r, header), 1, kept)
           padded == Padded(Stream(r.bytes, Encoding(header)))
<1>1. IsPart(Unsealed(body), padded, kept) /\ Len(BodyOf(r, header)) = Len(padded)
  BY BodyFact
<1>2. r.bytes = Write(r.nodes) /\ <<r.nodes, SchemaOf[r.kind]>> \in Sendable(Depth)
  BY WrittenAssumption
<1>3. /\ reply' = [kind |-> r.kind, nodes |-> r.nodes, whole |-> kept = Len(BodyOf(r, header))]
      /\ raw' = [status |-> status, encoding |-> Encoding(header), body |-> body]
  BY DEF Received
<1>4. kept \in Nat
  BY BodyLength
<1>5. /\ reply'.kind = r.kind /\ reply'.nodes = r.nodes
      /\ reply'.whole <=> kept = Len(padded)
      /\ raw'.encoding = Encoding(header) /\ raw'.body = body
  BY <1>1, <1>3
<1> HIDE DEF body
<1>6. IsLeft(Unsealed(body), r.nodes, Encoding(header), reply'.whole)
  BY <1>1, <1>2, <1>4, <1>5 DEF IsLeft
<1>7. SchemaOf' = SchemaOf /\ Depth' = Depth
  OBVIOUS
<1> QED
  BY <1>2, <1>5, <1>6 DEF Followed, Answered

\* An error answers with nothing; a whole reply is one only if it has no nodes.
LEMMA FailFollowed ==
  ASSUME Followed, stage # "idle", NEW status, status # 200, Fail(status),
         status = 500 /\ reply.whole => reply.nodes = << >>
  PROVE  Followed'
BY DEF Fail, Followed, Answered

\* What is answered is what was sent: Followed is inductive.
THEOREM FollowedInvariant == Spec => []Followed
<1>1. Init => Followed
  BY DEF Init, Followed, Answered
<1>2. Handled /\ Followed /\ [Next]_vars => Followed'
  <2> SUFFICES ASSUME Handled, Followed, [Next]_vars PROVE Followed'
    OBVIOUS
  <2>1. CASE Arrives
    <3>1. PICK r \in Replies, header \in {"absent", "bzip2"} :
             Received(r, header, 200, Len(BodyOf(r, header)))
      BY <2>1 DEF Arrives
    <3>2. Len(BodyOf(r, header)) \in 0 .. Len(BodyOf(r, header)) /\ r \in Replies \cup Fragile
      BY BodyLength
    <3> QED BY <2>1, <3>1, <3>2, ReceivedFollowed DEF Arrives, Start
  <2>2. CASE ArrivesOddly
    <3>1. PICK r \in Fragile, header \in Headers, status \in Statuses :
             Received(r, header, status, Len(BodyOf(r, header)))
      BY <2>2 DEF ArrivesOddly
    <3>2. Len(BodyOf(r, header)) \in 0 .. Len(BodyOf(r, header)) /\ r \in Replies \cup Fragile
      BY BodyLength
    <3> QED BY <2>2, <3>1, <3>2, ReceivedFollowed DEF ArrivesOddly, Start
  <2>3. CASE ArrivesTorn
    <3>1. PICK r \in Fragile, header \in Headers : \E kept \in 0 .. Len(BodyOf(r, header)) - 1 :
             Received(r, header, 200, kept)
      BY <2>3 DEF ArrivesTorn
    <3>2. PICK kept \in 0 .. Len(BodyOf(r, header)) - 1 : Received(r, header, 200, kept)
      BY <3>1
    <3>3. kept \in 0 .. Len(BodyOf(r, header)) /\ r \in Replies \cup Fragile
      BY BodyLength
    <3> QED BY <2>3, <3>2, <3>3, ReceivedFollowed DEF ArrivesTorn, Start
  <2>4. CASE Breaks
    <3>1. PICK r \in Fragile : reply' = [kind |-> r.kind, nodes |-> r.nodes, whole |-> FALSE]
      BY <2>4 DEF Breaks
    <3>2. <<r.nodes, SchemaOf[r.kind]>> \in Sendable(Depth)
      BY WrittenAssumption
    <3>3. reply'.kind = r.kind /\ reply'.nodes = r.nodes /\ ~ reply'.whole
      BY <3>1
    <3> QED BY <2>4, <3>2, <3>3 DEF Breaks, Followed, Answered
  <2>5. CASE Refused
    <3>1. stage # "idle" /\ Fail(502)
      BY <2>5 DEF Refused
    <3> QED BY <3>1, FailFollowed
  <2>6. CASE Unsupported
    <3>1. stage # "idle" /\ Fail(502)
      BY <2>6 DEF Unsupported
    <3> QED BY <3>1, FailFollowed
  <2> DEFINE m == <<reply.nodes, SchemaOf[reply.kind]>>
  <2>7. stage # "idle" => /\ Write(reply.nodes) \in Seq(Byte)
                          /\ Len(Write(reply.nodes)) = 0 => reply.nodes = << >>
    BY SentBytes DEF Followed
  <2>8. CASE Undecryptable
    <3>1. stage = "received" /\ (Len(raw.body) = 0 \/ Len(raw.body) % Block # 0) /\ Fail(500)
      BY <2>8 DEF Undecryptable
    <3> DEFINE body == Unsealed(raw.body)
    <3>2. Len(body) = Len(raw.body)
      <4>1. DOMAIN body = DOMAIN raw.body
        BY DEF Unsealed
      <4>2. IsBody(body, raw.encoding) /\ raw.body \in Seq(Range(raw.body))
        BY <3>1 DEF Handled
      <4>3. /\ Len(raw.body) \in Nat /\ DOMAIN raw.body = 1 .. Len(raw.body)
            /\ Len(body) \in Nat /\ DOMAIN body = 1 .. Len(body)
        BY <4>2, LenProperties DEF IsBody
      <4> QED BY <4>1, <4>3
    <3>3. IsLeft(body, reply.nodes, raw.encoding, reply.whole)
      BY <3>1 DEF Followed
    <3> HIDE DEF body
    <3>4. reply.whole => reply.nodes = << >>
      BY <2>7, <3>1, <3>2, <3>3, LeftWhole
    <3> QED BY <3>1, <3>4, FailFollowed
  <2>9. CASE Decrypt
    <3>1. stage = "received" /\ stage' = "decrypted" /\ reply' = reply
      BY <2>9 DEF Decrypt
    <3>2. raw'.body = Unsealed(raw.body) /\ raw'.encoding = raw.encoding
      BY <2>9 DEF Handled, Decrypt
    <3> QED BY <3>1, <3>2 DEF Followed, Answered
  <2>10. CASE TakePlain
    <3>1. /\ stage = "decrypted" /\ raw.encoding = "none" /\ stage' = "plain"
          /\ reply' = reply /\ raw' = raw
      BY <2>10 DEF TakePlain
    <3>2. raw.body \in Seq(Byte)
      BY <3>1, PlainBody DEF Handled
    <3>3. IsLeft(raw.body, reply.nodes, "none", reply.whole)
      BY <3>1 DEF Followed
    <3>4. Holds(raw.body, reply.nodes) /\ (reply.whole => Len(Write(reply.nodes)) <= Len(raw.body))
      BY <2>7, <3>1, <3>2, <3>3, LeftPlain
    <3> QED BY <3>1, <3>4 DEF Followed, Answered
  <2>11. CASE Decompress
    <3>1. stage = "decrypted" /\ raw.encoding = "bzip2"
      BY <2>11 DEF Decompress
    <3>2. IsBody(raw.body, "bzip2") /\ Len(raw.body) > 0
      BY <3>1 DEF Handled
    <3>3. IsLeft(raw.body, reply.nodes, "bzip2", reply.whole)
      BY <3>1 DEF Followed
    <3>4. /\ reply.whole => Decompressed(raw.body) # {}
          /\ \A message \in Decompressed(raw.body) : message = Write(reply.nodes)
      BY <2>7, <3>1, <3>2, <3>3, LeftPacked
    <3>5. CASE Decompressed(raw.body) = {}
      <4>1. Fail(500)
        BY <2>11, <3>5 DEF Decompress
      <4> QED BY <3>1, <3>4, <3>5, <4>1, FailFollowed
    <3>6. CASE Decompressed(raw.body) # {}
      <4>1. PICK message \in Decompressed(raw.body) : raw' = [raw EXCEPT !.body = message]
        BY <2>11, <3>6 DEF Decompress
      <4>2. stage' = "plain" /\ reply' = reply
        BY <2>11, <3>6 DEF Decompress
      <4>3. raw'.body = Write(reply.nodes)
        BY <3>4, <4>1 DEF Handled
      <4>4. Holds(Write(reply.nodes), reply.nodes)
        BY <2>7, <3>1, HoldsItself
      <4>5. Len(Write(reply.nodes)) <= Len(Write(reply.nodes))
        BY <2>7, <3>1, LenProperties
      <4> QED BY <3>1, <4>2, <4>3, <4>4, <4>5 DEF Followed, Answered
    <3> QED BY <3>5, <3>6
  <2>12. CASE DecodeReply
    <3>1. /\ stage = "plain" /\ stage' = "answered" /\ outcome' = 200 /\ reply' = reply
          /\ root' = Decode(raw.body, SchemaOf[reply.kind])
      BY <2>12 DEF DecodeReply
    <3>2. m \in Sendable(Depth) /\ Holds(raw.body, m[1])
      BY <3>1 DEF Followed
    <3>3. m[1] = reply.nodes /\ m[2] = SchemaOf[reply.kind]
      OBVIOUS
    <3>4. reply.whole => Len(Write(m[1])) <= Len(raw.body)
      BY <3>1 DEF Followed
    <3> HIDE DEF m
    <3>5. IsMeantBy(root', m, raw.body, Depth)
      BY <3>1, <3>2, <3>3, DecodeFact
    <3>6. IsUnderstood(root', reply.nodes, SchemaOf[reply.kind], reply.whole)
      <4>1. PICK k \in 0 .. Len(m[1]) : root' = Meant[Depth][<<SubSeq(m[1], 1, k), m[2]>>]
        BY <3>5 DEF IsMeantBy
      <4>2. reply.whole => root' = Meant[Depth][m]
        BY <3>4, <3>5 DEF IsMeantBy
      <4>3. m = <<reply.nodes, SchemaOf[reply.kind]>>
        BY DEF m
      <4>4. root' = Means(SubSeq(reply.nodes, 1, k), SchemaOf[reply.kind])
        BY <3>3, <4>1, MeantFact
      <4>5. reply.whole => root' = Means(reply.nodes, SchemaOf[reply.kind])
        BY <4>2, <4>3, MeantFact
      <4> QED BY <3>3, <4>1, <4>4, <4>5 DEF IsUnderstood
    <3> QED BY <3>1, <3>6 DEF Followed, Answered
  <2>13. CASE Done
    BY <2>13 DEF Done, Followed, Answered
  <2>14. CASE UNCHANGED vars
    BY <2>14 DEF vars, Followed, Answered
  <2> QED
    BY <2>1, <2>2, <2>3, <2>4, <2>5, <2>6, <2>8, <2>9, <2>10, <2>11, <2>12, <2>13, <2>14 DEF Next
<1> QED
  BY <1>1, <1>2, HandledInvariant, PTL DEF Spec

\* A reply that arrives whole is answered with what it means, whatever stands
\* between its fields and behind it; only one without any byte is an error.
THEOREM WholeRepliesUnderstood == Spec => []WholeRepliesAreUnderstood
<1>1. Followed => WholeRepliesAreUnderstood
  BY DEF Followed, WholeRepliesAreUnderstood, Answered, IsUnderstood
<1> QED
  BY <1>1, FollowedInvariant, PTL

\* A reply whose end is missing is answered with a beginning of what was sent.
THEOREM TornAnswersPrefixes == Spec => []TornAnswersArePrefixes
<1>1. Followed => TornAnswersArePrefixes
  BY DEF Followed, TornAnswersArePrefixes, IsUnderstood
<1> QED
  BY <1>1, FollowedInvariant, PTL

=============================================================================
