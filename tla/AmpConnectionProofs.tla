------------------------- MODULE AmpConnectionProofs --------------------------
(***************************************************************************)
(* Proofs about AmpProtocol and AmpConnection.                             *)
(*                                                                         *)
(* What is decoded is what was encoded, for every message that fits an     *)
(* int: a frame is built field by field, each lemma adds one field and     *)
(* keeps what was written before.  Then what a connection does with such   *)
(* frames, for any calls, results and number of messages.                  *)
(***************************************************************************)
EXTENDS AmpConnection, SequenceTheorems, IntervalInduction

Bytes == Seq(Byte)

\* What a prefix holds, a longer sequence holds too.
LEMMA Kept ==
  ASSUME NEW s \in Bytes, NEW t \in Bytes
  PROVE  /\ s \o t \in Bytes
         /\ Len(s \o t) = Len(s) + Len(t)
         /\ \A i \in 1..Len(s) : (s \o t)[i] = s[i]
         /\ \A i \in 1..(Len(s) - 3) : ReadInt(s \o t, i) = ReadInt(s, i)
         /\ \A i \in 1..(Len(s) - 1) : ReadShort(s \o t, i) = ReadShort(s, i)
<1> DEFINE b == s \o t
<1>1. b \in Bytes /\ Len(b) = Len(s) + Len(t)
  BY DEF Bytes
<1>2. \A i \in 1..Len(s) : b[i] = s[i]
  BY DEF Bytes
<1>3. Len(s) \in Nat
  BY DEF Bytes
<1> HIDE DEF b
<1>4. ASSUME NEW i \in 1..(Len(s) - 3) PROVE ReadInt(b, i) = ReadInt(s, i)
  <2>1. \A j \in {i, i + 1, i + 2, i + 3} : b[j] = s[j]
    BY <1>2, <1>3
  <2> QED
    BY <2>1, SMT DEF ReadInt
<1>5. ASSUME NEW i \in 1..(Len(s) - 1) PROVE ReadShort(b, i) = ReadShort(s, i)
  <2>1. \A j \in {i, i + 1} : b[j] = s[j]
    BY <1>2, <1>3
  <2> QED
    BY <2>1, SMT DEF ReadShort
<1> QED
  BY <1>1, <1>2, <1>4, <1>5 DEF b

\* WriteByte.
LEMMA ByteWritten ==
  ASSUME NEW s \in Bytes, NEW x \in Byte
  PROVE  /\ <<x>> \in Bytes /\ Len(<<x>>) = 1
         /\ (s \o <<x>>)[Len(s) + 1] = x
BY DEF Bytes

LEMMA IntRange ==
  ASSUME NEW x \in Int32
  PROVE  x \in Int /\ -2147483648 <= x /\ x <= 2147483647
BY SMT DEF Int32, MaxInt

\* The bytes of an int are bytes, and give the int again.
LEMMA IntArithmetic ==
  ASSUME NEW x \in Int32
  PROVE  /\ IntBytes(x) \in [1..4 -> Byte]
         /\ x = (IF IntBytes(x)[1] < 128 THEN IntBytes(x)[1] ELSE IntBytes(x)[1] - 256)
                    * 16777216
                  + IntBytes(x)[2] * 65536 + IntBytes(x)[3] * 256 + IntBytes(x)[4]
<1>1. \A a, b, c, d \in Byte : <<a, b, c, d>> \in [1..4 -> Byte]
  BY SMT
<1>2. x \in Int /\ -2147483648 <= x /\ x <= 2147483647
  BY IntRange
<1>3. \A y \in Int : y % 256 \in Byte
  BY SMT DEF Byte
<1>4. /\ x \div 16777216 \in Int /\ x \div 65536 \in Int /\ x \div 256 \in Int
  BY <1>2, SMT
<1>5. IntBytes(x) \in [1..4 -> Byte]
  BY <1>1, <1>2, <1>3, <1>4, SMT DEF IntBytes
<1>6. /\ IntBytes(x)[1] = (x \div 16777216) % 256
      /\ IntBytes(x)[2] = (x \div 65536) % 256
      /\ IntBytes(x)[3] = (x \div 256) % 256
      /\ IntBytes(x)[4] = x % 256
  BY SMT DEF IntBytes
<1>7. x = (IF (x \div 16777216) % 256 < 128 THEN (x \div 16777216) % 256
           ELSE ((x \div 16777216) % 256) - 256) * 16777216
            + ((x \div 65536) % 256) * 65536 + ((x \div 256) % 256) * 256 + (x % 256)
  BY <1>2, SMT
<1> QED
  BY <1>5, <1>6, <1>7, SMT

\* The cast to ushort.
Low(x) == x % 65536

LEMMA ShortArithmetic ==
  ASSUME NEW x \in Int32
  PROVE  /\ ShortBytes(x) \in [1..2 -> Byte]
         /\ x % 65536 = ShortBytes(x)[1] * 256 + ShortBytes(x)[2]
<1>1. \A a, b \in Byte : <<a, b>> \in [1..2 -> Byte]
  BY SMT
<1>2. x \in Int
  BY IntRange
<1>3. x % 256 \in Byte /\ (x \div 256) % 256 \in Byte
  BY <1>2, SMT DEF Byte
<1>4. x % 65536 = ((x \div 256) % 256) * 256 + (x % 256)
  BY <1>2, SMT
<1> QED
  BY <1>1, <1>3, <1>4, SMT DEF ShortBytes

\* A short sequence behind a longer one.
LEMMA Behind ==
  ASSUME NEW s \in Bytes, NEW n \in Nat, NEW w \in [1..n -> Byte]
  PROVE  /\ w \in Bytes /\ Len(w) = n
         /\ \A i \in 1..n : (s \o w)[Len(s) + i] = w[i]
BY DEF Bytes

\* WriteInt, then ReadInt.
LEMMA IntWritten ==
  ASSUME NEW s \in Bytes, NEW x \in Int32
  PROVE  /\ IntBytes(x) \in Bytes /\ Len(IntBytes(x)) = 4
         /\ ReadInt(s \o IntBytes(x), Len(s) + 1) = x
<1> DEFINE w == IntBytes(x)
           n == Len(s)
           b == s \o w
<1>1. w \in [1..4 -> Byte]
  BY IntArithmetic
<1>2. x = (IF w[1] < 128 THEN w[1] ELSE w[1] - 256) * 16777216
            + w[2] * 65536 + w[3] * 256 + w[4]
  BY IntArithmetic
<1>3. n \in Nat
  BY DEF Bytes
<1> HIDE DEF w
<1>4. w \in Bytes /\ Len(w) = 4 /\ \A i \in 1..4 : b[n + i] = w[i]
  BY <1>1, Behind
<1> HIDE DEF n, b
<1>5. b[n + 1] = w[1] /\ b[n + 2] = w[2] /\ b[n + 3] = w[3] /\ b[n + 4] = w[4]
  BY <1>4
<1>6. n + 1 + 1 = n + 2 /\ n + 1 + 2 = n + 3 /\ n + 1 + 3 = n + 4
  BY <1>3
<1>7. ReadInt(b, n + 1) = x
  BY <1>2, <1>5, <1>6, SMT DEF ReadInt
<1> QED
  BY <1>4, <1>7 DEF w, n, b

\* WriteUnsignedShort after the cast, then ReadUnsignedShort.
LEMMA ShortWritten ==
  ASSUME NEW s \in Bytes, NEW x \in Int32
  PROVE  /\ ShortBytes(x) \in Bytes /\ Len(ShortBytes(x)) = 2
         /\ ReadShort(s \o ShortBytes(x), Len(s) + 1) = x % 65536
<1> DEFINE w == ShortBytes(x)
           n == Len(s)
           b == s \o w
<1>1. w \in [1..2 -> Byte]
  BY ShortArithmetic
<1>2. x % 65536 = w[1] * 256 + w[2]
  BY ShortArithmetic
<1>3. n \in Nat
  BY DEF Bytes
<1> HIDE DEF w
<1>4. w \in Bytes /\ Len(w) = 2 /\ \A i \in 1..2 : b[n + i] = w[i]
  BY <1>1, Behind
<1> HIDE DEF n, b
<1>5. b[n + 1] = w[1] /\ b[n + 2] = w[2]
  BY <1>4
<1>6. n + 1 + 1 = n + 2
  BY <1>3
<1>7. ReadShort(b, n + 1) = x % 65536
  BY <1>2, <1>5, <1>6, SMT DEF ReadShort
<1> QED
  BY <1>4, <1>7 DEF w, n, b

\* The data at the end.
LEMMA Ending ==
  ASSUME NEW s \in Bytes, NEW t \in Bytes
  PROVE  SubSeq(s \o t, Len(s) + 1, Len(s) + Len(t)) = t
<1> DEFINE b == s \o t
           e == SubSeq(b, Len(s) + 1, Len(s) + Len(t))
<1>1. Len(s) \in Nat /\ Len(t) \in Nat
  BY DEF Bytes
<1>2. \A i \in 1..Len(t) : b[Len(s) + i] = t[i] /\ t[i] \in Byte
  BY DEF Bytes
<1> HIDE DEF b
<1>3. \A i \in (Len(s) + 1)..(Len(s) + Len(t)) : b[i] \in Byte
  <2> TAKE i \in (Len(s) + 1)..(Len(s) + Len(t))
  <2>1. i - Len(s) \in 1..Len(t) /\ Len(s) + (i - Len(s)) = i
    BY <1>1
  <2> QED
    BY <1>2, <2>1
<1>4. /\ e \in Seq(Byte)
      /\ Len(e) = Len(t)
      /\ \A i \in 1..Len(t) : e[i] = b[Len(s) + 1 + i - 1]
  BY <1>1, <1>3, SubSeqProperties
<1>5. \A i \in 1..Len(t) : e[i] = t[i]
  BY <1>1, <1>2, <1>4
<1> HIDE DEF e
<1>6. e = t
  BY <1>4, <1>5, SeqEqual DEF Bytes
<1> QED
  BY <1>6 DEF b, e

----------------------------------------------------------------------------
\* A message that fits an int and is in the codec of the connection's serializer.
LEMMA LengthType ==
  ASSUME NEW m \in Message, Length(m) <= MaxInt
  PROVE  /\ Body(m) \in Bytes /\ Len(Body(m)) \in Nat
         /\ Length(m) \in Int32
         /\ Length(m) = HeadLength(m.version) + Len(Body(m))
<1>1. Body(m) \in Bytes
  BY DEF Message, Body, Bytes
<1>2. Len(Body(m)) \in Nat
  BY <1>1 DEF Bytes
<1>3. HeadLength(m.version) \in {18, 21}
  BY DEF Message, HeadLength, VERSION_0_HEAD_LENGTH, VERSION_1_HEAD_LENGTH
<1>4. Length(m) = HeadLength(m.version) + Len(Body(m))
  BY DEF Length
<1>5. Length(m) \in Int32
  BY <1>2, <1>3, <1>4, SMT DEF Int32, MaxInt
<1> QED
  BY <1>1, <1>2, <1>4, <1>5

\* A frame that goes on from another holds what that holds.
Extends(b, s) ==
  /\ b \in Bytes /\ s \in Bytes
  /\ Len(s) <= Len(b)
  /\ \A i \in 1..Len(s) : b[i] = s[i]

LEMMA ExtendsKeeps ==
  ASSUME NEW b, NEW s, Extends(b, s)
  PROVE  /\ \A i \in 1..Len(s) : b[i] = s[i]
         /\ \A i \in 1..(Len(s) - 3) : ReadInt(b, i) = ReadInt(s, i)
         /\ \A i \in 1..(Len(s) - 1) : ReadShort(b, i) = ReadShort(s, i)
<1>1. Len(s) \in Nat /\ \A i \in 1..Len(s) : b[i] = s[i]
  BY DEF Extends, Bytes
<1>2. ASSUME NEW i \in 1..(Len(s) - 3) PROVE ReadInt(b, i) = ReadInt(s, i)
  <2>1. b[i] = s[i] /\ b[i + 1] = s[i + 1] /\ b[i + 2] = s[i + 2] /\ b[i + 3] = s[i + 3]
    BY <1>1
  <2> QED
    BY <2>1, SMT DEF ReadInt
<1>3. ASSUME NEW i \in 1..(Len(s) - 1) PROVE ReadShort(b, i) = ReadShort(s, i)
  <2>1. b[i] = s[i] /\ b[i + 1] = s[i + 1]
    BY <1>1
  <2> QED
    BY <2>1, SMT DEF ReadShort
<1> QED
  BY <1>1, <1>2, <1>3

LEMMA ExtendsTransitive ==
  ASSUME NEW b, NEW s, NEW t, Extends(b, s), Extends(s, t)
  PROVE  Extends(b, t)
BY DEF Extends, Bytes

\* One more field.
LEMMA Added ==
  ASSUME NEW s \in Bytes, NEW t \in Bytes
  PROVE  Extends(s \o t, s) /\ Len(s \o t) = Len(s) + Len(t)
BY DEF Extends, Bytes

LEMMA AddedByte ==
  ASSUME NEW s \in Bytes, NEW n \in Nat, Len(s) = n, NEW x \in Byte
  PROVE  LET b == s \o <<x>> IN
         Extends(b, s) /\ b \in Bytes /\ Len(b) = n + 1 /\ b[n + 1] = x
BY DEF Extends, Bytes

LEMMA AddedInt ==
  ASSUME NEW s \in Bytes, NEW n \in Nat, Len(s) = n, NEW x \in Int32
  PROVE  LET b == s \o IntBytes(x) IN
         Extends(b, s) /\ b \in Bytes /\ Len(b) = n + 4 /\ ReadInt(b, n + 1) = x
<1> DEFINE b == s \o IntBytes(x)
<1>1. /\ IntBytes(x) \in Bytes /\ Len(IntBytes(x)) = 4
      /\ ReadInt(b, n + 1) = x
  BY IntWritten
<1>2. Extends(b, s) /\ Len(b) = n + 4
  BY <1>1, Added
<1> QED
  BY <1>1, <1>2 DEF Extends

LEMMA AddedShort ==
  ASSUME NEW s \in Bytes, NEW n \in Nat, Len(s) = n, NEW x \in Int32
  PROVE  LET b == s \o ShortBytes(x) IN
         Extends(b, s) /\ b \in Bytes /\ Len(b) = n + 2 /\ ReadShort(b, n + 1) = Low(x)
<1> DEFINE b == s \o ShortBytes(x)
<1>1. /\ ShortBytes(x) \in Bytes /\ Len(ShortBytes(x)) = 2
      /\ ReadShort(b, n + 1) = Low(x)
  BY ShortWritten DEF Low
<1> DEFINE w == ShortBytes(x)
<1>2. w \in Bytes /\ Len(w) = 2
  BY <1>1
<1> HIDE DEF w
<1>3. Extends(s \o w, s) /\ Len(s \o w) = n + 2
  BY <1>2, Added
<1> QED
  BY <1>1, <1>3 DEF Extends, w

LEMMA ShortRange ==
  ASSUME NEW x \in UShort
  PROVE  x \in Int32 /\ Low(x) = x
<1>1. x \in Int /\ 0 <= x /\ x <= 65535
  BY SMT DEF UShort
<1>2. x % 65536 = x
  BY <1>1, SMT
<1>3. x \in Int32
  BY <1>1, SMT DEF Int32, MaxInt
<1> QED
  BY <1>2, <1>3 DEF Low

\* The fields of a message have the types that they are written with.
LEMMA FieldTypes ==
  ASSUME NEW m \in Message, Length(m) <= MaxInt
  PROVE  /\ m.version \in Byte /\ m.type \in Byte
         /\ m.sequence \in Int32 /\ m.serviceId \in Int32 /\ m.code \in Int32
         /\ m.messageId \in Int32 /\ Low(m.messageId) = m.messageId
         /\ Length(m) \in Int32
<1>1. m.messageId \in UShort /\ m.version \in {0, 1}
  BY DEF Message
<1>2. m.messageId \in Int32 /\ Low(m.messageId) = m.messageId
  BY <1>1, ShortRange
<1>3. m.version \in Byte
  BY <1>1, SMT DEF Byte
<1> QED
  BY <1>2, <1>3, LengthType DEF Message

\* The ten bytes that both versions begin with.
Opening(m) == <<m.version>> \o IntBytes(Length(m)) \o IntBytes(m.sequence) \o <<m.type>>

LEMMA OpeningFields ==
  ASSUME NEW m \in Message, Length(m) <= MaxInt
  PROVE  /\ Opening(m) \in Bytes /\ Len(Opening(m)) = 10
         /\ Opening(m)[1] = m.version
         /\ ReadInt(Opening(m), 2) = Length(m)
         /\ ReadInt(Opening(m), 6) = m.sequence
         /\ Opening(m)[10] = m.type
<1> DEFINE b1 == <<m.version>>
           b2 == b1 \o IntBytes(Length(m))
           b3 == b2 \o IntBytes(m.sequence)
           b4 == b3 \o <<m.type>>
<1>0. /\ m.version \in Byte /\ m.type \in Byte
      /\ m.sequence \in Int32 /\ Length(m) \in Int32
  BY FieldTypes
<1>1. b1 \in Bytes /\ Len(b1) = 1 /\ b1[1] = m.version
  BY <1>0 DEF Bytes
<1> HIDE DEF b1
<1>2. Extends(b2, b1) /\ b2 \in Bytes /\ Len(b2) = 5 /\ ReadInt(b2, 2) = Length(m)
  <2>1. /\ Extends(b2, b1) /\ b2 \in Bytes /\ Len(b2) = 1 + 4
        /\ ReadInt(b2, 1 + 1) = Length(m)
    BY <1>0, <1>1, AddedInt
  <2> QED
    BY <2>1
<1> HIDE DEF b2
<1>3. Extends(b3, b2) /\ b3 \in Bytes /\ Len(b3) = 9 /\ ReadInt(b3, 6) = m.sequence
  <2>1. /\ Extends(b3, b2) /\ b3 \in Bytes /\ Len(b3) = 5 + 4
        /\ ReadInt(b3, 5 + 1) = m.sequence
    BY <1>0, <1>2, AddedInt
  <2> QED
    BY <2>1
<1> HIDE DEF b3
<1>4. Extends(b4, b3) /\ b4 \in Bytes /\ Len(b4) = 10 /\ b4[10] = m.type
  <2>1. Extends(b4, b3) /\ b4 \in Bytes /\ Len(b4) = 9 + 1 /\ b4[9 + 1] = m.type
    BY <1>0, <1>3, AddedByte
  <2> QED
    BY <2>1
<1>5. Opening(m) = b4
  BY DEF Opening, b1, b2, b3
<1> HIDE DEF b4
<1>6. Extends(b4, b2)
  BY <1>3, <1>4, ExtendsTransitive
<1>7. Extends(b4, b1)
  BY <1>2, <1>6, ExtendsTransitive
<1>8. b4[1] = m.version
  <2>1. 1 \in 1..Len(b1)
    BY <1>1
  <2> QED
    BY <1>1, <1>7, <2>1, ExtendsKeeps
<1>9. ReadInt(b4, 2) = Length(m)
  <2>1. 2 \in 1..(Len(b2) - 3)
    BY <1>2
  <2> QED
    BY <1>2, <1>6, <2>1, ExtendsKeeps
<1>10. ReadInt(b4, 6) = m.sequence
  <2>1. 6 \in 1..(Len(b3) - 3)
    BY <1>3
  <2>2. ReadInt(b4, 6) = ReadInt(b3, 6)
    BY <1>4, <2>1, ExtendsKeeps
  <2> QED
    BY <1>3, <2>2
<1> QED
  BY <1>4, <1>5, <1>8, <1>9, <1>10

\* The rest of the head, in each version.
HeadBytes(m, codec) ==
  Opening(m)
    \o (IF m.version = 0 THEN ShortBytes(m.serviceId) ELSE IntBytes(m.serviceId))
    \o ShortBytes(m.messageId) \o IntBytes(m.code)
    \o (IF m.version = 1 THEN <<codec>> ELSE <<>>)

LEMMA HeadFields1 ==
  ASSUME NEW m \in Message, Length(m) <= MaxInt, NEW codec \in Byte, m.version = 1
  PROVE  LET h == HeadBytes(m, codec) IN
         /\ Extends(h, Opening(m)) /\ Len(h) = 21
         /\ ReadInt(h, 11) = m.serviceId
         /\ ReadShort(h, 15) = m.messageId
         /\ ReadInt(h, 17) = m.code
         /\ h[21] = codec
<1> DEFINE f  == Opening(m)
           b1 == f \o IntBytes(m.serviceId)
           b2 == b1 \o ShortBytes(m.messageId)
           b3 == b2 \o IntBytes(m.code)
           b4 == b3 \o <<codec>>
<1>0. /\ m.serviceId \in Int32 /\ m.code \in Int32
      /\ m.messageId \in Int32 /\ Low(m.messageId) = m.messageId
  BY FieldTypes
<1>1. f \in Bytes /\ Len(f) = 10
  BY OpeningFields
<1>5. HeadBytes(m, codec) = b4
  BY SMT DEF HeadBytes
<1> HIDE DEF f
<1>2. Extends(b1, f) /\ b1 \in Bytes /\ Len(b1) = 14 /\ ReadInt(b1, 11) = m.serviceId
  <2>1. /\ Extends(b1, f) /\ b1 \in Bytes /\ Len(b1) = 10 + 4
        /\ ReadInt(b1, 10 + 1) = m.serviceId
    BY <1>0, <1>1, AddedInt
  <2> QED
    BY <2>1
<1> HIDE DEF b1
<1>3. /\ Extends(b2, b1) /\ b2 \in Bytes /\ Len(b2) = 16
      /\ ReadShort(b2, 15) = m.messageId
  <2>1. /\ Extends(b2, b1) /\ b2 \in Bytes /\ Len(b2) = 14 + 2
        /\ ReadShort(b2, 14 + 1) = Low(m.messageId)
    BY <1>0, <1>2, AddedShort
  <2> QED
    BY <1>0, <2>1
<1> HIDE DEF b2
<1>4. Extends(b3, b2) /\ b3 \in Bytes /\ Len(b3) = 20 /\ ReadInt(b3, 17) = m.code
  <2>1. /\ Extends(b3, b2) /\ b3 \in Bytes /\ Len(b3) = 16 + 4
        /\ ReadInt(b3, 16 + 1) = m.code
    BY <1>0, <1>3, AddedInt
  <2> QED
    BY <2>1
<1> HIDE DEF b3
<1>6. Extends(b4, b3) /\ b4 \in Bytes /\ Len(b4) = 21 /\ b4[21] = codec
  <2>1. Extends(b4, b3) /\ b4 \in Bytes /\ Len(b4) = 20 + 1 /\ b4[20 + 1] = codec
    BY <1>4, AddedByte
  <2> QED
    BY <2>1
<1> HIDE DEF b4
<1>7. Extends(b4, b2)
  BY <1>4, <1>6, ExtendsTransitive
<1>8. Extends(b4, b1)
  BY <1>3, <1>7, ExtendsTransitive
<1>9. Extends(b4, f)
  BY <1>2, <1>8, ExtendsTransitive
<1>10. ReadInt(b4, 11) = m.serviceId
  <2>1. 11 \in 1..(Len(b1) - 3)
    BY <1>2
  <2>2. ReadInt(b4, 11) = ReadInt(b1, 11)
    BY <1>8, <2>1, ExtendsKeeps
  <2> QED
    BY <1>2, <2>2
<1>11. ReadShort(b4, 15) = m.messageId
  <2>1. 15 \in 1..(Len(b2) - 1)
    BY <1>3
  <2>2. ReadShort(b4, 15) = ReadShort(b2, 15)
    BY <1>7, <2>1, ExtendsKeeps
  <2> QED
    BY <1>3, <2>2
<1>12. ReadInt(b4, 17) = m.code
  <2>1. 17 \in 1..(Len(b3) - 3)
    BY <1>4
  <2>2. ReadInt(b4, 17) = ReadInt(b3, 17)
    BY <1>6, <2>1, ExtendsKeeps
  <2> QED
    BY <1>4, <2>2
<1> QED
  BY <1>5, <1>6, <1>9, <1>10, <1>11, <1>12 DEF f

LEMMA HeadFields0 ==
  ASSUME NEW m \in Message, Length(m) <= MaxInt, NEW codec \in Byte, m.version = 0
  PROVE  LET h == HeadBytes(m, codec) IN
         /\ Extends(h, Opening(m)) /\ Len(h) = 18
         /\ ReadShort(h, 11) = Low(m.serviceId)
         /\ ReadShort(h, 13) = m.messageId
         /\ ReadInt(h, 15) = m.code
<1> DEFINE f  == Opening(m)
           b1 == f \o ShortBytes(m.serviceId)
           b2 == b1 \o ShortBytes(m.messageId)
           b3 == b2 \o IntBytes(m.code)
<1>0. /\ m.serviceId \in Int32 /\ m.code \in Int32
      /\ m.messageId \in Int32 /\ Low(m.messageId) = m.messageId
  BY FieldTypes
<1>1. f \in Bytes /\ Len(f) = 10
  BY OpeningFields
<1>5. HeadBytes(m, codec) = b3 \o <<>>
  BY SMT DEF HeadBytes
<1> HIDE DEF f
<1>2. /\ Extends(b1, f) /\ b1 \in Bytes /\ Len(b1) = 12
      /\ ReadShort(b1, 11) = Low(m.serviceId)
  <2>1. /\ Extends(b1, f) /\ b1 \in Bytes /\ Len(b1) = 10 + 2
        /\ ReadShort(b1, 10 + 1) = Low(m.serviceId)
    BY <1>0, <1>1, AddedShort
  <2> QED
    BY <2>1
<1> HIDE DEF b1
<1>3. /\ Extends(b2, b1) /\ b2 \in Bytes /\ Len(b2) = 14
      /\ ReadShort(b2, 13) = m.messageId
  <2>1. /\ Extends(b2, b1) /\ b2 \in Bytes /\ Len(b2) = 12 + 2
        /\ ReadShort(b2, 12 + 1) = Low(m.messageId)
    BY <1>0, <1>2, AddedShort
  <2> QED
    BY <1>0, <2>1
<1> HIDE DEF b2
<1>4. Extends(b3, b2) /\ b3 \in Bytes /\ Len(b3) = 18 /\ ReadInt(b3, 15) = m.code
  <2>1. /\ Extends(b3, b2) /\ b3 \in Bytes /\ Len(b3) = 14 + 4
        /\ ReadInt(b3, 14 + 1) = m.code
    <3>1. b2 \in Bytes /\ Len(b2) = 14 /\ m.code \in Int32
      BY <1>0, <1>3
    <3> QED
      BY <3>1, AddedInt
  <2> QED
    BY <2>1
<1> HIDE DEF b3
<1>6. HeadBytes(m, codec) = b3
  BY <1>4, <1>5, EmptySeq, ConcatEmptySeq DEF Bytes
<1>8. Extends(b3, b1)
  BY <1>3, <1>4, ExtendsTransitive
<1>9. Extends(b3, f)
  BY <1>2, <1>8, ExtendsTransitive
<1>10. ReadShort(b3, 11) = Low(m.serviceId)
  <2>1. 11 \in 1..(Len(b1) - 1)
    BY <1>2
  <2>2. ReadShort(b3, 11) = ReadShort(b1, 11)
    BY <1>8, <2>1, ExtendsKeeps
  <2> QED
    BY <1>2, <2>2
<1>11. ReadShort(b3, 13) = m.messageId
  <2>1. 13 \in 1..(Len(b2) - 1)
    BY <1>3
  <2>2. ReadShort(b3, 13) = ReadShort(b2, 13)
    BY <1>4, <2>1, ExtendsKeeps
  <2> QED
    BY <1>3, <2>2
<1> QED
  BY <1>4, <1>6, <1>9, <1>10, <1>11 DEF f

----------------------------------------------------------------------------
\* A frame is as long as its length field says.
LEMMA FrameFields ==
  ASSUME NEW m \in Message, NEW codec \in Byte, Length(m) <= MaxInt
  PROVE  LET b == Encode(m, codec) IN
         /\ b \in Bytes /\ Len(b) = Length(m) /\ Length(m) >= 18
         /\ ReadInt(b, 2) = Length(m)
<1> DEFINE f == Opening(m)
           h == HeadBytes(m, codec)
           b == h \o Body(m)
<1>1. Encode(m, codec) = b
  BY DEF Encode, HeadBytes, Opening
<1>2. m.version \in {0, 1}
  BY DEF Message
<1>3. /\ Body(m) \in Bytes /\ Len(Body(m)) \in Nat
      /\ Length(m) = HeadLength(m.version) + Len(Body(m))
  BY LengthType
<1>4. h \in Bytes /\ Len(h) = HeadLength(m.version) /\ Extends(h, f)
  BY <1>2, HeadFields0, HeadFields1
  DEF Extends, HeadLength, VERSION_0_HEAD_LENGTH, VERSION_1_HEAD_LENGTH
<1>5. Len(f) = 10 /\ ReadInt(f, 2) = Length(m)
  BY OpeningFields
<1> HIDE DEF f, h
<1>6. Extends(b, h) /\ b \in Bytes /\ Len(b) = Length(m)
  BY <1>3, <1>4, Added DEF Extends
<1> HIDE DEF b
<1>7. Extends(b, f)
  BY <1>4, <1>6, ExtendsTransitive
<1>8. 2 \in 1..(Len(f) - 3)
  BY <1>5
<1>9. ReadInt(b, 2) = Length(m)
  BY <1>5, <1>7, <1>8, ExtendsKeeps
<1>10. Length(m) >= 18
  BY <1>2, <1>3 DEF HeadLength, VERSION_0_HEAD_LENGTH, VERSION_1_HEAD_LENGTH
<1> QED
  BY <1>1, <1>6, <1>9, <1>10

\* AmpProtocol.Decode gives the message back that AmpProtocol.Encode wrote,
\* whatever its fields and its data: nothing but what version 0 has no room for
\* is lost, and no frame of this side's codec is refused.
THEOREM DecodesWhatWasEncoded ==
  ASSUME NEW m \in Message, NEW codec \in Byte, Length(m) <= MaxInt
  PROVE  LET b == Encode(m, codec) IN
         ~Rejects(codec, b) /\ Decode(b) = Normal(m, codec)
<1> DEFINE h == HeadBytes(m, codec)
           b == h \o Body(m)
<1>1. Encode(m, codec) = b
  BY DEF Encode, HeadBytes, Opening
<1>2. m.version \in {0, 1}
  BY DEF Message
<1>3. /\ Body(m) \in Bytes /\ Len(Body(m)) \in Nat
      /\ Length(m) = HeadLength(m.version) + Len(Body(m))
  BY LengthType
<1>4. h \in Bytes /\ Len(h) = HeadLength(m.version) /\ Extends(h, Opening(m))
  BY <1>2, HeadFields0, HeadFields1
  DEF Extends, HeadLength, VERSION_0_HEAD_LENGTH, VERSION_1_HEAD_LENGTH
<1> HIDE DEF h
<1>5. Extends(b, h) /\ b \in Bytes /\ Len(b) = Length(m)
  BY <1>3, <1>4, Added DEF Extends
<1>6. Extends(b, Opening(m))
  BY <1>4, <1>5, ExtendsTransitive
<1>7. SubSeq(b, HeadLength(m.version) + 1, Length(m)) = Body(m)
  BY <1>3, <1>4, Ending
<1> HIDE DEF b
<1>8. /\ b[1] = m.version /\ ReadInt(b, 2) = Length(m)
      /\ ReadInt(b, 6) = m.sequence /\ b[10] = m.type
  <2> DEFINE f == Opening(m)
  <2>1. /\ Len(f) = 10 /\ f[1] = m.version /\ ReadInt(f, 2) = Length(m)
        /\ ReadInt(f, 6) = m.sequence /\ f[10] = m.type
    BY OpeningFields
  <2>2. Extends(b, f)
    BY <1>6
  <2> HIDE DEF f
  <2>3. /\ 1 \in 1..Len(f) /\ 10 \in 1..Len(f)
        /\ 2 \in 1..(Len(f) - 3) /\ 6 \in 1..(Len(f) - 3)
    BY <2>1
  <2>4. b[1] = f[1] /\ b[10] = f[10]
    BY <2>2, <2>3, ExtendsKeeps
  <2>5. ReadInt(b, 2) = ReadInt(f, 2) /\ ReadInt(b, 6) = ReadInt(f, 6)
    BY <2>2, <2>3, ExtendsKeeps
  <2> QED
    BY <2>1, <2>4, <2>5
<1> DEFINE data == IF Length(m) > HeadLength(m.version) THEN Body(m) ELSE NoData
<1>9. data = IF m.data = <<>> THEN NoData ELSE m.data
  <2>1. m.data \in Bytes \cup {NoData}
    BY DEF Message, Bytes
  <2>2. CASE m.data = NoData
    <3>1. m.data # <<>>
      <4>1. <<>> \in Seq(0..255)
        OBVIOUS
      <4> QED
        BY <2>2, <4>1, NoDataAssumption
    <3>2. Body(m) = <<>> /\ Len(Body(m)) = 0
      BY <2>2 DEF Body
    <3>3. ~(Length(m) > HeadLength(m.version))
      BY <1>2, <1>3, <3>2 DEF HeadLength, VERSION_0_HEAD_LENGTH, VERSION_1_HEAD_LENGTH
    <3> QED
      BY <2>2, <3>1, <3>3
  <2>3. CASE m.data # NoData
    <3>1. Body(m) = m.data
      BY <2>3 DEF Body
    <3>2. Length(m) > HeadLength(m.version) <=> Len(Body(m)) # 0
      BY <1>2, <1>3 DEF HeadLength, VERSION_0_HEAD_LENGTH, VERSION_1_HEAD_LENGTH
    <3>3. Len(m.data) # 0 <=> m.data # <<>>
      BY <2>1, <2>3, EmptySeq DEF Bytes
    <3> QED
      BY <3>1, <3>2, <3>3
  <2> QED
    BY <2>2, <2>3
<1> HIDE DEF data
<1>10. CASE m.version = 0
  <2>1. Len(h) = 18 /\ HeadLength(m.version) = 18
    BY <1>4, <1>10 DEF HeadLength, VERSION_0_HEAD_LENGTH
  <2>2. /\ ReadShort(h, 11) = Low(m.serviceId) /\ ReadShort(h, 13) = m.messageId
        /\ ReadInt(h, 15) = m.code
    BY <1>10, HeadFields0 DEF h
  <2>3. /\ 11 \in 1..(Len(h) - 1) /\ 13 \in 1..(Len(h) - 1)
        /\ 15 \in 1..(Len(h) - 3)
    BY <2>1
  <2>4. /\ ReadShort(b, 11) = Low(m.serviceId) /\ ReadShort(b, 13) = m.messageId
        /\ ReadInt(b, 15) = m.code
    <3>1. /\ ReadShort(b, 11) = ReadShort(h, 11)
          /\ ReadShort(b, 13) = ReadShort(h, 13)
      BY <1>5, <2>3, ExtendsKeeps
    <3>2. ReadInt(b, 15) = ReadInt(h, 15)
      BY <1>5, <2>3, ExtendsKeeps
    <3> QED
      BY <2>2, <3>1, <3>2
  <2>5. ~Rejects(codec, b)
    BY <1>3, <1>5, <1>8, <1>10, <2>1 DEF Rejects
  <2>6. Decode(b) =
          [version |-> m.version, sequence |-> m.sequence, type |-> m.type,
           serviceId |-> Low(m.serviceId), messageId |-> m.messageId,
           code |-> m.code, codec |-> Protobuf, data |-> data]
    <3>1. 18 - 5 = 13 /\ 18 - 3 = 15
      OBVIOUS
    <3>2. data = IF ReadInt(b, 2) > 18 THEN SubSeq(b, 18 + 1, ReadInt(b, 2)) ELSE NoData
      BY <1>7, <1>8, <2>1 DEF data
    <3>3. b[1] = 0 /\ HeadLength(b[1]) = 18
      BY <1>8, <1>10, <2>1
    <3> QED
      BY <1>8, <1>10, <2>4, <3>1, <3>2, <3>3 DEF Decode
  <2>7. Normal(m, codec) =
          [version |-> m.version, sequence |-> m.sequence, type |-> m.type,
           serviceId |-> Low(m.serviceId), messageId |-> m.messageId,
           code |-> m.code, codec |-> Protobuf, data |-> data]
    BY <1>9, <1>10 DEF Normal, Low
  <2> QED
    BY <1>1, <2>5, <2>6, <2>7
<1>11. CASE m.version = 1
  <2>1. Len(h) = 21 /\ HeadLength(m.version) = 21
    BY <1>4, <1>11 DEF HeadLength, VERSION_1_HEAD_LENGTH
  <2>2. /\ ReadInt(h, 11) = m.serviceId /\ ReadShort(h, 15) = m.messageId
        /\ ReadInt(h, 17) = m.code /\ h[21] = codec
    BY <1>11, HeadFields1 DEF h
  <2>3. /\ 11 \in 1..(Len(h) - 3) /\ 17 \in 1..(Len(h) - 3)
        /\ 15 \in 1..(Len(h) - 1) /\ 21 \in 1..Len(h)
    BY <2>1
  <2>4. /\ ReadInt(b, 11) = m.serviceId /\ ReadShort(b, 15) = m.messageId
        /\ ReadInt(b, 17) = m.code /\ b[21] = codec
    <3>1. ReadInt(b, 11) = ReadInt(h, 11) /\ ReadInt(b, 17) = ReadInt(h, 17)
      BY <1>5, <2>3, ExtendsKeeps
    <3>2. ReadShort(b, 15) = ReadShort(h, 15)
      BY <1>5, <2>3, ExtendsKeeps
    <3>3. b[21] = h[21]
      BY <1>5, <2>3, ExtendsKeeps
    <3> QED
      BY <2>2, <3>1, <3>2, <3>3
  <2>5. ~Rejects(codec, b)
    BY <1>3, <1>5, <1>8, <1>11, <2>1, <2>4 DEF Rejects
  <2>6. Decode(b) =
          [version |-> m.version, sequence |-> m.sequence, type |-> m.type,
           serviceId |-> m.serviceId, messageId |-> m.messageId,
           code |-> m.code, codec |-> codec, data |-> data]
    <3>1. 21 - 6 = 15 /\ 21 - 4 = 17
      OBVIOUS
    <3>2. data = IF ReadInt(b, 2) > 21 THEN SubSeq(b, 21 + 1, ReadInt(b, 2)) ELSE NoData
      BY <1>7, <1>8, <2>1 DEF data
    <3>3. b[1] = 1 /\ HeadLength(b[1]) = 21
      BY <1>8, <1>11, <2>1
    <3>4. Decode(b) =
            [version |-> b[1], sequence |-> ReadInt(b, 6), type |-> b[10],
             serviceId |-> ReadInt(b, 11), messageId |-> ReadShort(b, 15),
             code |-> ReadInt(b, 17), codec |-> b[21], data |-> data]
      <4>1. /\ HeadLength(b[1]) - (IF b[1] = 0 THEN 5 ELSE 6) = 15
            /\ HeadLength(b[1]) - (IF b[1] = 0 THEN 3 ELSE 4) = 17
        BY <3>1, <3>3
      <4>2. /\ (IF b[1] = 0 THEN Protobuf ELSE b[21]) = b[21]
            /\ (IF b[1] = 0 THEN ReadShort(b, 11) ELSE ReadInt(b, 11)) = ReadInt(b, 11)
        BY <3>3
      <4>3. data = IF ReadInt(b, 2) > HeadLength(b[1])
                   THEN SubSeq(b, HeadLength(b[1]) + 1, ReadInt(b, 2)) ELSE NoData
        BY <3>2, <3>3
      <4> QED
        BY <4>1, <4>2, <4>3, Zenon DEF Decode
    <3> QED
      BY <1>8, <1>11, <2>4, <3>4
  <2>7. Normal(m, codec) =
          [version |-> m.version, sequence |-> m.sequence, type |-> m.type,
           serviceId |-> m.serviceId, messageId |-> m.messageId,
           code |-> m.code, codec |-> codec, data |-> data]
    BY <1>9, <1>11 DEF Normal
  <2> QED
    BY <1>1, <2>5, <2>6, <2>7
<1> QED
  BY <1>2, <1>10, <1>11

----------------------------------------------------------------------------
(***************************************************************************)
(* Streams: frames one behind the other.                                   *)
(***************************************************************************)

LEMMA Joining ==
  /\ <<>> \in Bytes
  /\ \A a, b \in Bytes : a \o b \in Bytes
  /\ \A a \in Bytes : a \o <<>> = a /\ <<>> \o a = a
<1>1. <<>> \in Bytes
  BY DEF Bytes
<1>2. ASSUME NEW a \in Bytes, NEW b \in Bytes PROVE a \o b \in Bytes
  BY ConcatProperties, Zenon DEF Bytes
<1>3. ASSUME NEW a \in Bytes PROVE a \o <<>> = a /\ <<>> \o a = a
  BY ConcatEmptySeq, Zenon DEF Bytes
<1> QED
  BY <1>1, <1>2, <1>3, Zenon

LEMMA JoiningAssociates ==
  \A a, b, c \in Bytes : (a \o b) \o c = a \o (b \o c)
BY SMT DEF Bytes

LEMMA JoiningCancels ==
  \A a, b, c \in Bytes : a \o b = a \o c => b = c
BY ConcatSimplifications, Zenon DEF Bytes

\* What FlattenSeq computes, as sums of longer and longer parts.
Sums(h, s) ==
  /\ h \in [0..Len(s) -> Bytes]
  /\ h[0] = <<>>
  /\ \A i \in 1..Len(s) : h[i] = h[i - 1] \o s[i]

LEMMA SumsExist ==
  ASSUME NEW s \in Seq(Bytes)
  PROVE  \E h : Sums(h, s)
<1> DEFINE n == Len(s)
           step == [i \in 1..n |-> [v \in Bytes |-> v \o s[i]]]
<1>1. n \in Nat /\ \A i \in 1..n : s[i] \in Bytes
  OBVIOUS
<1>2. <<>> \in Bytes
  BY DEF Bytes
<1>3. \A v, w \in Bytes : v \o w \in Bytes
  BY Joining, Zenon
<1>4. Stepping(step, n, Bytes)
  BY <1>1, <1>3 DEF Stepping
<1> HIDE DEF step
<1>5. PICK h \in [0..n -> Bytes] :
        h[0] = <<>> /\ \A i \in 1..n : h[i] = step[i][h[i - 1]]
  <2> DEFINE c == <<>>
  <2>1. c \in Bytes /\ n \in Nat
    BY <1>1, <1>2
  <2> HIDE DEF c, n
  <2>2. \E f \in [0..n -> Bytes] :
           f[0] = c /\ \A i \in 1..n : f[i] = step[i][f[i - 1]]
    BY <1>4, <2>1, RecursionExists
  <2> QED
    BY <2>2 DEF c
<1>6. ASSUME NEW i \in 1..n PROVE h[i] = h[i - 1] \o s[i]
  <2>1. h[i - 1] \in Bytes
    BY <1>1
  <2>2. step[i][h[i - 1]] = h[i - 1] \o s[i]
    BY <2>1, Zenon DEF step
  <2> QED
    BY <1>5, <2>2, Zenon
<1>7. Sums(h, s)
  BY <1>5, <1>6 DEF Sums
<1> QED
  BY <1>7

LEMMA FlattenSums ==
  ASSUME NEW s \in Seq(Bytes), NEW h, Sums(h, s)
  PROVE  FlattenSeq(s) = h[Len(s)] /\ FlattenSeq(s) \in Bytes
<1> DEFINE n == Len(s)
<1>1. n \in Nat /\ \A i \in 1..n : s[i] \in Bytes
  OBVIOUS
<1>2. /\ h \in [0..n -> Bytes] /\ h[0] = <<>>
      /\ \A i \in 1..n : h[i] = h[i - 1] \o s[i]
  BY DEF Sums
<1>3. CASE n = 0
  <2>1. FlattenSeq(s) = <<>>
    <3>1. s = <<>>
      BY <1>3, EmptySeq
    <3>2. FlattenSeq(s) = s
      BY <1>3, Zenon DEF FlattenSeq
    <3> QED
      BY <3>1, <3>2
  <2>2. <<>> \in Bytes
    BY DEF Bytes
  <2> QED
    BY <1>2, <1>3, <2>1, <2>2, Zenon
<1>4. CASE n # 0
  <2> DEFINE Parts(f) == f = [i \in 1..n |-> IF i = 1 THEN s[i] ELSE f[i - 1] \o s[i]]
             g == [i \in 1..n |-> h[i]]
  <2>1. h[1] = s[1]
    <3>1. 1 \in 1..n /\ 1 - 1 = 0
      BY <1>1, <1>4
    <3>2. s[1] \in Bytes /\ h[1] = h[1 - 1] \o s[1]
      BY <1>1, <1>2, <3>1, Zenon
    <3>3. <<>> \o s[1] = s[1]
      BY <3>2, Joining, Zenon
    <3> QED
      BY <1>2, <3>1, <3>2, <3>3, Zenon
  <2>2. Parts(g)
    <3>1. ASSUME NEW i \in 1..n
          PROVE  h[i] = IF i = 1 THEN s[i] ELSE g[i - 1] \o s[i]
      <4>1. CASE i = 1
        BY <2>1, <4>1
      <4>2. CASE i # 1
        <5>1. i - 1 \in 1..n
          BY <1>1, <4>2
        <5>2. g[i - 1] = h[i - 1]
          BY <5>1
        <5>3. h[i] = h[i - 1] \o s[i]
          BY <1>2
        <5> QED
          BY <4>2, <5>2, <5>3, Zenon
      <4> QED
        BY <4>1, <4>2
    <3> HIDE DEF g
    <3>2. g = [i \in 1..n |-> IF i = 1 THEN s[i] ELSE g[i - 1] \o s[i]]
      BY <3>1, Zenon DEF g
    <3> QED
      BY <3>2
  <2> HIDE DEF g
  <2> DEFINE f == CHOOSE f : Parts(f)
  <2>3. Parts(f)
    BY <2>2
  <2>4. FlattenSeq(s) = f[n]
    BY <1>4 DEF FlattenSeq
  <2> HIDE DEF f
  <2> DEFINE S == {i \in 0..n : i > 0 => f[i] = h[i]}
  <2>5. 0 \in S
    BY <1>1
  <2>6. ASSUME NEW i \in 0..n, i < n, i \in S PROVE i + 1 \in S
    <3>1. i + 1 \in 1..n
      BY <2>6
    <3>2. CASE i = 0
      BY <2>1, <2>3, <3>1, <3>2
    <3>3. CASE i > 0
      <4>1. f[i + 1] = f[i] \o s[i + 1]
        <5>1. (i + 1) - 1 = i /\ i + 1 # 1
          BY <3>3
        <5>2. f[i + 1] = IF i + 1 = 1 THEN s[i + 1] ELSE f[(i + 1) - 1] \o s[i + 1]
          BY <2>3, <3>1, Zenon
        <5> QED
          BY <5>1, <5>2, Zenon
      <4>2. h[i + 1] = h[i] \o s[i + 1]
        BY <1>2, <3>1
      <4>3. f[i] = h[i] /\ i + 1 \in 0..n
        BY <2>6, <3>1, <3>3
      <4>4. f[i + 1] = h[i + 1]
        BY <4>1, <4>2, <4>3, Zenon
      <4> QED
        BY <4>3, <4>4
    <3> QED
      BY <3>2, <3>3
  <2> HIDE DEF S
  <2>7. 0..n \subseteq S
    BY <1>1, <2>5, <2>6, IntervalInduction
  <2>8. f[n] = h[n]
    BY <1>1, <1>4, <2>7 DEF S
  <2> QED
    BY <1>1, <1>2, <2>4, <2>8
<1> QED
  BY <1>3, <1>4

\* One more frame at the end.
LEMMA FlattenAppend ==
  ASSUME NEW s \in Seq(Bytes), NEW x \in Bytes
  PROVE  FlattenSeq(Append(s, x)) = FlattenSeq(s) \o x
<1> DEFINE n == Len(s)
           t == Append(s, x)
<1>1. PICK h : Sums(h, s)
  BY SumsExist
<1>2. /\ n \in Nat /\ h \in [0..n -> Bytes] /\ h[0] = <<>>
      /\ \A i \in 1..n : h[i] = h[i - 1] \o s[i]
  BY <1>1 DEF Sums
<1>3. t \in Seq(Bytes) /\ Len(t) = n + 1 /\ t[n + 1] = x /\ \A i \in 1..n : t[i] = s[i]
  BY AppendProperties
<1> HIDE DEF t
<1> DEFINE g == [i \in 0..(n + 1) |-> IF i <= n THEN h[i] ELSE h[n] \o x]
<1>4. g \in [0..(n + 1) -> Bytes]
  <2>1. h[n] \o x \in Bytes
    BY <1>2 DEF Bytes
  <2> QED
    BY <1>2, <2>1
<1>5. ASSUME NEW i \in 1..(n + 1) PROVE g[i] = g[i - 1] \o t[i]
  <2>1. CASE i <= n
    <3>1. i \in 1..n /\ i - 1 \in 0..n
      BY <1>2, <2>1
    <3>2. g[i] = h[i] /\ g[i - 1] = h[i - 1]
      BY <1>2, <3>1
    <3>3. h[i] = h[i - 1] \o s[i] /\ t[i] = s[i]
      BY <1>2, <1>3, <3>1, Zenon
    <3> QED
      BY <3>2, <3>3, Zenon
  <2>2. CASE i = n + 1
    <3>1. i - 1 = n /\ ~(i <= n) /\ i - 1 \in 0..(n + 1) /\ i - 1 <= n /\ i \in 0..(n + 1)
      BY <1>2, <2>2
    <3>2. g[i] = h[n] \o x /\ g[i - 1] = h[i - 1]
      BY <3>1, Zenon
    <3>3. t[i] = x /\ h[i - 1] = h[n]
      BY <1>3, <2>2, <3>1, Zenon
    <3> QED
      BY <3>2, <3>3, Zenon
  <2>3. i <= n \/ i = n + 1
    BY <1>2
  <2> QED
    BY <2>1, <2>2, <2>3, Zenon
<1>6. g[n] = h[n] /\ g[n + 1] = h[n] \o x /\ g[0] = <<>>
  BY <1>2
<1> HIDE DEF g
<1>7. Sums(g, t)
  BY <1>3, <1>4, <1>5, <1>6 DEF Sums
<1>8. FlattenSeq(t) = g[n + 1]
  BY <1>3, <1>7, FlattenSums
<1>9. FlattenSeq(s) = h[n]
  BY <1>1, FlattenSums
<1> QED
  BY <1>6, <1>8, <1>9 DEF t

\* The first frame apart.
LEMMA FlattenFirst ==
  ASSUME NEW s \in Seq(Bytes), s # <<>>
  PROVE  /\ FlattenSeq(Tail(s)) \in Bytes
         /\ FlattenSeq(s) = s[1] \o FlattenSeq(Tail(s))
<1> DEFINE n == Len(s)
           t == Tail(s)
<1>1. /\ n \in Nat /\ n >= 1 /\ \A i \in 1..n : s[i] \in Bytes
      /\ t \in Seq(Bytes) /\ Len(t) = n - 1 /\ \A i \in 1..(n - 1) : t[i] = s[i + 1]
  BY HeadTailProperties, EmptySeq
<1> HIDE DEF t
<1>2. PICK h : Sums(h, t)
  BY <1>1, SumsExist
<1>3. /\ h \in [0..(n - 1) -> Bytes] /\ h[0] = <<>>
      /\ \A i \in 1..(n - 1) : h[i] = h[i - 1] \o t[i]
  BY <1>1, <1>2 DEF Sums
<1> DEFINE g == [i \in 0..n |-> IF i = 0 THEN <<>> ELSE s[1] \o h[i - 1]]
<1>4. s[1] \in Bytes
  BY <1>1
<1>5. g \in [0..n -> Bytes]
  <2>1. <<>> \in Bytes
    BY DEF Bytes
  <2>2. ASSUME NEW i \in 0..n, i # 0 PROVE s[1] \o h[i - 1] \in Bytes
    <3>1. h[i - 1] \in Bytes
      BY <1>1, <1>3, <2>2
    <3> QED
      BY <1>4, <3>1 DEF Bytes
  <2> QED
    BY <2>1, <2>2
<1>6. ASSUME NEW i \in 1..n PROVE g[i] = g[i - 1] \o s[i]
  <2>1. CASE i = 1
    <3>1. 1 - 1 = 0 /\ 0 \in 0..n /\ 1 \in 0..n
      BY <1>1
    <3>2. g[1] = s[1] \o <<>> /\ g[1 - 1] = <<>>
      BY <1>3, <3>1
    <3>3. s[1] \o <<>> = s[1] /\ <<>> \o s[1] = s[1]
      BY <1>4, Joining, Zenon
    <3> QED
      BY <2>1, <3>2, <3>3, Zenon
  <2>2. CASE i # 1
    <3>1. /\ i - 1 \in 1..(n - 1) /\ i - 2 \in 0..(n - 1) /\ (i - 1) - 1 = i - 2
          /\ (i - 1) + 1 = i /\ i - 1 # 0 /\ i - 1 \in 0..n /\ i # 0
      BY <1>1, <2>2
    <3>2. h[i - 1] = h[i - 2] \o s[i]
      <4>1. h[i - 1] = h[(i - 1) - 1] \o t[i - 1] /\ t[i - 1] = s[(i - 1) + 1]
        BY <1>1, <1>3, <3>1
      <4> QED
        BY <3>1, <4>1
    <3>3. g[i] = s[1] \o h[i - 1] /\ g[i - 1] = s[1] \o h[i - 2]
      BY <3>1
    <3>4. h[i - 2] \in Bytes /\ s[i] \in Bytes
      BY <1>1, <1>3, <3>1
    <3>5. (s[1] \o h[i - 2]) \o s[i] = s[1] \o (h[i - 2] \o s[i])
      <4> DEFINE x == s[1]
                 y == h[i - 2]
                 z == s[i]
      <4>1. x \in Bytes /\ y \in Bytes /\ z \in Bytes
        BY <1>4, <3>4
      <4> HIDE DEF x, y, z
      <4>2. (x \o y) \o z = x \o (y \o z)
        BY <4>1, JoiningAssociates, Zenon
      <4> QED
        BY <4>2 DEF x, y, z
    <3> QED
      BY <3>2, <3>3, <3>5
  <2> QED
    BY <2>1, <2>2
<1>7. g[0] = <<>> /\ g[n] = s[1] \o h[n - 1]
  <2>1. 0 \in 0..n /\ n \in 0..n /\ n # 0
    BY <1>1
  <2> QED
    BY <2>1, Zenon
<1> HIDE DEF g
<1>8. Sums(g, s)
  BY <1>5, <1>6, <1>7 DEF Sums
<1>9. FlattenSeq(s) = g[n]
  BY <1>8, FlattenSums
<1>10. FlattenSeq(t) = h[n - 1] /\ FlattenSeq(t) \in Bytes
  BY <1>1, <1>2, FlattenSums
<1> QED
  BY <1>7, <1>9, <1>10 DEF t

----------------------------------------------------------------------------
(***************************************************************************)
(* The messages of a connection can be sent, and so can what is decoded.   *)
(***************************************************************************)
Sendable == {m \in Message : Length(m) <= MaxInt}

LEMMA ContentLength ==
  ASSUME NEW m \in Message, m.data = NoData \/ Len(m.data) <= MaxInt - 21
  PROVE  m \in Sendable
<1>1. Length(m) = HeadLength(m.version) + Len(Body(m)) /\ Len(Body(m)) \in Nat
  <2>1. Body(m) \in Seq(Byte)
    BY DEF Message, Body
  <2> QED
    BY <2>1 DEF Length
<1>2. HeadLength(m.version) \in Int /\ HeadLength(m.version) <= 21
  BY DEF HeadLength, VERSION_0_HEAD_LENGTH, VERSION_1_HEAD_LENGTH
<1>3. Len(Body(m)) <= MaxInt - 21
  BY DEF Body, MaxInt
<1> QED
  BY <1>1, <1>2, <1>3 DEF Sendable, MaxInt

LEMMA RequestSendable ==
  ASSUME NEW call \in Call, NEW n \in Int32
  PROVE  /\ CreateRequestMessage(call, n) \in Sendable
         /\ CreateRequestMessage(call, n).version = 1
         /\ CreateRequestMessage(call, n).type = Request
         /\ CreateRequestMessage(call, n).sequence = n
<1> DEFINE m == CreateRequestMessage(call, n)
<1>1. call.serviceId \in Int32 /\ call.messageId \in UShort
  BY ContentAssumption
<1>2. call.data \in Seq(Byte) \cup {NoData}
  BY ContentAssumption
<1>3. call.data = NoData \/ Len(call.data) <= MaxInt - 21
  BY ContentAssumption DEF HeadLength, VERSION_1_HEAD_LENGTH
<1>4. 0 \in Int32 /\ Codec \in Byte /\ Request \in Byte
  BY AmpConnectionAssumption DEF Int32, MaxInt, Byte, Request
<1>5. m \in Message /\ m.data = call.data
  BY <1>1, <1>2, <1>4 DEF CreateRequestMessage, Message
<1>6. m.version = 1 /\ m.type = Request /\ m.sequence = n
  BY DEF CreateRequestMessage
<1> QED
  BY <1>3, <1>5, <1>6, ContentLength

LEMMA HeartBeatSendable ==
  /\ CreateHeartBeatMessage \in Sendable /\ IsHeartBeat(CreateHeartBeatMessage)
  /\ CreateHeartBeatMessage.version = 1 /\ CreateHeartBeatMessage.type = Request
<1>1. /\ 0 \in Int32 /\ 0 \in UShort /\ Unknown \in Byte /\ Request \in Byte
  BY DEF Int32, MaxInt, UShort, Byte, Unknown, Request
<1>2. CreateHeartBeatMessage \in Message /\ CreateHeartBeatMessage.data = NoData
  BY <1>1 DEF CreateHeartBeatMessage, Message
<1> QED
  BY <1>2, ContentLength DEF CreateHeartBeatMessage, IsHeartBeat

\* Decoding keeps the identity, but for the upper half of the service id.
LEMMA NormalSendable ==
  ASSUME NEW m \in Sendable
  PROVE  /\ Normal(m, Codec) \in Sendable
         /\ Normal(m, Codec).version = m.version
         /\ Normal(m, Codec).type = m.type
         /\ Normal(m, Codec).sequence = m.sequence
         /\ Normal(m, Codec).messageId = m.messageId
         /\ Normal(m, Codec).serviceId =
              IF m.version = 0 THEN Low(m.serviceId) ELSE m.serviceId
<1> DEFINE q == Normal(m, Codec)
<1>1. m \in Message /\ Length(m) <= MaxInt
  BY DEF Sendable
<1>2. Low(m.serviceId) \in Int32
  <2> DEFINE x == m.serviceId
  <2>1. x \in Int
    BY <1>1, FieldTypes, IntRange
  <2> HIDE DEF x
  <2>2. x % 65536 \in Int /\ 0 <= x % 65536 /\ x % 65536 < 65536
    BY <2>1, SMT
  <2>3. x % 65536 \in Int32
    BY <2>2, SMT DEF Int32, MaxInt
  <2> QED
    BY <2>3 DEF Low, x
<1>3. Codec \in Byte /\ Protobuf \in Byte
  BY AmpConnectionAssumption DEF Byte, Protobuf
<1>4. /\ q.version = m.version /\ q.type = m.type /\ q.sequence = m.sequence
      /\ q.messageId = m.messageId
      /\ q.serviceId = IF m.version = 0 THEN Low(m.serviceId) ELSE m.serviceId
      /\ q.data = IF m.data = <<>> THEN NoData ELSE m.data
  BY DEF Normal, Low
<1>5. q \in Message
  BY <1>1, <1>2, <1>3 DEF Normal, Message, Low
<1>6. Length(q) = Length(m)
  <2>1. Len(Body(q)) = Len(Body(m))
    <3>1. CASE m.data = <<>>
      <4>1. <<>> # NoData
        <5>1. <<>> \in Seq(0..255)
          OBVIOUS
        <5> QED
          BY <5>1, NoDataAssumption
      <4>2. Body(q) = <<>> /\ Body(m) = <<>>
        BY <1>4, <3>1, <4>1 DEF Body
      <4> QED
        BY <4>2
    <3>2. CASE m.data # <<>>
      BY <1>4, <3>2 DEF Body
    <3> QED
      BY <3>1, <3>2
  <2> QED
    BY <1>4, <2>1 DEF Length
<1> HIDE DEF q
<1>7. q \in Sendable
  BY <1>1, <1>5, <1>6 DEF Sendable
<1> QED
  BY <1>4, <1>7 DEF q

\* What a reply keeps of its request.
LEMMA RepliesSendable ==
  ASSUME NEW m \in Sendable, NEW reply \in Replies(m)
  PROVE  /\ reply \in Sendable
         /\ reply.serviceId = m.serviceId /\ reply.messageId = m.messageId
         /\ reply.sequence = m.sequence
         /\ reply.version =
              IF ~IsHeartBeat(m) /\ <<m.serviceId, m.messageId>> \notin Served
              THEN 0 ELSE IF IsHeartBeat(m) THEN m.version ELSE 1
<1>1. m \in Message /\ Length(m) <= MaxInt
  BY DEF Sendable
<1>2. /\ 0 \in Int32 /\ CODE_SERVICE_NOT_FOUND \in Int32
      /\ Response \in Byte /\ Protobuf \in Byte
  BY DEF Int32, MaxInt, CODE_SERVICE_NOT_FOUND, Byte, Response, Protobuf
<1>3. CASE IsHeartBeat(m)
  <2>1. reply = [m EXCEPT !.type = Response]
    BY <1>3 DEF Replies
  <2>2. /\ reply \in Message /\ reply.data = m.data /\ reply.version = m.version
        /\ reply.serviceId = m.serviceId /\ reply.messageId = m.messageId
        /\ reply.sequence = m.sequence
    BY <1>1, <1>2, <2>1 DEF Message
  <2>3. Length(reply) = Length(m)
    BY <2>2 DEF Length, Body
  <2> QED
    BY <1>1, <1>3, <2>2, <2>3 DEF Sendable
<1>4. CASE ~IsHeartBeat(m) /\ <<m.serviceId, m.messageId>> \in Served
  <2>1. PICK r \in Result :
          reply = [CreateResponseMessage(m) EXCEPT !.code = r.code, !.data = r.data]
    BY <1>4 DEF Replies
  <2>2. /\ r.code \in Int32 /\ r.data \in Seq(Byte) \cup {NoData}
        /\ r.data = NoData \/ Len(r.data) <= MaxInt - 21
    BY ContentAssumption DEF HeadLength, VERSION_1_HEAD_LENGTH
  <2>3. /\ reply \in Message /\ reply.data = r.data /\ reply.version = 1
        /\ reply.serviceId = m.serviceId /\ reply.messageId = m.messageId
        /\ reply.sequence = m.sequence
    BY <1>1, <1>2, <2>1, <2>2 DEF CreateResponseMessage, Message
  <2> QED
    BY <1>4, <2>2, <2>3, ContentLength
<1>5. CASE ~IsHeartBeat(m) /\ <<m.serviceId, m.messageId>> \notin Served
  <2>1. reply = NotFoundReply(m)
    BY <1>5 DEF Replies
  <2>2. /\ reply \in Message /\ reply.data = NoData /\ reply.version = 0
        /\ reply.serviceId = m.serviceId /\ reply.messageId = m.messageId
        /\ reply.sequence = m.sequence
    BY <1>1, <1>2, <2>1 DEF NotFoundReply, CreateResponseMessage, Message
  <2> QED
    BY <1>5, <2>2, ContentLength
<1> QED
  BY <1>3, <1>4, <1>5

\* Interlocked.Increment stays an int, and gives no number twice before it has
\* come round.
LEMMA SequenceNumbers ==
  /\ \A n \in 1..MaxSent : Sequence(n) \in Int32
  /\ \A n, k \in 1..MaxSent : Sequence(n) = Sequence(k) => n = k
<1>1. /\ Start \in Int /\ -2147483648 <= Start /\ Start <= 2147483647
      /\ MaxSent \in Nat /\ MaxSent <= 4294967295
  <2>1. Start \in Int32 /\ MaxSent \in Nat /\ MaxSent \div 2 <= 2147483647
    BY AmpConnectionAssumption DEF MaxInt
  <2>2. Start \in Int /\ -2147483648 <= Start /\ Start <= 2147483647
    BY <2>1, IntRange
  <2>3. MaxSent <= 4294967295
    BY <2>1
  <2> QED
    BY <2>1, <2>2, <2>3
<1> QED
  BY <1>1 DEF Sequence, Int32, MaxInt

----------------------------------------------------------------------------
(***************************************************************************)
(* The frames that are pending in a direction, after the first r messages  *)
(* of s were decoded.                                                      *)
(***************************************************************************)
Pending(s, r) == [k \in 1..(Len(s) - r) |-> Encode(s[r + k], Codec)]

LEMMA FrameOf ==
  ASSUME NEW m \in Sendable
  PROVE  /\ Encode(m, Codec) \in Bytes /\ Len(Encode(m, Codec)) >= 18
         /\ Len(Encode(m, Codec)) \in Nat
         /\ ReadInt(Encode(m, Codec), 2) = Len(Encode(m, Codec))
         /\ ~Rejects(Codec, Encode(m, Codec))
         /\ Decode(Encode(m, Codec)) = Normal(m, Codec)
<1>1. m \in Message /\ Length(m) <= MaxInt /\ Codec \in Byte
  BY AmpConnectionAssumption DEF Sendable
<1>2. /\ Encode(m, Codec) \in Bytes /\ Len(Encode(m, Codec)) = Length(m)
      /\ Length(m) >= 18 /\ ReadInt(Encode(m, Codec), 2) = Length(m)
  BY <1>1, FrameFields
<1>3. ~Rejects(Codec, Encode(m, Codec)) /\ Decode(Encode(m, Codec)) = Normal(m, Codec)
  BY <1>1, DecodesWhatWasEncoded
<1>4. Len(Encode(m, Codec)) \in Nat
  BY <1>2, LenProperties DEF Bytes
<1> QED
  BY <1>2, <1>3, <1>4

LEMMA FunctionIsSeq ==
  ASSUME NEW n \in Nat, NEW S, NEW f \in [1..n -> S]
  PROVE  f \in Seq(S) /\ Len(f) = n
OBVIOUS

LEMMA PendingType ==
  ASSUME NEW s \in Seq(Sendable), NEW r \in 0..Len(s)
  PROVE  /\ Pending(s, r) \in Seq(Bytes)
         /\ Len(Pending(s, r)) = Len(s) - r
         /\ \A k \in 1..(Len(s) - r) :
              s[r + k] \in Sendable /\ Pending(s, r)[k] = Encode(s[r + k], Codec)
<1> DEFINE n == Len(s) - r
<1>1. n \in Nat /\ \A k \in 1..n : r + k \in 1..Len(s)
  BY LenProperties
<1>2. \A k \in 1..n : s[r + k] \in Sendable
  BY <1>1, ElementOfSeq
<1>3. \A k \in 1..n : Encode(s[r + k], Codec) \in Bytes
  BY <1>2, FrameOf
<1> HIDE DEF n
<1>4. [k \in 1..n |-> Encode(s[r + k], Codec)] \in [1..n -> Bytes]
  BY <1>3
<1>5. Pending(s, r) = [k \in 1..n |-> Encode(s[r + k], Codec)]
  BY DEF Pending, n
<1>6. Pending(s, r) \in Seq(Bytes) /\ Len(Pending(s, r)) = n
  <2> DEFINE p == Pending(s, r)
  <2>1. p \in [1..n -> Bytes]
    BY <1>4, <1>5
  <2> HIDE DEF p
  <2>2. p \in Seq(Bytes) /\ Len(p) = n
    BY <1>1, <2>1, FunctionIsSeq
  <2> QED
    BY <2>2 DEF p
<1>7. \A k \in 1..n : Pending(s, r)[k] = Encode(s[r + k], Codec)
  BY <1>5
<1> QED
  BY <1>2, <1>6, <1>7 DEF n

LEMMA PendingSend ==
  ASSUME NEW s \in Seq(Sendable), NEW r \in 0..Len(s), NEW m \in Sendable
  PROVE  Pending(Append(s, m), r) = Append(Pending(s, r), Encode(m, Codec))
<1> DEFINE t == Append(s, m)
           e == Encode(m, Codec)
           p == Pending(s, r)
           q == Pending(t, r)
           n == Len(s) - r
<1>1. /\ t \in Seq(Sendable) /\ Len(t) = Len(s) + 1 /\ Len(s) \in Nat
      /\ t[Len(s) + 1] = m /\ \A i \in 1..Len(s) : t[i] = s[i]
  BY AppendProperties, LenProperties
<1> HIDE DEF t
<1>2. /\ p \in Seq(Bytes) /\ Len(p) = n
      /\ \A k \in 1..n : p[k] = Encode(s[r + k], Codec)
  BY PendingType
<1>3. /\ q \in Seq(Bytes) /\ Len(q) = n + 1
      /\ \A k \in 1..(n + 1) : q[k] = Encode(t[r + k], Codec)
  <2>1. r \in 0..Len(t) /\ Len(t) - r = n + 1
    BY <1>1
  <2> QED
    BY <1>1, <2>1, PendingType
<1>4. e \in Bytes
  BY FrameOf
<1> HIDE DEF p, q, e
<1>5. /\ Append(p, e) \in Seq(Bytes) /\ Len(Append(p, e)) = n + 1
      /\ \A k \in 1..n : Append(p, e)[k] = p[k]
      /\ Append(p, e)[n + 1] = e
  BY <1>2, <1>4, AppendProperties
<1>6. ASSUME NEW k \in 1..(n + 1) PROVE q[k] = Append(p, e)[k]
  <2>1. CASE k \in 1..n
    <3>1. r + k \in 1..Len(s)
      BY <1>1, <2>1
    <3>2. t[r + k] = s[r + k]
      BY <1>1, <3>1
    <3> QED
      BY <1>2, <1>3, <1>5, <2>1, <3>2
  <2>2. CASE k = n + 1
    <3>1. r + k = Len(s) + 1
      BY <1>1, <2>2
    <3>2. t[r + k] = m
      BY <1>1, <3>1
    <3> QED
      BY <1>3, <1>5, <2>2, <3>2 DEF e
  <2>3. k \in 1..n \/ k = n + 1
    BY <1>1
  <2> QED
    BY <2>1, <2>2, <2>3
<1>7. q = Append(p, e)
  BY <1>3, <1>5, <1>6, SeqEqual
<1> QED
  BY <1>7 DEF p, q, e, t

LEMMA PendingRead ==
  ASSUME NEW s \in Seq(Sendable), NEW r \in 0..Len(s), r < Len(s)
  PROVE  /\ Pending(s, r) # <<>>
         /\ r + 1 \in 1..Len(s) /\ s[r + 1] \in Sendable
         /\ Pending(s, r)[1] = Encode(s[r + 1], Codec)
         /\ Tail(Pending(s, r)) = Pending(s, r + 1)
<1> DEFINE p == Pending(s, r)
           q == Pending(s, r + 1)
           n == Len(s) - r
<1>1. /\ n \in Nat /\ n >= 1 /\ r + 1 \in 0..Len(s) /\ Len(s) - (r + 1) = n - 1
      /\ r + 1 \in 1..Len(s) /\ 1 \in 1..n
  BY LenProperties
<1>2. /\ p \in Seq(Bytes) /\ Len(p) = n
      /\ \A k \in 1..n : s[r + k] \in Sendable /\ p[k] = Encode(s[r + k], Codec)
  BY PendingType
<1>3. /\ q \in Seq(Bytes) /\ Len(q) = n - 1
      /\ \A k \in 1..(n - 1) : q[k] = Encode(s[(r + 1) + k], Codec)
  BY <1>1, PendingType
<1> HIDE DEF p, q, n
<1>4. p # <<>>
  BY <1>1, <1>2, EmptySeq
<1>5. /\ Tail(p) \in Seq(Bytes) /\ Len(Tail(p)) = n - 1
      /\ \A k \in 1..(n - 1) : Tail(p)[k] = p[k + 1]
  BY <1>2, <1>4, HeadTailProperties
<1>6. ASSUME NEW k \in 1..(n - 1) PROVE Tail(p)[k] = q[k]
  <2>1. k + 1 \in 1..n /\ r + (k + 1) = (r + 1) + k
    BY <1>1
  <2>2. p[k + 1] = Encode(s[r + (k + 1)], Codec)
    BY <1>2, <2>1
  <2> QED
    BY <1>3, <1>5, <2>1, <2>2
<1>7. Tail(p) = q
  BY <1>3, <1>5, <1>6, SeqEqual
<1>8. s[r + 1] \in Sendable /\ p[1] = Encode(s[r + 1], Codec)
  BY <1>1, <1>2
<1> QED
  BY <1>1, <1>4, <1>7, <1>8 DEF p, q

\* A byte moves from the wire to the buffer: the stream is the same.
LEMMA ByteArrives ==
  ASSUME NEW b \in Bytes, NEW w \in Bytes, w # <<>>
  PROVE  /\ Append(b, Head(w)) \in Bytes /\ Tail(w) \in Bytes
         /\ Append(b, Head(w)) \o Tail(w) = b \o w
BY SMT DEF Bytes

\* The frame that LengthFieldBasedFrameDecoder cuts off is the first one.
LEMMA FrameIsCut ==
  ASSUME NEW b \in Bytes, NEW w \in Bytes, NEW rest \in Bytes, NEW m \in Sendable,
         b \o w = Encode(m, Codec) \o rest, HasFrame(b)
  PROVE  LET n == FrameLength(b) IN
         /\ SubSeq(b, 1, n) = Encode(m, Codec)
         /\ SubSeq(b, n + 1, Len(b)) \in Bytes
         /\ SubSeq(b, n + 1, Len(b)) \o w = rest
<1> DEFINE e == Encode(m, Codec)
           n == Len(e)
<1>1. e \in Bytes /\ n \in Nat /\ n >= 18 /\ ReadInt(e, 2) = n
  BY FrameOf
<1>2. b \o w = e \o rest
  OBVIOUS
<1> HIDE DEF e
<1>3. Len(b) \in Nat /\ Len(b) >= 5
  BY LenProperties DEF HasFrame, Bytes
<1>4. ReadInt(b, 2) = n
  <2>1. ReadInt(b \o w, 2) = ReadInt(b, 2)
    <3>1. \A i \in 1..(Len(b) - 3) : ReadInt(b \o w, i) = ReadInt(b, i)
      BY Kept, Zenon
    <3>2. 2 \in 1..(Len(b) - 3)
      BY <1>3
    <3> QED
      BY <3>1, <3>2, Zenon
  <2>2. ReadInt(e \o rest, 2) = ReadInt(e, 2)
    BY <1>1, Kept
  <2> QED
    BY <1>1, <1>2, <2>1, <2>2
<1>5. FrameLength(b) = n /\ Len(b) >= n
  BY <1>1, <1>4 DEF FrameLength, HasFrame
<1> HIDE DEF n
<1> DEFINE x == SubSeq(b, 1, n)
           y == SubSeq(b, n + 1, Len(b))
<1>6. x \in Bytes /\ Len(x) = n /\ \A i \in 1..n : x[i] = b[i]
  BY <1>1, <1>3, <1>5 DEF Bytes
<1>7. \A i \in 1..n : b[i] = e[i]
  <2>1. \A i \in 1..n : (b \o w)[i] = b[i]
    <3>1. \A i \in 1..Len(b) : (b \o w)[i] = b[i]
      BY Kept, Zenon
    <3> QED
      BY <1>1, <1>3, <1>5, <3>1
  <2>2. \A i \in 1..n : (e \o rest)[i] = e[i]
    BY <1>1, Kept DEF n
  <2> QED
    BY <1>2, <2>1, <2>2
<1>8. x = e
  BY <1>1, <1>6, <1>7, SeqEqual DEF Bytes, n
<1>9. y \in Bytes /\ x \o y = b
  <2>1. \A i \in 1..Len(b) : b[i] \in Byte
    BY DEF Bytes
  <2>2. y \in Seq(Byte)
    <3>1. \A i \in (n + 1)..Len(b) : b[i] \in Byte
      BY <1>1, <1>3, <2>1
    <3> QED
      BY <1>1, <1>3, <3>1, SubSeqProperties
  <2>3. x \o y = SubSeq(b, 1, Len(b))
    <3>1. 1 \in 1..(Len(b) + 1) /\ n \in (1 - 1)..Len(b) /\ Len(b) \in n..Len(b)
      BY <1>1, <1>3, <1>5
    <3>2. b \in Seq(Byte)
      BY DEF Bytes
    <3> QED
      BY <3>1, <3>2, ConcatAdjacentSubSeq, Zenon
  <2>4. SubSeq(b, 1, Len(b)) = b
    BY SubSeqFull DEF Bytes
  <2> QED
    BY <2>2, <2>3, <2>4 DEF Bytes
<1>10. y \o w = rest
  <2> HIDE DEF x, y
  <2>1. e \o (y \o w) = e \o rest
    <3>1. (e \o y) \o w = e \o (y \o w)
      BY <1>1, <1>9, JoiningAssociates, Zenon
    <3>2. e \o y = b
      BY <1>8, <1>9
    <3> QED
      BY <1>2, <3>1, <3>2
  <2>2. y \o w \in Bytes
    BY <1>9, Joining
  <2> QED
    BY <1>1, <2>1, <2>2, JoiningCancels
<1> QED
  BY <1>5, <1>8, <1>9, <1>10 DEF e

----------------------------------------------------------------------------
(***************************************************************************)
(* The inductive invariant of a connection: its types; what was decoded is *)
(* what was sent, so far; what is on its way is the rest, frame by frame;  *)
(* the numbers that the calls have; and which request a reply answers.     *)
(***************************************************************************)
Directions == {Up, Down}

TypeOK ==
  /\ sent \in [Directions -> Seq(Sendable)]
  /\ received \in [Directions -> Seq(Sendable)]
  /\ wire \in [Directions -> Bytes]
  /\ buffer \in [Directions -> Bytes]
  /\ answered \in Seq(Nat)

Delivered ==
  \A d \in Directions :
    /\ Len(received[d]) <= Len(sent[d])
    /\ \A k \in 1..Len(received[d]) : received[d][k] = Normal(sent[d][k], Codec)

\* The calls among the first n messages of s.
CallsAmong(s, n) == {i \in 1..n : ~IsHeartBeat(s[i])}

Numbered ==
  /\ Len(sent[Up]) <= MaxSent
  /\ \A i \in 1..Len(sent[Up]) :
       /\ sent[Up][i].version = 1
       /\ ~IsHeartBeat(sent[Up][i]) =>
            sent[Up][i].sequence = Sequence(Cardinality(CallsAmong(sent[Up], i)))

Answering ==
  /\ Len(sent[Down]) = Len(answered)
  /\ \A k \in 1..Len(answered) :
       /\ answered[k] \in 1..Len(received[Up])
       /\ sent[Down][k] \in Replies(received[Up][answered[k]])

Stream == TypeOK /\ Delivered /\ FramesInStep /\ Numbered /\ Answering

LEMMA FramesAsPending ==
  FramesInStep <=>
    \A d \in Directions :
      buffer[d] \o wire[d] = FlattenSeq(Pending(sent[d], Len(received[d])))
BY Zenon DEF FramesInStep, Pending, Directions

LEMMA NothingPending == FlattenSeq(Pending(<<>>, 0)) = <<>>
<1> DEFINE c == <<>>
           p == Pending(c, 0)
<1>1. c \in Seq(Sendable) /\ Len(c) = 0 /\ 0 \in 0..Len(c)
  BY EmptySeq
<1> HIDE DEF c
<1>2. p \in Seq(Bytes) /\ Len(p) = 0
  <2>1. Len(p) = Len(c) - 0 /\ p \in Seq(Bytes)
    BY <1>1, PendingType
  <2> QED
    BY <1>1, <2>1
<1> HIDE DEF p
<1>3. p = <<>>
  BY <1>2, EmptySeq
<1>4. FlattenSeq(p) = p
  BY <1>2, Zenon DEF FlattenSeq
<1> QED
  BY <1>3, <1>4 DEF p, c

LEMMA StreamInit == Init => Stream
<1> SUFFICES ASSUME Init PROVE Stream
  OBVIOUS
<1>1. /\ \A d \in Directions : /\ sent[d] = <<>> /\ received[d] = <<>>
                               /\ wire[d] = <<>> /\ buffer[d] = <<>>
      /\ answered = <<>> /\ Up \in Directions /\ Down \in Directions
  BY DEF Init, Directions
<1>2. Len(<<>>) = 0 /\ \A S : <<>> \in Seq(S)
  BY EmptySeq
<1>3. TypeOK
  <2>1. <<>> \in Bytes
    BY <1>2 DEF Bytes
  <2> QED
    BY <1>2, <2>1 DEF TypeOK, Init, Directions
<1>4. Delivered
  BY <1>1, <1>2 DEF Delivered
<1>5. FramesInStep
  <2>1. <<>> \o <<>> = <<>>
    BY Joining
  <2> QED
    BY <1>1, <1>2, <2>1, NothingPending, FramesAsPending
<1>6. Numbered
  BY <1>1, <1>2, AmpConnectionAssumption DEF Numbered
<1>7. Answering
  BY <1>1, <1>2 DEF Answering
<1> QED
  BY <1>3, <1>4, <1>5, <1>6, <1>7 DEF Stream

\* What a message that is sent does to the stream.
LEMMA SendKeeps ==
  ASSUME Stream, NEW d \in Directions, NEW m \in Sendable, Send(d, m),
         UNCHANGED <<buffer, received>>
  PROVE  /\ sent' \in [Directions -> Seq(Sendable)]
         /\ wire' \in [Directions -> Bytes]
         /\ sent'[d] = Append(sent[d], m) /\ Len(sent'[d]) = Len(sent[d]) + 1
         /\ Len(sent[d]) \in Nat
         /\ sent'[d][Len(sent[d]) + 1] = m
         /\ \A i \in 1..Len(sent[d]) : sent'[d][i] = sent[d][i]
         /\ \A o \in Directions \ {d} : sent'[o] = sent[o]
         /\ Delivered' /\ FramesInStep'
<1> DEFINE e == Encode(m, Codec)
<1>1. TypeOK /\ Delivered /\ FramesInStep
  BY DEF Stream
<1>2. e \in Bytes
  BY FrameOf
<1>3. /\ sent' = [sent EXCEPT ![d] = Append(@, m)]
      /\ wire' = [wire EXCEPT ![d] = @ \o e]
  BY DEF Send
<1> HIDE DEF e
<1>4. \A o \in Directions :
        /\ sent[o] \in Seq(Sendable) /\ wire[o] \in Bytes /\ buffer[o] \in Bytes
        /\ received[o] \in Seq(Sendable)
        /\ Len(sent[o]) \in Nat /\ Len(received[o]) \in 0..Len(sent[o])
  <2>1. \A o \in Directions :
          /\ sent[o] \in Seq(Sendable) /\ wire[o] \in Bytes /\ buffer[o] \in Bytes
          /\ received[o] \in Seq(Sendable)
    BY <1>1 DEF TypeOK
  <2>2. \A o \in Directions : Len(sent[o]) \in Nat /\ Len(received[o]) \in Nat
    BY <2>1, LenProperties
  <2> QED
    BY <1>1, <2>1, <2>2 DEF Delivered
<1>5. /\ sent'[d] = Append(sent[d], m) /\ wire'[d] = wire[d] \o e
      /\ \A o \in Directions \ {d} : sent'[o] = sent[o] /\ wire'[o] = wire[o]
  BY <1>1, <1>3 DEF TypeOK
<1>6. /\ sent'[d] \in Seq(Sendable) /\ Len(sent'[d]) = Len(sent[d]) + 1
      /\ sent'[d][Len(sent[d]) + 1] = m
      /\ \A i \in 1..Len(sent[d]) : sent'[d][i] = sent[d][i]
  BY <1>4, <1>5, AppendProperties
<1>7. wire'[d] \in Bytes
  BY <1>2, <1>4, <1>5, Joining
<1>8. sent' \in [Directions -> Seq(Sendable)] /\ wire' \in [Directions -> Bytes]
  BY <1>1, <1>3, <1>5, <1>6, <1>7 DEF TypeOK
<1>9. Delivered'
  <2> SUFFICES ASSUME NEW o \in Directions
      PROVE  /\ Len(received[o]) <= Len(sent'[o])
             /\ \A k \in 1..Len(received[o]) :
                  received[o][k] = Normal(sent'[o][k], Codec)
    BY DEF Delivered
  <2>1. CASE o = d
    <3>1. \A k \in 1..Len(received[o]) : k \in 1..Len(sent[o])
      BY <1>4
    <3> QED
      BY <1>1, <1>4, <1>6, <2>1, <3>1 DEF Delivered
  <2>2. CASE o # d
    BY <1>1, <1>5, <2>2 DEF Delivered
  <2> QED
    BY <2>1, <2>2
<1>10. FramesInStep'
  <2>1. ASSUME NEW o \in Directions
        PROVE  buffer[o] \o wire'[o] = FlattenSeq(Pending(sent'[o], Len(received[o])))
    <3>1. buffer[o] \o wire[o] = FlattenSeq(Pending(sent[o], Len(received[o])))
      BY <1>1, FramesAsPending
    <3>2. CASE o = d
      <4> DEFINE p == Pending(sent[d], Len(received[d]))
      <4>1. p \in Seq(Bytes)
        BY <1>4, PendingType
      <4>2. Pending(sent'[d], Len(received[d])) = Append(p, e)
        BY <1>4, <1>5, PendingSend DEF e
      <4> HIDE DEF p
      <4>3. FlattenSeq(Append(p, e)) = FlattenSeq(p) \o e
        BY <1>2, <4>1, FlattenAppend
      <4>4. (buffer[d] \o wire[d]) \o e = buffer[d] \o (wire[d] \o e)
        BY <1>2, <1>4, JoiningAssociates
      <4>5. FlattenSeq(p) = buffer[d] \o wire[d]
        BY <3>1, <3>2 DEF p
      <4> QED
        BY <1>5, <3>2, <4>2, <4>3, <4>4, <4>5
    <3>3. CASE o # d
      BY <1>5, <3>1, <3>3
    <3> QED
      BY <3>2, <3>3
  <2>2. \A o \in Directions :
          buffer'[o] \o wire'[o] = FlattenSeq(Pending(sent'[o], Len(received'[o])))
    BY <2>1
  <2> QED
    BY <2>2, Zenon DEF FramesInStep, Pending, Directions
<1> QED
  BY <1>4, <1>5, <1>6, <1>8, <1>9, <1>10

\* How many calls there are among the first messages.
LEMMA CallsCounted ==
  ASSUME NEW s, NEW n \in Nat
  PROVE  /\ IsFiniteSet(CallsAmong(s, n)) /\ Cardinality(CallsAmong(s, n)) \in 0..n
         /\ \A i \in 0..n : ~IsHeartBeat(s[n]) /\ i < n =>
              Cardinality(CallsAmong(s, i)) < Cardinality(CallsAmong(s, n))
<1>1. IsFiniteSet(1..n) /\ Cardinality(1..n) = n
  BY FS_Interval
<1>2. CallsAmong(s, n) \in SUBSET (1..n)
  BY DEF CallsAmong
<1>3. /\ IsFiniteSet(CallsAmong(s, n)) /\ Cardinality(CallsAmong(s, n)) <= n
      /\ Cardinality(CallsAmong(s, n)) \in Nat
  BY <1>1, <1>2, FS_Subset, FS_CardinalityType
<1>4. ASSUME NEW i \in 0..n, ~IsHeartBeat(s[n]), i < n
      PROVE  Cardinality(CallsAmong(s, i)) < Cardinality(CallsAmong(s, n))
  <2>1. CallsAmong(s, i) \in SUBSET CallsAmong(s, n)
    BY <1>4 DEF CallsAmong
  <2>2. n \in CallsAmong(s, n) /\ n \notin CallsAmong(s, i)
    BY <1>4 DEF CallsAmong
  <2>3. /\ IsFiniteSet(CallsAmong(s, i))
        /\ Cardinality(CallsAmong(s, i)) <= Cardinality(CallsAmong(s, n))
        /\ Cardinality(CallsAmong(s, n)) # Cardinality(CallsAmong(s, i))
    BY <1>3, <2>1, <2>2, FS_Subset
  <2>4. Cardinality(CallsAmong(s, i)) \in Nat
    BY <2>3, FS_CardinalityType
  <2> QED
    BY <1>3, <2>3, <2>4
<1> QED
  BY <1>3, <1>4

LEMMA CallsAdded ==
  ASSUME NEW s, NEW t, NEW n \in Nat, \A i \in 1..n : t[i] = s[i]
  PROVE  /\ \A i \in 0..n : CallsAmong(t, i) = CallsAmong(s, i)
         /\ ~IsHeartBeat(t[n + 1]) =>
              Cardinality(CallsAmong(t, n + 1)) = Cardinality(CallsAmong(s, n)) + 1
<1>1. ASSUME NEW i \in 0..n PROVE CallsAmong(t, i) = CallsAmong(s, i)
  <2>1. \A j \in 1..i : t[j] = s[j]
    OBVIOUS
  <2> QED
    BY <2>1, Zenon DEF CallsAmong
<1>2. ASSUME ~IsHeartBeat(t[n + 1])
      PROVE  Cardinality(CallsAmong(t, n + 1)) = Cardinality(CallsAmong(s, n)) + 1
  <2>1. 1..(n + 1) = 1..n \cup {n + 1}
    OBVIOUS
  <2>2. CallsAmong(t, n + 1) = CallsAmong(t, n) \cup {n + 1}
    BY <1>2, <2>1, Zenon DEF CallsAmong
  <2>3. CallsAmong(t, n) = CallsAmong(s, n)
    BY <1>1
  <2>4. n + 1 \notin CallsAmong(s, n)
    BY DEF CallsAmong
  <2>5. IsFiniteSet(CallsAmong(s, n))
    BY CallsCounted
  <2> QED
    BY <2>2, <2>3, <2>4, <2>5, FS_AddElement
<1> QED
  BY <1>1, <1>2

\* A message of the client is the next one, with the next number.
LEMMA SendUp ==
  ASSUME Stream, NEW m \in Sendable, Send(Up, m), Len(sent[Up]) < MaxSent,
         UNCHANGED <<buffer, received, answered>>, m.version = 1,
         ~IsHeartBeat(m) =>
           m.sequence = Sequence(Cardinality(CallsAmong(sent[Up], Len(sent[Up]))) + 1)
  PROVE  Stream'
<1> DEFINE n == Len(sent[Up])
<1>1. Up \in Directions /\ Down \in Directions \ {Up}
  BY DEF Directions, Up, Down
<1>2. /\ sent' \in [Directions -> Seq(Sendable)] /\ wire' \in [Directions -> Bytes]
      /\ Len(sent'[Up]) = n + 1 /\ n \in Nat /\ sent'[Up][n + 1] = m
      /\ \A i \in 1..n : sent'[Up][i] = sent[Up][i]
      /\ sent'[Down] = sent[Down]
      /\ Delivered' /\ FramesInStep'
  BY <1>1, SendKeeps
<1>3. TypeOK'
  BY <1>2 DEF Stream, TypeOK
<1>4. Numbered'
  <2>1. n + 1 <= MaxSent
    BY <1>2, AmpConnectionAssumption
  <2>2. ASSUME NEW i \in 1..(n + 1)
        PROVE  /\ sent'[Up][i].version = 1
               /\ ~IsHeartBeat(sent'[Up][i]) =>
                    sent'[Up][i].sequence =
                      Sequence(Cardinality(CallsAmong(sent'[Up], i)))
    <3>1. CASE i \in 1..n
      <4>1. sent'[Up][i] = sent[Up][i]
        BY <1>2, <3>1
      <4>2. CallsAmong(sent'[Up], i) = CallsAmong(sent[Up], i)
        <5>1. \A k \in 0..n : CallsAmong(sent'[Up], k) = CallsAmong(sent[Up], k)
          BY <1>2, CallsAdded
        <5>2. i \in 0..n
          BY <1>2, <3>1
        <5> QED
          BY <5>1, <5>2, Zenon
      <4> QED
        BY <3>1, <4>1, <4>2 DEF Stream, Numbered
    <3>2. CASE i = n + 1
      <4>1. sent'[Up][i] = m
        BY <1>2, <3>2
      <4>2. ASSUME ~IsHeartBeat(m)
            PROVE  Cardinality(CallsAmong(sent'[Up], i))
                     = Cardinality(CallsAmong(sent[Up], n)) + 1
        BY <1>2, <3>2, <4>1, <4>2, CallsAdded
      <4> QED
        BY <4>1, <4>2
    <3>3. i \in 1..n \/ i = n + 1
      BY <1>2
    <3> QED
      BY <3>1, <3>2, <3>3
  <2> QED
    BY <1>2, <2>1, <2>2 DEF Numbered
<1>5. Answering'
  BY <1>2 DEF Stream, Answering
<1> QED
  BY <1>2, <1>3, <1>4, <1>5 DEF Stream

LEMMA SendRequestKeeps ==
  ASSUME Stream, NEW call \in Call, SendRequest(call)
  PROVE  Stream'
<1> DEFINE s == sent[Up]
           c == Cardinality(CallsAmong(s, Len(s))) + 1
           m == CreateRequestMessage(call, Sequence(c))
<1>1. Len(s) < MaxSent /\ Send(Up, m) /\ UNCHANGED <<buffer, received, answered>>
  BY DEF SendRequest, CallsAmong
<1>2. Len(s) \in Nat
  <2>1. s \in Seq(Sendable)
    BY DEF Stream, TypeOK, Directions
  <2> QED
    BY <2>1, LenProperties
<1>3. c \in 1..MaxSent
  <2>1. Cardinality(CallsAmong(s, Len(s))) \in 0..Len(s)
    BY <1>2, CallsCounted
  <2> QED
    BY <1>1, <1>2, <2>1, AmpConnectionAssumption
<1> HIDE DEF c
<1>4. Sequence(c) \in Int32
  BY <1>3, SequenceNumbers
<1>5. m \in Sendable /\ m.version = 1 /\ m.sequence = Sequence(c)
  BY <1>4, RequestSendable
<1> HIDE DEF m
<1> QED
  BY <1>1, <1>5, SendUp DEF c

LEMMA SendHeartBeatKeeps ==
  ASSUME Stream, SendHeartBeat
  PROVE  Stream'
<1> DEFINE m == CreateHeartBeatMessage
<1>1. /\ Len(sent[Up]) < MaxSent /\ Send(Up, m)
      /\ UNCHANGED <<buffer, received, answered>>
  BY DEF SendHeartBeat
<1>2. m \in Sendable /\ m.version = 1 /\ IsHeartBeat(m)
  BY HeartBeatSendable
<1> HIDE DEF m
<1> QED
  BY <1>1, <1>2, SendUp

LEMMA AnswerKeeps ==
  ASSUME Stream, NEW i \in 1..Len(received[Up]), Answer(i)
  PROVE  Stream'
<1>1. Up \in Directions \ {Down} /\ Down \in Directions
  BY DEF Directions, Up, Down
<1>2. received[Up] \in Seq(Sendable)
  BY <1>1 DEF Stream, TypeOK
<1>3. received[Up][i] \in Sendable /\ Len(received[Up]) \in Nat
  BY <1>2, ElementOfSeq, LenProperties
<1>4. PICK reply \in Replies(received[Up][i]) : Send(Down, reply)
  BY DEF Answer
<1>5. reply \in Sendable
  BY <1>3, RepliesSendable
<1>6. answered' = Append(answered, i) /\ UNCHANGED <<buffer, received>>
  BY DEF Answer
<1>7. /\ sent' \in [Directions -> Seq(Sendable)] /\ wire' \in [Directions -> Bytes]
      /\ Len(sent'[Down]) = Len(sent[Down]) + 1 /\ Len(sent[Down]) \in Nat
      /\ sent'[Down][Len(sent[Down]) + 1] = reply
      /\ \A k \in 1..Len(sent[Down]) : sent'[Down][k] = sent[Down][k]
      /\ sent'[Up] = sent[Up]
      /\ Delivered' /\ FramesInStep'
  BY <1>1, <1>4, <1>5, <1>6, SendKeeps
<1>8. /\ answered \in Seq(Nat) /\ i \in Nat /\ Len(sent[Down]) = Len(answered)
      /\ \A k \in 1..Len(answered) :
           /\ answered[k] \in 1..Len(received[Up])
           /\ sent[Down][k] \in Replies(received[Up][answered[k]])
  BY <1>3 DEF Stream, TypeOK, Answering
<1>9. /\ answered' \in Seq(Nat) /\ Len(answered') = Len(answered) + 1
      /\ answered'[Len(answered) + 1] = i
      /\ \A k \in 1..Len(answered) : answered'[k] = answered[k]
  BY <1>6, <1>8, AppendProperties
<1>10. TypeOK'
  BY <1>6, <1>7, <1>9 DEF Stream, TypeOK
<1>11. Numbered'
  BY <1>7 DEF Stream, Numbered
<1>12. Answering'
  <2>1. ASSUME NEW k \in 1..(Len(answered) + 1)
        PROVE  /\ answered'[k] \in 1..Len(received[Up])
               /\ sent'[Down][k] \in Replies(received[Up][answered'[k]])
    <3>1. CASE k \in 1..Len(answered)
      BY <1>7, <1>8, <1>9, <3>1
    <3>2. CASE k = Len(answered) + 1
      BY <1>4, <1>7, <1>8, <1>9, <3>2
    <3>3. k \in 1..Len(answered) \/ k = Len(answered) + 1
      BY <1>7, <1>8
    <3> QED
      BY <3>1, <3>2, <3>3
  <2> QED
    BY <1>6, <1>7, <1>8, <1>9, <2>1 DEF Answering
<1> QED
  BY <1>7, <1>10, <1>11, <1>12 DEF Stream

LEMMA StreamTypes ==
  ASSUME Stream, NEW d \in Directions
  PROVE  /\ sent[d] \in Seq(Sendable) /\ received[d] \in Seq(Sendable)
         /\ wire[d] \in Bytes /\ buffer[d] \in Bytes
         /\ Len(sent[d]) \in Nat /\ Len(received[d]) \in 0..Len(sent[d])
         /\ \A k \in 1..Len(received[d]) : received[d][k] = Normal(sent[d][k], Codec)
         /\ buffer[d] \o wire[d] = FlattenSeq(Pending(sent[d], Len(received[d])))
<1>1. /\ sent[d] \in Seq(Sendable) /\ received[d] \in Seq(Sendable)
      /\ wire[d] \in Bytes /\ buffer[d] \in Bytes
  BY DEF Stream, TypeOK
<1>2. Len(sent[d]) \in Nat /\ Len(received[d]) \in Nat
  BY <1>1, LenProperties
<1>3. /\ Len(received[d]) <= Len(sent[d])
      /\ \A k \in 1..Len(received[d]) : received[d][k] = Normal(sent[d][k], Codec)
  BY DEF Stream, Delivered
<1>4. buffer[d] \o wire[d] = FlattenSeq(Pending(sent[d], Len(received[d])))
  BY FramesAsPending DEF Stream
<1> QED
  BY <1>1, <1>2, <1>3, <1>4

LEMMA ArriveKeeps ==
  ASSUME Stream, NEW d \in Directions, Arrive(d)
  PROVE  Stream'
<1>1. /\ wire[d] # <<>> /\ UNCHANGED <<sent, received, answered>>
      /\ buffer' = [buffer EXCEPT ![d] = Append(@, Head(wire[d]))]
      /\ wire' = [wire EXCEPT ![d] = Tail(@)]
  BY DEF Arrive
<1>2. wire[d] \in Bytes /\ buffer[d] \in Bytes
  BY StreamTypes
<1> DEFINE b == Append(buffer[d], Head(wire[d]))
           w == Tail(wire[d])
<1>3. b \in Bytes /\ w \in Bytes /\ b \o w = buffer[d] \o wire[d]
  BY <1>1, <1>2, ByteArrives
<1>4. buffer' = [buffer EXCEPT ![d] = b] /\ wire' = [wire EXCEPT ![d] = w]
  BY <1>1
<1> HIDE DEF b, w
<1>5. TypeOK'
  BY <1>1, <1>3, <1>4 DEF Stream, TypeOK
<1>6. Delivered' /\ Numbered' /\ Answering'
  BY <1>1 DEF Stream, Delivered, Numbered, Answering
<1>7. FramesInStep'
  <2>1. ASSUME NEW o \in Directions
        PROVE  buffer'[o] \o wire'[o] = FlattenSeq(Pending(sent'[o], Len(received'[o])))
    <3>1. buffer[o] \o wire[o] = FlattenSeq(Pending(sent[o], Len(received[o])))
      BY StreamTypes
    <3>2. buffer'[o] \o wire'[o] = buffer[o] \o wire[o]
      <4>1. CASE o = d
        <5>1. buffer'[d] = b /\ wire'[d] = w
          BY <1>4 DEF Stream, TypeOK
        <5> QED
          BY <1>3, <4>1, <5>1
      <4>2. CASE o # d
        <5>1. buffer'[o] = buffer[o] /\ wire'[o] = wire[o]
          BY <1>4, <4>2 DEF Stream, TypeOK
        <5> QED
          BY <5>1
      <4> QED
        BY <4>1, <4>2
    <3> QED
      BY <1>1, <3>1, <3>2
  <2> QED
    BY <2>1, Zenon DEF FramesInStep, Pending, Directions
<1> QED
  BY <1>5, <1>6, <1>7 DEF Stream

LEMMA ReadFrameKeeps ==
  ASSUME Stream, NEW d \in Directions, ReadFrame(d)
  PROVE  Stream'
<1> DEFINE r == Len(received[d])
           b == buffer[d]
           w == wire[d]
           n == FrameLength(b)
           rest == FlattenSeq(Pending(sent[d], r + 1))
           m == sent[d][r + 1]
           y == SubSeq(b, n + 1, Len(b))
<1>1. /\ sent[d] \in Seq(Sendable) /\ received[d] \in Seq(Sendable)
      /\ w \in Bytes /\ b \in Bytes
      /\ Len(sent[d]) \in Nat /\ r \in 0..Len(sent[d])
      /\ \A k \in 1..r : received[d][k] = Normal(sent[d][k], Codec)
      /\ b \o w = FlattenSeq(Pending(sent[d], r))
  BY StreamTypes
<1>2. HasFrame(b)
  BY DEF ReadFrame
\* A frame is there only when a message is pending.
<1>3. r < Len(sent[d])
  <2> SUFFICES ASSUME r = Len(sent[d]) PROVE FALSE
    BY <1>1
  <2> DEFINE p == Pending(sent[d], r)
  <2>1. p \in Seq(Bytes) /\ Len(p) = 0
    BY <1>1, PendingType
  <2> HIDE DEF p
  <2>2. p = <<>> /\ FlattenSeq(p) = p
    <3>1. FlattenSeq(p) = p
      BY <2>1, Zenon DEF FlattenSeq
    <3> QED
      BY <2>1, <3>1, EmptySeq
  <2>3. b \o w = <<>>
    BY <1>1, <2>2 DEF p
  <2>4. Len(b) >= 5
    BY <1>2 DEF HasFrame
  <2>5. Len(b) \in Nat /\ Len(w) \in Nat /\ Len(b \o w) = Len(b) + Len(w)
    BY <1>1, LenProperties, ConcatProperties DEF Bytes
  <2>6. Len(<<>>) = 0
    BY EmptySeq
  <2> QED
    BY <2>3, <2>4, <2>5, <2>6
\* It is the frame of the first of them.
<1>4. /\ m \in Sendable /\ r + 1 \in 1..Len(sent[d]) /\ rest \in Bytes
      /\ b \o w = Encode(m, Codec) \o rest
  <2> DEFINE p == Pending(sent[d], r)
  <2>1. /\ p # <<>> /\ r + 1 \in 1..Len(sent[d]) /\ m \in Sendable
        /\ p[1] = Encode(m, Codec) /\ Tail(p) = Pending(sent[d], r + 1)
    BY <1>1, <1>3, PendingRead
  <2>2. p \in Seq(Bytes)
    BY <1>1, PendingType
  <2> HIDE DEF p
  <2>3. FlattenSeq(Tail(p)) \in Bytes /\ FlattenSeq(p) = p[1] \o FlattenSeq(Tail(p))
    BY <2>1, <2>2, FlattenFirst
  <2> QED
    BY <1>1, <2>1, <2>3 DEF p
<1> HIDE DEF rest, m, y
<1>5. /\ SubSeq(b, 1, n) = Encode(m, Codec) /\ y \in Bytes /\ y \o w = rest
  BY <1>1, <1>2, <1>4, FrameIsCut DEF y
<1>6. ~Rejects(Codec, SubSeq(b, 1, n)) /\ Decode(SubSeq(b, 1, n)) = Normal(m, Codec)
  BY <1>4, <1>5, FrameOf
<1>7. /\ buffer' = [buffer EXCEPT ![d] = y]
      /\ received' = [received EXCEPT ![d] = Append(@, Normal(m, Codec))]
      /\ UNCHANGED <<sent, wire, answered>>
  BY <1>6 DEF ReadFrame, y
<1>8. Normal(m, Codec) \in Sendable
  BY <1>4, NormalSendable
<1> DEFINE q == Append(received[d], Normal(m, Codec))
<1>9. /\ q \in Seq(Sendable) /\ Len(q) = r + 1 /\ q[r + 1] = Normal(m, Codec)
      /\ \A k \in 1..r : q[k] = received[d][k]
  BY <1>1, <1>8, AppendProperties
<1>10. received' = [received EXCEPT ![d] = q]
  BY <1>7
<1> HIDE DEF q
<1>11. /\ buffer'[d] = y /\ received'[d] = q
       /\ \A o \in Directions \ {d} : buffer'[o] = buffer[o] /\ received'[o] = received[o]
  BY <1>7, <1>10 DEF Stream, TypeOK
<1>12. TypeOK'
  BY <1>5, <1>7, <1>9, <1>10 DEF Stream, TypeOK
<1>13. Delivered'
  <2> SUFFICES ASSUME NEW o \in Directions
      PROVE  /\ Len(received'[o]) <= Len(sent[o])
             /\ \A k \in 1..Len(received'[o]) :
                  received'[o][k] = Normal(sent[o][k], Codec)
    BY <1>7 DEF Delivered
  <2>1. CASE o = d
    <3>1. ASSUME NEW k \in 1..(r + 1) PROVE q[k] = Normal(sent[d][k], Codec)
      <4>1. k \in 1..r \/ k = r + 1
        BY <1>1
      <4> QED
        BY <1>1, <1>9, <4>1 DEF m
    <3> QED
      BY <1>4, <1>9, <1>11, <2>1, <3>1
  <2>2. CASE o # d
    BY <1>11, <2>2 DEF Stream, Delivered
  <2> QED
    BY <2>1, <2>2
<1>14. FramesInStep'
  <2>1. ASSUME NEW o \in Directions
        PROVE  buffer'[o] \o wire'[o] = FlattenSeq(Pending(sent'[o], Len(received'[o])))
    <3>1. CASE o = d
      BY <1>5, <1>7, <1>9, <1>11, <3>1 DEF rest
    <3>2. CASE o # d
      <4>1. buffer[o] \o wire[o] = FlattenSeq(Pending(sent[o], Len(received[o])))
        BY StreamTypes
      <4> QED
        BY <1>7, <1>11, <3>2, <4>1
    <3> QED
      BY <3>1, <3>2
  <2> QED
    BY <2>1, Zenon DEF FramesInStep, Pending, Directions
<1>15. Numbered'
  BY <1>7 DEF Stream, Numbered
\* What was answered is still there.
<1>16. Answering'
  <2>1. ASSUME NEW k \in 1..Len(received[Up])
        PROVE  k \in 1..Len(received'[Up]) /\ received'[Up][k] = received[Up][k]
    <3>1. CASE d = Up
      BY <1>1, <1>9, <1>11, <3>1
    <3>2. CASE d # Up
      BY <1>11, <3>2 DEF Directions
    <3> QED
      BY <3>1, <3>2
  <2>2. \A k \in 1..Len(answered) :
          /\ answered[k] \in 1..Len(received[Up])
          /\ sent[Down][k] \in Replies(received[Up][answered[k]])
    BY DEF Stream, Answering
  <2>3. Len(sent[Down]) = Len(answered)
    BY DEF Stream, Answering
  <2> QED
    BY <1>7, <2>1, <2>2, <2>3 DEF Answering
<1> QED
  BY <1>12, <1>13, <1>14, <1>15, <1>16 DEF Stream

LEMMA StreamNext == Stream /\ [Next]_vars => Stream'
<1> SUFFICES ASSUME Stream, [Next]_vars PROVE Stream'
  OBVIOUS
<1>1. ASSUME NEW call \in Call, SendRequest(call) PROVE Stream'
  BY <1>1, SendRequestKeeps
<1>2. CASE SendHeartBeat
  BY <1>2, SendHeartBeatKeeps
<1>3. ASSUME NEW i \in 1..Len(received[Up]), Answer(i) PROVE Stream'
  BY <1>3, AnswerKeeps
<1>4. ASSUME NEW d \in {Up, Down}, Arrive(d) PROVE Stream'
  BY <1>4, ArriveKeeps DEF Directions
<1>5. ASSUME NEW d \in {Up, Down}, ReadFrame(d) PROVE Stream'
  BY <1>5, ReadFrameKeeps DEF Directions
<1>6. CASE UNCHANGED vars
  BY <1>6 DEF vars, Stream, TypeOK, Delivered, FramesInStep, Numbered, Answering
<1> QED
  BY <1>1, <1>2, <1>3, <1>4, <1>5, <1>6 DEF Next

\* The invariant of a connection, in both directions at once: what was decoded is what
\* was sent, in turn; what is on the way is the frames of the rest; the requests carry
\* the numbers of their calls; and every reply is one to a request that was decoded.
THEOREM StreamInvariant == Spec => []Stream
BY StreamInit, StreamNext, PTL DEF Spec

\* Whatever is sent and wherever TCP cuts it, LengthFieldBasedFrameDecoder never
\* loses step: the bytes that are there and that are still to come are the frames
\* of the messages that were not decoded yet.
THEOREM FramesStayInStep == Spec => []FramesInStep
<1>1. Stream => FramesInStep
  BY DEF Stream
<1> QED
  BY <1>1, StreamInvariant, PTL

LEMMA DeliveredIsPrefix == Stream => DeliveredAsSent
<1> SUFFICES ASSUME Stream, NEW d \in {Up, Down}
    PROVE  IsPrefix(received[d], [k \in 1..Len(sent[d]) |-> Normal(sent[d][k], Codec)])
  BY DEF DeliveredAsSent
<1> DEFINE s == sent[d]
           r == received[d]
           n == Len(s)
           t == [k \in 1..n |-> Normal(s[k], Codec)]
<1>1. /\ s \in Seq(Sendable) /\ r \in Seq(Sendable) /\ n \in Nat /\ Len(r) \in 0..n
      /\ \A k \in 1..Len(r) : r[k] = Normal(s[k], Codec)
  BY StreamTypes DEF Directions
<1> HIDE DEF s, r
<1>2. \A k \in 1..n : Normal(s[k], Codec) \in Sendable
  BY <1>1, ElementOfSeq, NormalSendable
<1>3. t \in [1..n -> Sendable]
  BY <1>2
<1>4. \A k \in 1..n : t[k] = Normal(s[k], Codec)
  OBVIOUS
<1> HIDE DEF n, t
<1>5. t \in Seq(Sendable) /\ Len(t) = n
  BY <1>1, <1>3, FunctionIsSeq
<1> DEFINE x == SubSeq(t, 1, Len(r))
<1>6. /\ x \in Seq(Sendable) /\ Len(x) = Len(r)
      /\ \A k \in 1..Len(r) : x[k] = t[k]
  <2>1. \A k \in 1..Len(r) : t[k] \in Sendable
    BY <1>1, <1>3
  <2>2. /\ x \in Seq(Sendable)
        /\ Len(x) = IF 1 <= Len(r) THEN Len(r) - 1 + 1 ELSE 0
        /\ \A k \in 1..(Len(r) - 1 + 1) : x[k] = t[1 + k - 1]
    BY <1>1, <2>1, SubSeqProperties
  <2> QED
    BY <1>1, <2>2
<1> HIDE DEF x
<1>7. \A k \in 1..Len(r) : x[k] = r[k]
  BY <1>1, <1>4, <1>6
<1>8. x = r
  BY <1>1, <1>6, <1>7, SeqEqual
<1>9. SubSeq(r, 1, Len(r)) = r
  BY <1>1, SubSeqFull
<1>10. IsPrefix(r, t)
  BY <1>1, <1>5, <1>8, <1>9 DEF IsPrefix, x
<1> QED
  BY <1>10 DEF r, s, t, n

\* What AmpDecodeHandler gives out is what the other end sent, in its order and
\* with all its fields, so far: nothing is lost, repeated, swapped or changed.
THEOREM DeliversWhatIsSent == Spec => []DeliveredAsSent
BY DeliveredIsPrefix, StreamInvariant, PTL

LEMMA LowRange ==
  ASSUME NEW x \in Int
  PROVE  Low(x) = x <=> x \in UShort
<1>1. Low(x) \in 0..65535
  BY DEF Low
<1>2. Low(x) = x => x \in UShort
  BY <1>1 DEF UShort
<1>3. x \in UShort => Low(x) = x
  BY ShortRange
<1> QED
  BY <1>2, <1>3

\* The number of a call: how many calls there are up to it.
CallNumber(n) == Cardinality(CallsAmong(sent[Up], n))

LEMMA CallNumbers ==
  ASSUME Stream,
         NEW n \in 1..Len(sent[Up]), ~IsHeartBeat(sent[Up][n]),
         NEW k \in 1..Len(sent[Up]), ~IsHeartBeat(sent[Up][k])
  PROVE  /\ CallNumber(n) \in 1..MaxSent
         /\ CallNumber(n) = CallNumber(k) => n = k
<1>1. Len(sent[Up]) \in Nat /\ Len(sent[Up]) <= MaxSent /\ MaxSent \in Nat
  BY StreamTypes, AmpConnectionAssumption DEF Directions, Stream, Numbered
<1>2. ASSUME NEW x \in 1..Len(sent[Up]), ~IsHeartBeat(sent[Up][x])
      PROVE  /\ CallNumber(x) \in 0..x
             /\ \A i \in 0..x : i < x => CallNumber(i) < CallNumber(x)
  BY <1>1, <1>2, CallsCounted DEF CallNumber
<1>3. CallNumber(0) \in 0..0
  BY CallsCounted DEF CallNumber
<1>4. CallNumber(n) \in 1..MaxSent
  <2>1. CallNumber(n) \in 0..n /\ 0 \in 0..n /\ 0 < n /\ n <= MaxSent
    BY <1>1, <1>2
  <2>2. CallNumber(0) < CallNumber(n)
    BY <1>2, <2>1
  <2> QED
    BY <1>1, <1>3, <2>1, <2>2
<1>5. CallNumber(n) = CallNumber(k) => n = k
  <2>1. CallNumber(n) \in 0..n /\ CallNumber(k) \in 0..k
    BY <1>2
  <2>2. CASE n < k
    <3>1. CallNumber(n) < CallNumber(k)
      BY <1>1, <1>2, <2>2
    <3> QED
      BY <1>1, <2>1, <3>1
  <2>3. CASE k < n
    <3>1. CallNumber(k) < CallNumber(n)
      BY <1>1, <1>2, <2>3
    <3> QED
      BY <1>1, <2>1, <3>1
  <2> QED
    BY <1>1, <2>2, <2>3
<1> QED
  BY <1>4, <1>5

LEMMA AnswersAreMatched == Stream => AnswersMatch
<1> SUFFICES ASSUME Stream, NEW k \in 1..Len(received[Down]), NEW i \in 1..Len(sent[Up]),
                    ~IsHeartBeat(sent[Up][i])
    PROVE  LET request == sent[Up][i]
               unknown == /\ ~IsHeartBeat(request)
                          /\ <<request.serviceId, request.messageId>> \notin Served
           IN Id(received[Down][k]) = Id(request)
                <=> /\ answered[k] = i
                    /\ unknown => request.serviceId \in UShort
  BY DEF AnswersMatch
<1> DEFINE a == answered[k]
           q == sent[Up][i]         \* the request in question
           s == sent[Up][a]         \* the request that was answered,
           m == received[Up][a]     \* as the server has it,
           p == sent[Down][k]       \* and its reply
           o == received[Down][k]
           unknown == <<s.serviceId, s.messageId>> \notin Served
<1>1. /\ Len(received[Down]) \in 0..Len(sent[Down]) /\ Len(sent[Down]) = Len(answered)
      /\ Len(sent[Down]) \in Nat /\ sent[Down] \in Seq(Sendable)
      /\ o = Normal(p, Codec)
  BY StreamTypes DEF Directions, Stream, Answering
<1>2. k \in 1..Len(answered) /\ k \in 1..Len(sent[Down])
  BY <1>1
<1>3. a \in 1..Len(received[Up]) /\ p \in Replies(m)
  BY <1>2 DEF Stream, Answering
<1>4. /\ Len(received[Up]) \in 0..Len(sent[Up]) /\ Len(sent[Up]) \in Nat
      /\ sent[Up] \in Seq(Sendable) /\ received[Up] \in Seq(Sendable)
      /\ m = Normal(s, Codec)
  BY <1>3, StreamTypes DEF Directions
<1>5. a \in 1..Len(sent[Up]) /\ a \in Nat /\ i \in Nat
  BY <1>3, <1>4
<1>6. s \in Sendable /\ q \in Sendable /\ m \in Sendable /\ p \in Sendable
  BY <1>1, <1>2, <1>3, <1>4, <1>5, ElementOfSeq
<1>7. s.version = 1
  BY <1>5 DEF Stream, Numbered
<1> HIDE DEF a, q, s, m, p, o, unknown
<1>8. /\ m.serviceId = s.serviceId /\ m.messageId = s.messageId
      /\ m.sequence = s.sequence /\ m.version = 1
  BY <1>4, <1>6, <1>7, NormalSendable
<1>9. IsHeartBeat(m) <=> IsHeartBeat(s)
  BY <1>8 DEF IsHeartBeat
<1>10. /\ p.serviceId = s.serviceId /\ p.messageId = s.messageId
       /\ p.sequence = s.sequence
       /\ p.version = IF ~IsHeartBeat(s) /\ unknown THEN 0 ELSE 1
  BY <1>3, <1>6, <1>8, <1>9, RepliesSendable DEF unknown
<1>11. /\ o.messageId = s.messageId /\ o.sequence = s.sequence
       /\ o.serviceId = IF ~IsHeartBeat(s) /\ unknown THEN Low(s.serviceId)
                        ELSE s.serviceId
  BY <1>1, <1>6, <1>10, NormalSendable
<1>12. Id(o) = Id(q) <=>
         o.serviceId = q.serviceId /\ o.messageId = q.messageId /\ o.sequence = q.sequence
  BY DEF Id
\* Heartbeats are answered by themselves, and no call has their id.
<1>13. CASE IsHeartBeat(s)
  <2>1. a # i
    BY <1>13 DEF a, q, s
  <2>2. Id(o) # Id(q)
    BY <1>11, <1>12, <1>13 DEF IsHeartBeat, q
  <2> QED
    BY <2>1, <2>2 DEF a, q, o
\* The number alone tells the calls apart.
<1>14. CASE ~IsHeartBeat(s)
  <2>1. s.sequence = q.sequence => a = i
    <3>1. /\ s.sequence = Sequence(CallNumber(a))
          /\ q.sequence = Sequence(CallNumber(i))
      BY <1>5, <1>14 DEF Stream, Numbered, CallNumber, q, s
    <3>2. CallNumber(a) \in 1..MaxSent /\ CallNumber(i) \in 1..MaxSent
      BY <1>5, <1>14, CallNumbers DEF s
    <3>3. CallNumber(a) = CallNumber(i) => a = i
      BY <1>5, <1>14, CallNumbers DEF s
    <3>4. Sequence(CallNumber(a)) = Sequence(CallNumber(i)) => CallNumber(a) = CallNumber(i)
      BY <3>2, SequenceNumbers, Zenon
    <3> QED
      BY <3>1, <3>3, <3>4, Zenon
  <2>2. a = i => s = q
    BY DEF s, q
  <2>3. Low(s.serviceId) = s.serviceId <=> s.serviceId \in UShort
    <3>1. s.serviceId \in Int
      BY <1>6, IntRange DEF Sendable, Message
    <3> QED
      BY <3>1, LowRange
  <2>4. Id(o) = Id(q) <=> a = i /\ (unknown => s.serviceId \in UShort)
    BY <1>11, <1>12, <1>14, <2>1, <2>2, <2>3
  <2> QED
    BY <1>14, <2>2, <2>4 DEF a, q, o, unknown
<1> QED
  BY <1>13, <1>14

\* A reply finds the call that it belongs to and no other one of the connection,
\* for as many calls as there are sequence numbers: only the reply that
\* NotFoundServiceActor sends to a service id of more than 16 bits finds none.
THEOREM AnswersFindTheirCalls == Spec => []AnswersMatch
BY AnswersAreMatched, StreamInvariant, PTL
=============================================================================
