----------------------------- MODULE AmpProtocol -----------------------------
(***************************************************************************)
(* The binary protocol: AmpMessage, and its form on the wire as            *)
(* AmpProtocol.Encode writes it and AmpProtocol.Decode reads it.  Numbers  *)
(* have the widths of the code: bytes, unsigned shorts, and signed ints of *)
(* four bytes, the highest first.                                          *)
(***************************************************************************)
EXTENDS Integers, Sequences

CONSTANT NoData   \* the null in the place of a message's data

ASSUME NoDataAssumption == NoData \notin Seq(0..255)

Byte   == 0..255
UShort == 0..65535
MaxInt == 2147483647
Int32  == {x \in Int : -MaxInt - 1 <= x /\ x <= MaxInt}

VERSION_0_HEAD_LENGTH == 18
VERSION_1_HEAD_LENGTH == 21

\* RpcMessageType and CodecType.
Request  == 1
Response == 2
Protobuf == 0
Unknown  == 9

Message ==
  [version : {0, 1}, sequence : Int32, type : Byte, serviceId : Int32,
   messageId : UShort, code : Int32, codec : Byte, data : Seq(Byte) \cup {NoData}]

----------------------------------------------------------------------------
\* The definitions marked "Wrong:" are variants of the definition that follows,
\* each with a bug that a property of AmpConnection rules out; the specification
\* does not use them.

HeadLength(v) == IF v = 0 THEN VERSION_0_HEAD_LENGTH ELSE VERSION_1_HEAD_LENGTH
Body(m)       == IF m.data = NoData THEN <<>> ELSE m.data
Length(m)     == HeadLength(m.version) + Len(Body(m))

Id(m)          == <<m.serviceId, m.messageId, m.sequence>>
IsHeartBeat(m) == m.serviceId = 0 /\ m.messageId = 0

\* WriteInt, WriteUnsignedShort (and the cast to ushort).
IntBytes(x) ==
  <<(x \div 16777216) % 256, (x \div 65536) % 256, (x \div 256) % 256, x % 256>>
ShortBytes(x) == <<(x \div 256) % 256, x % 256>>

\* ReadInt, ReadUnsignedShort, from the i-th byte on.
ReadInt(b, i) ==
  (IF b[i] < 128 THEN b[i] ELSE b[i] - 256) * 16777216
    + b[i + 1] * 65536 + b[i + 2] * 256 + b[i + 3]

ReadShort(b, i) == b[i] * 256 + b[i + 1]

Encode(m, codec) ==
  <<m.version>> \o IntBytes(Length(m)) \o IntBytes(m.sequence) \o <<m.type>>
    \o (IF m.version = 0 THEN ShortBytes(m.serviceId) ELSE IntBytes(m.serviceId))
    \o ShortBytes(m.messageId) \o IntBytes(m.code)
    \o (IF m.version = 1 THEN <<codec>> ELSE <<>>)
    \o Body(m)

\* Decode throws.
Rejects(codec, b) ==
  \/ b[1] \notin {0, 1}
  \/ Len(b) < HeadLength(b[1])
  \/ b[1] = 1 /\ b[21] # codec
  \/ ReadInt(b, 2) > Len(b)

\* Wrong: the code is read where version 1 has it.
DecodeOneLayout(b) ==
  LET head == HeadLength(b[1])
      end  == ReadInt(b, 2)
  IN [version   |-> b[1],
      sequence  |-> ReadInt(b, 6),
      type      |-> b[10],
      serviceId |-> IF b[1] = 0 THEN ReadShort(b, 11) ELSE ReadInt(b, 11),
      messageId |-> ReadShort(b, head - IF b[1] = 0 THEN 5 ELSE 6),
      code      |-> ReadInt(b, head - 4),
      codec     |-> IF b[1] = 0 THEN Protobuf ELSE b[21],
      data      |-> IF end > head THEN SubSeq(b, head + 1, end) ELSE NoData]

Decode(b) ==
  LET head == HeadLength(b[1])
      end  == ReadInt(b, 2)
  IN [version   |-> b[1],
      sequence  |-> ReadInt(b, 6),
      type      |-> b[10],
      serviceId |-> IF b[1] = 0 THEN ReadShort(b, 11) ELSE ReadInt(b, 11),
      messageId |-> ReadShort(b, head - IF b[1] = 0 THEN 5 ELSE 6),
      code      |-> ReadInt(b, head - IF b[1] = 0 THEN 3 ELSE 4),
      codec     |-> IF b[1] = 0 THEN Protobuf ELSE b[21],
      data      |-> IF end > head THEN SubSeq(b, head + 1, end) ELSE NoData]

\* What is left of a message after encoding and decoding: in version 0 the lower
\* half of the service id and no codec; empty data are no data.
Normal(m, codec) ==
  [version   |-> m.version,
   sequence  |-> m.sequence,
   type      |-> m.type,
   serviceId |-> IF m.version = 0 THEN m.serviceId % 65536 ELSE m.serviceId,
   messageId |-> m.messageId,
   code      |-> m.code,
   codec     |-> IF m.version = 0 THEN Protobuf ELSE codec,
   data      |-> IF m.data = <<>> THEN NoData ELSE m.data]
=============================================================================
