---------------------------- MODULE AmpConnection ----------------------------
(***************************************************************************)
(* One connection: the client's requests and heartbeats go up and the      *)
(* server's replies come down as two streams of bytes that TCP cuts        *)
(* anywhere.  Each end encodes what it sends (AmpEncodeHandler), cuts      *)
(* what arrives into frames again (LengthFieldBasedFrameDecoder, with the  *)
(* numbers of AmpProtocol) and decodes each frame (AmpDecodeHandler).      *)
(*                                                                         *)
(* Both ends have the same serializer.  The connection stays up: what      *)
(* happens to it otherwise is TransportFactory's.                          *)
(***************************************************************************)
EXTENDS AmpProtocol, SequencesExt

CONSTANTS
  Codec,      \* the CodecType of the serializer
  Call,       \* what a client asks for: records [serviceId, messageId, data]
  Served,     \* the methods <<serviceId, messageId>> that have a handler
  Result,     \* how a handler may end: records [code, data]
  Start,      \* the sequence number that the invoker has come to
  MaxSent     \* bound: messages that the client sends

\* The sequence numbers come round once at most.
ASSUME AmpConnectionAssumption ==
  /\ Codec \in Byte /\ Start \in Int32
  /\ MaxSent \in Nat /\ MaxSent \div 2 <= MaxInt

\* Calls and results are of their C# types; a message with its head is a byte array.
ASSUME ContentAssumption ==
  /\ \A c \in Call : c.serviceId \in Int32 /\ c.messageId \in UShort
  /\ \A r \in Result : r.code \in Int32
  /\ \A x \in Call \cup Result :
       x.data # NoData =>
         x.data \in Seq(Byte) /\ Len(x.data) <= MaxInt - HeadLength(1)

CODE_SERVICE_NOT_FOUND == -10242404

Up   == "up"     \* from the client to the server
Down == "down"

VARIABLES
  sent,       \* sent[d]: the messages sent in direction d
  wire,       \* wire[d]: bytes on their way
  buffer,     \* buffer[d]: bytes that have arrived, not yet a frame
  received,   \* received[d]: the messages decoded
  answered    \* answered[k]: which request the k-th reply answers

vars == <<sent, wire, buffer, received, answered>>

Init ==
  /\ sent = [d \in {Up, Down} |-> <<>>]
  /\ wire = [d \in {Up, Down} |-> <<>>]
  /\ buffer = [d \in {Up, Down} |-> <<>>]
  /\ received = [d \in {Up, Down} |-> <<>>]
  /\ answered = <<>>

----------------------------------------------------------------------------
CreateRequestMessage(call, sequence) ==
  [version |-> 1, sequence |-> sequence, type |-> Request,
   serviceId |-> call.serviceId, messageId |-> call.messageId,
   code |-> 0, codec |-> Codec, data |-> call.data]

CreateHeartBeatMessage ==
  [version |-> 1, sequence |-> 0, type |-> Request, serviceId |-> 0,
   messageId |-> 0, code |-> 0, codec |-> Unknown, data |-> NoData]

CreateResponseMessage(request) ==
  [request EXCEPT !.version = 1, !.type = Response, !.code = 0, !.data = NoData]

\* Interlocked.Increment on an int, n times.
Sequence(n) ==
  IF n <= MaxInt - Start THEN Start + n ELSE (n - (MaxInt - Start) - 1) - MaxInt - 1

\* The replies of NotFoundServiceActor (a message of its own, of version 0), of
\* HeartBeatServiceActor (the message itself) and of ActorCallHandler.
NotFoundReply(m) ==
  [CreateResponseMessage(m) EXCEPT
     !.version = 0, !.codec = Protobuf, !.code = CODE_SERVICE_NOT_FOUND]

\* Wrong: the reply has no sequence number.
RepliesUnnumbered(m) ==
  IF IsHeartBeat(m) THEN {[m EXCEPT !.type = Response]}
  ELSE IF <<m.serviceId, m.messageId>> \in Served
    THEN {[CreateResponseMessage(m) EXCEPT
             !.sequence = 0, !.code = r.code, !.data = r.data] : r \in Result}
  ELSE {NotFoundReply(m)}

Replies(m) ==
  IF IsHeartBeat(m) THEN {[m EXCEPT !.type = Response]}
  ELSE IF <<m.serviceId, m.messageId>> \in Served
    THEN {[CreateResponseMessage(m) EXCEPT !.code = r.code, !.data = r.data] :
            r \in Result}
  ELSE {NotFoundReply(m)}

\* Wrong: the length field counts what follows it, as if nothing was adjusted.
FrameLengthUnadjusted(b) == ReadInt(b, 2) + 5

\* LENGTH_FIELD_OFFSET, LENGTH_FIELD_LENGTH and LENGTH_ADJUSTMENT.
FrameLength(b) == ReadInt(b, 2) + (-5) + (1 + 4)

\* Wrong: a frame is read when a byte of the next one is there.
HasFrameAndMore(b) == Len(b) >= 1 + 4 /\ Len(b) > FrameLength(b)

HasFrame(b) == Len(b) >= 1 + 4 /\ Len(b) >= FrameLength(b)

----------------------------------------------------------------------------
Send(d, m) ==
  /\ sent' = [sent EXCEPT ![d] = Append(@, m)]
  /\ wire' = [wire EXCEPT ![d] = @ \o Encode(m, Codec)]

\* A call; its number is that of the messages other than heartbeats before it.
SendRequest(call) ==
  /\ Len(sent[Up]) < MaxSent
  /\ LET calls == {i \in 1..Len(sent[Up]) : ~IsHeartBeat(sent[Up][i])} IN
     Send(Up, CreateRequestMessage(call, Sequence(Cardinality(calls) + 1)))
  /\ UNCHANGED <<buffer, received, answered>>

\* OnIdleState.
SendHeartBeat ==
  /\ Len(sent[Up]) < MaxSent
  /\ Send(Up, CreateHeartBeatMessage)
  /\ UNCHANGED <<buffer, received, answered>>

\* The task of the i-th message received: the tasks end in any order.
Answer(i) ==
  /\ i \notin Range(answered)
  /\ received[Up][i].type # Response
  /\ \E reply \in Replies(received[Up][i]) : Send(Down, reply)
  /\ answered' = Append(answered, i)
  /\ UNCHANGED <<buffer, received>>

\* A byte arrives; a segment is several of these steps.
Arrive(d) ==
  /\ wire[d] # <<>>
  /\ buffer' = [buffer EXCEPT ![d] = Append(@, Head(wire[d]))]
  /\ wire' = [wire EXCEPT ![d] = Tail(@)]
  /\ UNCHANGED <<sent, received, answered>>

\* A frame is cut off the buffer and decoded; Decode may throw instead.
ReadFrame(d) ==
  /\ HasFrame(buffer[d])
  /\ LET n     == FrameLength(buffer[d])
         frame == SubSeq(buffer[d], 1, n)
     IN /\ buffer' = [buffer EXCEPT ![d] = SubSeq(@, n + 1, Len(@))]
        /\ received' = IF Rejects(Codec, frame) THEN received
                       ELSE [received EXCEPT ![d] = Append(@, Decode(frame))]
  /\ UNCHANGED <<sent, wire, answered>>

Next ==
  \/ \E call \in Call : SendRequest(call)
  \/ SendHeartBeat
  \/ \E i \in 1..Len(received[Up]) : Answer(i)
  \/ \E d \in {Up, Down} : Arrive(d) \/ ReadFrame(d)

\* TCP delivers, and an event loop reads the frames that are there.
Fairness == \A d \in {Up, Down} : WF_vars(Arrive(d)) /\ WF_vars(ReadFrame(d))

Spec == Init /\ [][Next]_vars /\ Fairness

----------------------------------------------------------------------------
(***************************************************************************)
(* Properties.                                                             *)
(***************************************************************************)

\* The decoder never loses step: wherever the stream is cut, what has arrived and
\* what is on its way are the frames of just those messages that were not decoded
\* yet.  A length off by one in either version would read every later message of
\* the connection from the wrong byte.
FramesInStep ==
  \A d \in {Up, Down} :
    buffer[d] \o wire[d] =
      FlattenSeq([k \in 1..(Len(sent[d]) - Len(received[d])) |->
                    Encode(sent[d][Len(received[d]) + k], Codec)])

\* Messages come out in the order they were sent in, with every field that their
\* version has room for.
DeliveredAsSent ==
  \A d \in {Up, Down} :
    IsPrefix(received[d], [k \in 1..Len(sent[d]) |-> Normal(sent[d][k], Codec)])

\* A reply carries the id that its request is registered by, and no other request
\* of the connection has it: the one exception is the reply to an unknown service
\* whose id takes more than 16 bits, which NotFoundServiceActor sends in version
\* 0.  That one finds no entry, and its call waits for the timeout.
AnswersMatch ==
  \A k \in 1..Len(received[Down]), i \in 1..Len(sent[Up]) :
    LET request == sent[Up][i]
        unknown == /\ ~IsHeartBeat(request)
                   /\ <<request.serviceId, request.messageId>> \notin Served
    IN ~IsHeartBeat(request) =>
         (Id(received[Down][k]) = Id(request)
            <=> /\ answered[k] = i
                /\ unknown => request.serviceId \in UShort)

\* What was sent arrives: a frame that is there in full is never waited for.
SentArrives ==
  \A d \in {Up, Down} : \A k \in 1..MaxSent :
    (Len(sent[d]) >= k) ~> (Len(received[d]) >= k)
=============================================================================
