---------------------------- MODULE ServerDispatch ----------------------------
(***************************************************************************)
(* The server's way from a message received to its reply: every message    *)
(* gets a task of its own (AmpPeachSocketService.OnReceive), which runs    *)
(* DefaultMessageHandler.ReceiveAsync and, for a registered method, the    *)
(* ActorCallHandler bound to it.  The tasks interleave.                    *)
(*                                                                         *)
(* Two tables are made at start-up from the same list of actors: methods   *)
(* are bound to the FIRST actor that declares them                         *)
(* (RegisterActorInvokerHandler), ids lead to the LAST actor that has them *)
(* (DefaultServiceActorLocator.Initialize).                                *)
(*                                                                         *)
(* The bodies of the services are external: each outcome that the handler  *)
(* tells apart may happen.                                                 *)
(***************************************************************************)
EXTENDS Integers, Sequences

CONSTANTS
  Message,        \* identities of the messages received
  Registrations,  \* lists of actors: sequences of records [id, interface,
                  \* service, numbers]; id is the actor's Id, a method
  Content         \* what a message may be: records [type, method, data]

ASSUME ServerDispatchAssumption ==
  \A list \in Registrations : Len(list) \in Nat /\ DOMAIN list = 1..Len(list)

\* A method is a pair <<service id, message id>>; message id 0 stands for the
\* whole service in the id of an actor.
HeartBeat == <<0, 0>>
NotFound  == 0     \* NotFoundServiceActor, beside the actors 1, 2, ...

\* How the method of a service may end: with a result (with data, without data,
\* with a status code of its own, with data the serializer rejects), with null
\* in the place of a result, with a RpcException, with another exception.
Returned == {"data", "nothing", "code", "unserializable"}
Outcome  == Returned \cup {"null", "rpcException", "exception"}

\* The replies told apart: the message itself for a heartbeat, a result with or
\* without data, a status code of the service's own, CODE_INTERNAL_ERROR and
\* CODE_SERVICE_NOT_FOUND.
ReplyKind == {"heartBeat", "ok", "empty", "failed", "internal", "notFound"}

VARIABLES
  actors,         \* the registered actors, in order
  message,        \* message[r]: its content
  pc,             \* where its task is
  handlerCache,   \* _handlerCache: the methods that have a handler
  executor,       \* executor[r]: the actor that executed r, or NotFound
  result,         \* result[r]: how the actor's method ended, or "none"
  reply,          \* reply[r]: the reply sent, "none", or "lost" if that threw
  audited         \* audited[r]: the outcome the audit log has, or "none"

vars == <<actors, message, pc, handlerCache, executor, result, reply, audited>>

TypeOK ==
  /\ actors \in Registrations
  /\ message \in [Message -> Content]
  /\ pc \in [Message -> {"coming", "received", "heartBeat", "notFound",
                         "handling", "executing", "replying", "auditing", "done"}]
  /\ handlerCache \subseteq {c.method : c \in Content}
  /\ executor \in [Message -> DOMAIN actors \cup {NotFound}]
  /\ result \in [Message -> Outcome \cup {"none"}]
  /\ reply \in [Message -> ReplyKind \cup {"none", "lost"}]
  /\ audited \in [Message -> Returned \cup {"none"}]

Init ==
  /\ actors \in Registrations
  /\ message \in [Message -> Content]
  /\ pc = [r \in Message |-> "coming"]
  /\ handlerCache = {}
  /\ executor = [r \in Message |-> NotFound]
  /\ result = [r \in Message |-> "none"]
  /\ reply = [r \in Message |-> "none"]
  /\ audited = [r \in Message |-> "none"]

----------------------------------------------------------------------------
\* The tables.  The definitions marked "Wrong:" are variants of the definition
\* that follows, each with a bug that one of the properties below rules out; the
\* specification does not use them.

Declares(i, m) == actors[i].service = m[1] /\ m[2] \in actors[i].numbers
Bound(m)       == \E i \in DOMAIN actors : Declares(i, m)

\* _invokerCache: TryAdd keeps the first.
Invoker(m) ==
  CHOOSE i \in DOMAIN actors :
    /\ Declares(i, m)
    /\ \A j \in DOMAIN actors : Declares(j, m) => i <= j

\* _actorCaches: AddOrUpdate keeps the last.
HasId(i, id) == actors[i].id = id
InCache(id)  == \E i \in DOMAIN actors : HasId(i, id)
Last(id) ==
  CHOOSE i \in DOMAIN actors :
    /\ HasId(i, id)
    /\ \A j \in DOMAIN actors : HasId(j, id) => j <= i

ServiceKey(m) == <<m[1], 0>>

\* Wrong: the id of the service itself is not looked up.
LocateMessageActor(m) == IF InCache(m) THEN Last(m) ELSE NotFound

\* The actor of the message itself, else that of its service.
LocateServiceActor(m) ==
  IF InCache(m) THEN Last(m)
  ELSE IF InCache(ServiceKey(m)) THEN Last(ServiceKey(m)) ELSE NotFound

\* The cast (TService)actor succeeds.
CanCast(i, m) == i # NotFound /\ actors[i].interface = actors[Invoker(m)].interface

\* Wrong: an exception leaves the status code that the response began with.
ReplyCodeKept(o) ==
  IF o = "data" THEN "ok"
  ELSE IF o \in {"code", "rpcException"} THEN "failed" ELSE "empty"

\* The status code after the two catch blocks; "none": the call was not made.
ReplyCode(o) ==
  IF o = "data" THEN "ok"
  ELSE IF o = "nothing" THEN "empty"
  ELSE IF o \in {"code", "rpcException"} THEN "failed" ELSE "internal"

----------------------------------------------------------------------------
Goto(r, from, to) ==
  /\ pc[r] = from
  /\ pc' = [pc EXCEPT ![r] = to]

\* GetInstance finds a handler: kept, or to be made from the bound actor.
HasHandler(m) == m \in handlerCache \/ Bound(m)

\* A task for the message.
OnReceive(r) ==
  /\ Goto(r, "coming", "received")
  /\ UNCHANGED <<actors, message, handlerCache, executor, result, reply, audited>>

\* Wrong: a message whose method is not bound is dropped.
ReceiveDropsUnbound(r) ==
  LET m == message[r].method IN
  /\ IF message[r].type # "Response" /\ m # HeartBeat /\ HasHandler(m)
       THEN Goto(r, "received", "handling")
       ELSE Goto(r, "received", IF m = HeartBeat THEN "heartBeat" ELSE "done")
  /\ UNCHANGED <<actors, message, handlerCache, executor, result, reply, audited>>

\* A response is ignored; a heartbeat is sent back; a method that is bound gets
\* its handler, which is kept; any other goes to NotFoundServiceActor.
ReceiveAsync(r) ==
  LET m == message[r].method IN
  /\ \/ /\ message[r].type = "Response"
        /\ Goto(r, "received", "done")
        /\ UNCHANGED handlerCache
     \/ /\ message[r].type # "Response"
        /\ m = HeartBeat
        /\ Goto(r, "received", "heartBeat")
        /\ UNCHANGED handlerCache
     \/ /\ message[r].type # "Response"
        /\ m # HeartBeat
        /\ HasHandler(m)
        /\ Goto(r, "received", "handling")
        /\ handlerCache' = handlerCache \cup {m}
     \/ /\ message[r].type # "Response"
        /\ m # HeartBeat
        /\ ~HasHandler(m)
        /\ Goto(r, "received", "notFound")
        /\ UNCHANGED handlerCache
  /\ UNCHANGED <<actors, message, executor, result, reply, audited>>

\* HandleCallAsync up to the call: without data the request is null; data that
\* cannot be read, or an actor that is not of the service's type, end in a catch
\* block.
Invoke(r) ==
  LET m     == message[r].method
      actor == LocateServiceActor(m)
  IN /\ \/ /\ message[r].data # "bad"
           /\ CanCast(actor, m)
           /\ Goto(r, "handling", "executing")
           /\ executor' = [executor EXCEPT ![r] = actor]
        \/ /\ message[r].data = "bad" \/ ~CanCast(actor, m)
           /\ Goto(r, "handling", "replying")
           /\ UNCHANGED executor
     /\ UNCHANGED <<actors, message, handlerCache, result, reply, audited>>

\* The service's method ends, and its result is serialized.
Return(r) ==
  /\ Goto(r, "executing", "replying")
  /\ \E o \in Outcome : result' = [result EXCEPT ![r] = o]
  /\ UNCHANGED <<actors, message, handlerCache, executor, reply, audited>>

Reply(r) ==
  IF pc[r] = "replying" THEN ReplyCode(result[r]) ELSE pc[r]

\* Wrong: the handler goes back to the reply when the send threw.
SendAgain(r) ==
  /\ pc[r] \in {"heartBeat", "notFound", "replying"}
  /\ \/ /\ reply' = [reply EXCEPT ![r] = Reply(r)]
        /\ pc' = [pc EXCEPT ![r] = IF @ = "replying" THEN "auditing" ELSE "done"]
     \/ /\ reply' = [reply EXCEPT ![r] = "lost"]
        /\ UNCHANGED pc
  /\ UNCHANGED <<actors, message, handlerCache, executor, result, audited>>

\* ISocketContext.SendAsync, which may throw: ActorCallHandler logs that and goes
\* on; the task of a heartbeat or of an unknown method ends either way.
Send(r) ==
  /\ pc[r] \in {"heartBeat", "notFound", "replying"}
  /\ \E sent \in {Reply(r), "lost"} : reply' = [reply EXCEPT ![r] = sent]
  /\ pc' = [pc EXCEPT ![r] = IF @ = "replying" THEN "auditing" ELSE "done"]
  /\ UNCHANGED <<actors, message, handlerCache, executor, result, audited>>

\* Wrong: what was not lost on its way to the client is audited.
LogAfterReply(r) ==
  /\ Goto(r, "auditing", "done")
  /\ audited' = IF result[r] \in Returned /\ reply[r] # "lost"
                  THEN [audited EXCEPT ![r] = result[r]] ELSE audited
  /\ UNCHANGED <<actors, message, handlerCache, executor, result, reply>>

\* Wrong: what ended with an exception is audited like a result.
LogEverything(r) ==
  /\ Goto(r, "auditing", "done")
  /\ audited' = [audited EXCEPT ![r] = result[r]]
  /\ UNCHANGED <<actors, message, handlerCache, executor, result, reply>>

\* The audit log reads result.Code and result.Data; when there is no result that
\* throws, and the task ends.
Log(r) ==
  /\ Goto(r, "auditing", "done")
  /\ audited' = IF result[r] \in Returned
                  THEN [audited EXCEPT ![r] = result[r]] ELSE audited
  /\ UNCHANGED <<actors, message, handlerCache, executor, result, reply>>

Steps(r) == ReceiveAsync(r) \/ Invoke(r) \/ Return(r) \/ Send(r) \/ Log(r)

Next == \E r \in Message : OnReceive(r) \/ Steps(r)

\* A task that was started goes on, and the methods of the services end.
Fairness == \A r \in Message : WF_vars(Steps(r))

Spec     == Init /\ [][Next]_vars
FairSpec == Spec /\ Fairness

----------------------------------------------------------------------------
(***************************************************************************)
(* Properties.                                                             *)
(***************************************************************************)

\* The message is one for an ActorCallHandler.
ActorCall(r) ==
  /\ message[r].type # "Response"
  /\ message[r].method # HeartBeat
  /\ Bound(message[r].method)

\* All actors of a service are of one interface, and one of them has the id of
\* the service.
Consistent ==
  \A i \in DOMAIN actors :
    /\ actors[i].id[1] = actors[i].service
    /\ InCache(<<actors[i].service, 0>>)
    /\ \A j \in DOMAIN actors : actors[i].service = actors[j].service =>
         actors[i].interface = actors[j].interface

\* The two tables agree: as long as no two interfaces share a service id and every
\* service has an actor under its own id, a request whose method is bound and whose
\* data can be read is executed, by an actor of its service, before it is answered.
ServedUnlessConflict ==
  Consistent =>
    \A r \in Message :
      /\ ActorCall(r)
      /\ message[r].data # "bad"
      /\ pc[r] \in {"executing", "replying", "auditing", "done"}
      => /\ executor[r] # NotFound
         /\ actors[executor[r]].service = message[r].method[1]

\* A caller is told of success only when the service's method returned that, of
\* an unknown service only when nothing has bound the method, and a response is
\* never answered.
ReplyTellsResult ==
  \A r \in Message :
    /\ reply[r] = "ok" => result[r] = "data"
    /\ reply[r] = "empty" => result[r] = "nothing"
    /\ reply[r] = "notFound" => ~Bound(message[r].method) /\ executor[r] = NotFound
    /\ reply[r] # "none" => message[r].type # "Response"

\* The audit log has a call just when the service's method returned, with what it
\* returned, whether or not the caller was reached and even if the result could
\* not be serialized for it.
AuditedIffReturned ==
  \A r \in Message : pc[r] = "done" =>
    audited[r] = IF result[r] \in Returned THEN result[r] ELSE "none"

\* A message is answered once: neither a failed send nor an exception leads to a
\* second reply.
RepliedOnce ==
  [][\A r \in Message : reply[r] # "none" => reply'[r] = reply[r]]_vars

\* Every request is answered, or the attempt threw: there is no way out of
\* ReceiveAsync and HandleCallAsync that forgets the caller.
RequestsAnswered ==
  \A r \in Message :
    (pc[r] = "received" /\ message[r].type # "Response") ~> (reply[r] # "none")

\* "Audit logs that were not recorded correctly" are fixed (release notes): every
\* call that an ActorCallHandler has handled is in the audit log.  It is not: a
\* call that ended with an exception has no result to read a code from.
EveryCallAudited ==
  \A r \in Message : pc[r] = "done" /\ ActorCall(r) => audited[r] # "none"
=============================================================================
