------------------------- MODULE ServerDispatchProofs -------------------------
(***************************************************************************)
(* Proofs about ServerDispatch, for any messages, any lists of actors and  *)
(* any contents.                                                           *)
(***************************************************************************)
EXTENDS ServerDispatch, IntervalInduction

\* A handler is kept only for a method that is bound.
CachedAreBound == \A m \in handlerCache : Bound(m)

\* The task took the way of its message.
WayTaken ==
  \A r \in Message :
    /\ pc[r] \in {"handling", "executing", "replying", "auditing"} => ActorCall(r)
    /\ pc[r] \in {"heartBeat", "notFound"} => message[r].type # "Response"
    /\ pc[r] = "heartBeat" => message[r].method = HeartBeat
    /\ pc[r] = "notFound" => ~Bound(message[r].method)

\* What a task has not come to is not there.
NotYet ==
  \A r \in Message :
    /\ pc[r] \in {"coming", "received", "heartBeat", "notFound", "handling"} =>
         executor[r] = NotFound
    /\ pc[r] \in {"coming", "received", "heartBeat", "notFound", "handling",
                  "executing"} => result[r] = "none"
    /\ pc[r] \notin {"auditing", "done"} => reply[r] = "none"
    /\ pc[r] # "done" => audited[r] = "none"

IInv == /\ TypeOK /\ CachedAreBound /\ WayTaken /\ NotYet
        /\ ServedUnlessConflict /\ ReplyTellsResult /\ AuditedIffReturned

----------------------------------------------------------------------------
\* The tables lead to registered actors, the ones they promise.
LEMMA Tables ==
  ASSUME actors \in Registrations
  PROVE  /\ \A m : Bound(m) => Invoker(m) \in DOMAIN actors /\ Declares(Invoker(m), m)
         /\ \A id : InCache(id) => Last(id) \in DOMAIN actors /\ HasId(Last(id), id)
<1> DEFINE n == Len(actors)
<1>1. n \in Nat /\ DOMAIN actors = 1..n
  BY ServerDispatchAssumption
<1> HIDE DEF n
<1>2. ASSUME NEW m, Bound(m)
      PROVE  Invoker(m) \in DOMAIN actors /\ Declares(Invoker(m), m)
  <2> DEFINE S == {i \in 1..n : Declares(i, m)}
  <2>1. S \in SUBSET (1..n) /\ S # {}
    BY <1>1, <1>2 DEF Bound
  <2>2. \E i \in S : \A j \in S : i <= j
    BY <1>1, <2>1, Extremes
  <2>3. \E i \in DOMAIN actors :
           /\ Declares(i, m)
           /\ \A j \in DOMAIN actors : Declares(j, m) => i <= j
    BY <1>1, <2>2
  <2> QED
    BY <2>3 DEF Invoker
<1>3. ASSUME NEW id, InCache(id)
      PROVE  Last(id) \in DOMAIN actors /\ HasId(Last(id), id)
  <2> DEFINE S == {i \in 1..n : HasId(i, id)}
  <2>1. S \in SUBSET (1..n) /\ S # {}
    BY <1>1, <1>3 DEF InCache
  <2>2. \E i \in S : \A j \in S : j <= i
    BY <1>1, <2>1, Extremes
  <2>3. \E i \in DOMAIN actors :
           /\ HasId(i, id)
           /\ \A j \in DOMAIN actors : HasId(j, id) => j <= i
    BY <1>1, <2>2
  <2> QED
    BY <2>3 DEF Last
<1> QED
  BY <1>2, <1>3

\* What executes a request is a registered actor.
LEMMA Located ==
  ASSUME actors \in Registrations, NEW m
  PROVE  LocateServiceActor(m) \in DOMAIN actors \cup {NotFound}
BY Tables DEF LocateServiceActor

\* Without conflict, what executes a bound method is an actor of its service, and
\* of the interface that the method was bound to.
LEMMA LocatedCanServe ==
  ASSUME actors \in Registrations, Consistent, NEW m, Bound(m)
  PROVE  /\ LocateServiceActor(m) # NotFound
         /\ actors[LocateServiceActor(m)].service = m[1]
         /\ CanCast(LocateServiceActor(m), m)
<1>1. Invoker(m) \in DOMAIN actors /\ actors[Invoker(m)].service = m[1]
  BY Tables DEF Declares
<1>2. InCache(ServiceKey(m))
  BY <1>1 DEF Consistent, ServiceKey
<1>3. /\ LocateServiceActor(m) \in DOMAIN actors
      /\ actors[LocateServiceActor(m)].service = m[1]
  <2>1. CASE InCache(m)
    <3>1. Last(m) \in DOMAIN actors /\ actors[Last(m)].id = m
      BY <2>1, Tables DEF HasId
    <3>2. actors[Last(m)].service = m[1]
      BY <3>1 DEF Consistent
    <3> QED
      BY <2>1, <3>1, <3>2 DEF LocateServiceActor
  <2>2. CASE ~InCache(m)
    <3> DEFINE k == ServiceKey(m)
    <3>1. Last(k) \in DOMAIN actors /\ actors[Last(k)].id = k
      BY <1>2, Tables DEF HasId
    <3>2. actors[Last(k)].service = k[1]
      BY <3>1 DEF Consistent
    <3>3. k[1] = m[1]
      BY DEF ServiceKey
    <3>4. LocateServiceActor(m) = Last(k)
      BY <1>2, <2>2 DEF LocateServiceActor
    <3> QED
      BY <3>1, <3>2, <3>3, <3>4
  <2> QED
    BY <2>1, <2>2
<1>4. LocateServiceActor(m) # NotFound
  <2>1. DOMAIN actors = 1..Len(actors)
    BY ServerDispatchAssumption
  <2> QED
    BY <1>3, <2>1 DEF NotFound
<1>5. actors[LocateServiceActor(m)].interface = actors[Invoker(m)].interface
  BY <1>1, <1>3 DEF Consistent
<1> QED
  BY <1>3, <1>4, <1>5 DEF CanCast

\* The tables and the messages stay as they are.
LEMMA Fixed ==
  ASSUME [Next]_vars
  PROVE  /\ actors' = actors
         /\ message' = message
         /\ \A m : Bound(m)' <=> Bound(m)
         /\ Consistent' <=> Consistent
         /\ \A r \in Message : ActorCall(r)' <=> ActorCall(r)
<1>1. actors' = actors /\ message' = message
  BY DEF Next, Steps, OnReceive, ReceiveAsync, Invoke, Return, Send, Log, vars
<1>2. \A m : Bound(m)' <=> Bound(m)
  BY <1>1 DEF Bound, Declares
<1>3. Consistent' <=> Consistent
  BY <1>1 DEF Consistent, InCache, HasId
<1> QED
  BY <1>1, <1>2, <1>3 DEF ActorCall

\* At the start no task has done anything.
LEMMA InitIInv == Init => IInv
<1> SUFFICES ASSUME Init PROVE IInv
  OBVIOUS
<1>1. TypeOK
  BY DEF Init, TypeOK
<1>2. CachedAreBound /\ WayTaken /\ NotYet
  BY DEF Init, CachedAreBound, WayTaken, NotYet
<1>3. ServedUnlessConflict /\ ReplyTellsResult /\ AuditedIffReturned
  BY DEF Init, ServedUnlessConflict, ReplyTellsResult, AuditedIffReturned
<1> QED
  BY <1>1, <1>2, <1>3 DEF IInv

----------------------------------------------------------------------------
\* Every step keeps the types.
LEMMA TypeStep == IInv /\ [Next]_vars => TypeOK'
<1> SUFFICES ASSUME TypeOK, [Next]_vars PROVE TypeOK'
  BY DEF IInv
<1>1. ASSUME NEW r \in Message, OnReceive(r) PROVE TypeOK'
  BY <1>1 DEF OnReceive, Goto, TypeOK
<1>2. ASSUME NEW r \in Message, ReceiveAsync(r) PROVE TypeOK'
  <2>1. message[r].method \in {c.method : c \in Content}
    BY DEF TypeOK
  <2> QED
    BY <1>2, <2>1 DEF ReceiveAsync, Goto, TypeOK
<1>3. ASSUME NEW r \in Message, Invoke(r) PROVE TypeOK'
  <2> DEFINE actor == LocateServiceActor(message[r].method)
  <2>1. actor \in DOMAIN actors \cup {NotFound}
    BY Located DEF TypeOK
  <2> HIDE DEF actor
  <2>2. /\ executor' \in {executor, [executor EXCEPT ![r] = actor]}
        /\ pc' \in [Message -> {"coming", "received", "heartBeat", "notFound",
                             "handling", "executing", "replying", "auditing", "done"}]
        /\ UNCHANGED <<actors, message, handlerCache, result, reply, audited>>
    BY <1>3 DEF Invoke, Goto, TypeOK, actor
  <2> QED
    BY <2>1, <2>2 DEF TypeOK
<1>4. ASSUME NEW r \in Message, Return(r) PROVE TypeOK'
  BY <1>4 DEF Return, Goto, TypeOK
<1>5. ASSUME NEW r \in Message, Send(r) PROVE TypeOK'
  <2>1. Reply(r) \in ReplyKind
    BY <1>5 DEF Send, Reply, ReplyCode, ReplyKind
  <2>2. PICK sent \in {Reply(r), "lost"} : reply' = [reply EXCEPT ![r] = sent]
    BY <1>5 DEF Send
  <2> QED
    BY <1>5, <2>1, <2>2 DEF Send, TypeOK
<1>6. ASSUME NEW r \in Message, Log(r) PROVE TypeOK'
  BY <1>6 DEF Log, Goto, TypeOK
<1>7. CASE UNCHANGED vars
  BY <1>7 DEF vars, TypeOK
<1> QED
  BY <1>1, <1>2, <1>3, <1>4, <1>5, <1>6, <1>7 DEF Next, Steps

\* Only ReceiveAsync adds a handler, of a method that it found bound.
LEMMA CacheStep == IInv /\ [Next]_vars => CachedAreBound'
<1> SUFFICES ASSUME CachedAreBound, [Next]_vars,
                    NEW m \in handlerCache' PROVE Bound(m)
  BY Fixed DEF IInv, CachedAreBound
<1>1. CASE m \in handlerCache
  BY <1>1 DEF CachedAreBound
<1>2. CASE m \notin handlerCache
  <2>1. PICK r \in Message : ReceiveAsync(r)
    BY <1>2 DEF Next, Steps, OnReceive, Invoke, Return, Send, Log, vars
  <2>2. m = message[r].method /\ HasHandler(m)
    BY <1>2, <2>1 DEF ReceiveAsync
  <2> QED
    BY <1>2, <2>2 DEF HasHandler
<1> QED
  BY <1>1, <1>2

\* A task stays on the way that ReceiveAsync chose for its message.
LEMMA WayStep == IInv /\ [Next]_vars => WayTaken'
<1> SUFFICES ASSUME TypeOK, CachedAreBound, WayTaken, [Next]_vars PROVE WayTaken'
  BY DEF IInv
<1> USE Fixed
<1>1. ASSUME NEW r \in Message, OnReceive(r) PROVE WayTaken'
  BY <1>1 DEF OnReceive, Goto, TypeOK, WayTaken
<1>2. ASSUME NEW r \in Message, ReceiveAsync(r) PROVE WayTaken'
  <2>1. \A m : HasHandler(m) <=> Bound(m)
    BY DEF HasHandler, CachedAreBound
  <2> QED
    BY <1>2, <2>1 DEF ReceiveAsync, Goto, TypeOK, WayTaken, ActorCall
<1>3. ASSUME NEW r \in Message, Invoke(r) PROVE WayTaken'
  BY <1>3 DEF Invoke, Goto, TypeOK, WayTaken
<1>4. ASSUME NEW r \in Message, Return(r) PROVE WayTaken'
  BY <1>4 DEF Return, Goto, TypeOK, WayTaken
<1>5. ASSUME NEW r \in Message, Send(r) PROVE WayTaken'
  BY <1>5 DEF Send, TypeOK, WayTaken
<1>6. ASSUME NEW r \in Message, Log(r) PROVE WayTaken'
  BY <1>6 DEF Log, Goto, TypeOK, WayTaken
<1>7. CASE UNCHANGED vars
  BY <1>7 DEF vars, WayTaken
<1> QED
  BY <1>1, <1>2, <1>3, <1>4, <1>5, <1>6, <1>7 DEF Next, Steps

\* Each step of a task leaves behind what is its own to leave.
LEMMA NotYetStep == IInv /\ [Next]_vars => NotYet'
<1> SUFFICES ASSUME TypeOK, NotYet, [Next]_vars PROVE NotYet'
  BY DEF IInv
<1>1. ASSUME NEW r \in Message, OnReceive(r) PROVE NotYet'
  BY <1>1 DEF OnReceive, Goto, TypeOK, NotYet
<1>2. ASSUME NEW r \in Message, ReceiveAsync(r) PROVE NotYet'
  BY <1>2 DEF ReceiveAsync, Goto, TypeOK, NotYet
<1>3. ASSUME NEW r \in Message, Invoke(r) PROVE NotYet'
  BY <1>3 DEF Invoke, Goto, TypeOK, NotYet
<1>4. ASSUME NEW r \in Message, Return(r) PROVE NotYet'
  BY <1>4 DEF Return, Goto, TypeOK, NotYet
<1>5. ASSUME NEW r \in Message, Send(r) PROVE NotYet'
  BY <1>5 DEF Send, TypeOK, NotYet
<1>6. ASSUME NEW r \in Message, Log(r) PROVE NotYet'
  BY <1>6 DEF Log, Goto, TypeOK, NotYet
<1>7. CASE UNCHANGED vars
  BY <1>7 DEF vars, NotYet
<1> QED
  BY <1>1, <1>2, <1>3, <1>4, <1>5, <1>6, <1>7 DEF Next, Steps

\* Invoke is the step that matters: the actor located can be cast.
LEMMA ServedStep == IInv /\ [Next]_vars => ServedUnlessConflict'
<1> SUFFICES ASSUME TypeOK, CachedAreBound, WayTaken, ServedUnlessConflict,
                    [Next]_vars, Consistent
             PROVE  ServedUnlessConflict'
  BY Fixed DEF IInv, ServedUnlessConflict
<1> USE Fixed
<1>1. ASSUME NEW r \in Message, OnReceive(r) PROVE ServedUnlessConflict'
  BY <1>1 DEF OnReceive, Goto, TypeOK, ServedUnlessConflict
<1>2. ASSUME NEW r \in Message, ReceiveAsync(r) PROVE ServedUnlessConflict'
  BY <1>2 DEF ReceiveAsync, Goto, TypeOK, ServedUnlessConflict, ActorCall
<1>3. ASSUME NEW r \in Message, Invoke(r) PROVE ServedUnlessConflict'
  <2> DEFINE m     == message[r].method
             actor == LocateServiceActor(m)
  <2>1. /\ actor # NotFound
        /\ actors[actor].service = m[1]
        /\ CanCast(actor, m)
    <3>1. Bound(m)
      BY <1>3 DEF Invoke, Goto, WayTaken, ActorCall
    <3> QED
      BY <3>1, LocatedCanServe DEF TypeOK
  <2> HIDE DEF actor
  <2>2. /\ pc' \in {[pc EXCEPT ![r] = "executing"], [pc EXCEPT ![r] = "replying"]}
        /\ executor' \in {executor, [executor EXCEPT ![r] = actor]}
        /\ message[r].data # "bad" => executor' = [executor EXCEPT ![r] = actor]
    BY <1>3, <2>1 DEF Invoke, Goto, actor
  <2> QED
    BY <2>1, <2>2 DEF TypeOK, ServedUnlessConflict
<1>4. ASSUME NEW r \in Message, Return(r) PROVE ServedUnlessConflict'
  BY <1>4 DEF Return, Goto, TypeOK, ServedUnlessConflict
<1>5. ASSUME NEW r \in Message, Send(r) PROVE ServedUnlessConflict'
  BY <1>5 DEF Send, TypeOK, ServedUnlessConflict, WayTaken, ActorCall
<1>6. ASSUME NEW r \in Message, Log(r) PROVE ServedUnlessConflict'
  BY <1>6 DEF Log, Goto, TypeOK, ServedUnlessConflict
<1>7. CASE UNCHANGED vars
  BY <1>7 DEF vars, ServedUnlessConflict
<1> QED
  BY <1>1, <1>2, <1>3, <1>4, <1>5, <1>6, <1>7 DEF Next, Steps

\* Send takes the reply from what the task has come to; nothing changes that later.
LEMMA ReplyStep == IInv /\ [Next]_vars => ReplyTellsResult'
<1> SUFFICES ASSUME TypeOK, CachedAreBound, WayTaken, NotYet, ReplyTellsResult,
                    [Next]_vars
             PROVE  ReplyTellsResult'
  BY DEF IInv
<1> USE Fixed
<1>1. ASSUME NEW r \in Message, OnReceive(r) PROVE ReplyTellsResult'
  BY <1>1 DEF OnReceive, ReplyTellsResult
<1>2. ASSUME NEW r \in Message, ReceiveAsync(r) PROVE ReplyTellsResult'
  BY <1>2 DEF ReceiveAsync, ReplyTellsResult
<1>3. ASSUME NEW r \in Message, Invoke(r) PROVE ReplyTellsResult'
  <2>1. reply[r] = "none"
    BY <1>3 DEF Invoke, Goto, NotYet
  <2> QED
    BY <1>3, <2>1 DEF Invoke, TypeOK, ReplyTellsResult
<1>4. ASSUME NEW r \in Message, Return(r) PROVE ReplyTellsResult'
  <2>1. reply[r] = "none"
    BY <1>4 DEF Return, Goto, NotYet
  <2> QED
    BY <1>4, <2>1 DEF Return, TypeOK, ReplyTellsResult
<1>5. ASSUME NEW r \in Message, Send(r) PROVE ReplyTellsResult'
  <2>1. PICK sent \in {Reply(r), "lost"} : reply' = [reply EXCEPT ![r] = sent]
    BY <1>5 DEF Send
  <2>2. /\ sent = "ok" => result[r] = "data"
        /\ sent = "empty" => result[r] = "nothing"
        /\ sent = "notFound" => ~Bound(message[r].method) /\ executor[r] = NotFound
        /\ message[r].type # "Response"
    BY <1>5, <2>1 DEF Send, Reply, ReplyCode, WayTaken, NotYet, ActorCall
  <2>3. UNCHANGED <<executor, result>>
    BY <1>5 DEF Send
  <2> QED
    BY <2>1, <2>2, <2>3 DEF TypeOK, ReplyTellsResult
<1>6. ASSUME NEW r \in Message, Log(r) PROVE ReplyTellsResult'
  BY <1>6 DEF Log, ReplyTellsResult
<1>7. CASE UNCHANGED vars
  BY <1>7 DEF vars, ReplyTellsResult
<1> QED
  BY <1>1, <1>2, <1>3, <1>4, <1>5, <1>6, <1>7 DEF Next, Steps

\* Log is the only step that audits; a task that ends without it has no result.
LEMMA AuditStep == IInv /\ [Next]_vars => AuditedIffReturned'
<1> SUFFICES ASSUME TypeOK, NotYet, AuditedIffReturned, [Next]_vars
             PROVE  AuditedIffReturned'
  BY DEF IInv
<1>1. ASSUME NEW r \in Message, OnReceive(r) PROVE AuditedIffReturned'
  BY <1>1 DEF OnReceive, Goto, TypeOK, AuditedIffReturned
<1>2. ASSUME NEW r \in Message, ReceiveAsync(r) PROVE AuditedIffReturned'
  BY <1>2 DEF ReceiveAsync, Goto, TypeOK, NotYet, AuditedIffReturned, Returned
<1>3. ASSUME NEW r \in Message, Invoke(r) PROVE AuditedIffReturned'
  BY <1>3 DEF Invoke, Goto, TypeOK, AuditedIffReturned
<1>4. ASSUME NEW r \in Message, Return(r) PROVE AuditedIffReturned'
  BY <1>4 DEF Return, Goto, TypeOK, AuditedIffReturned
<1>5. ASSUME NEW r \in Message, Send(r) PROVE AuditedIffReturned'
  BY <1>5 DEF Send, TypeOK, NotYet, AuditedIffReturned, Returned
<1>6. ASSUME NEW r \in Message, Log(r) PROVE AuditedIffReturned'
  BY <1>6 DEF Log, Goto, TypeOK, NotYet, AuditedIffReturned
<1>7. CASE UNCHANGED vars
  BY <1>7 DEF vars, AuditedIffReturned
<1> QED
  BY <1>1, <1>2, <1>3, <1>4, <1>5, <1>6, <1>7 DEF Next, Steps

----------------------------------------------------------------------------
\* The invariant of the handler's tasks.
THEOREM Invariance == Spec => []IInv
<1>1. IInv /\ [Next]_vars => IInv'
  BY TypeStep, CacheStep, WayStep, NotYetStep, ServedStep, ReplyStep, AuditStep
  DEF IInv
<1> QED
  BY InitIInv, <1>1, PTL DEF Spec

\* The variables keep their types, for any messages and any lists of actors; in
\* particular the two tables lead to registered actors.
THEOREM TypeCorrect == Spec => []TypeOK
<1>1. IInv => TypeOK
  BY DEF IInv
<1> QED
  BY <1>1, Invariance, PTL

\* The first-wins table of methods and the last-wins table of actors agree unless
\* two interfaces share a service id.
THEOREM Served == Spec => []ServedUnlessConflict
<1>1. IInv => ServedUnlessConflict
  BY DEF IInv
<1> QED
  BY <1>1, Invariance, PTL

\* A reply says what became of the call.
THEOREM RepliesTellResults == Spec => []ReplyTellsResult
<1>1. IInv => ReplyTellsResult
  BY DEF IInv
<1> QED
  BY <1>1, Invariance, PTL

\* The audit log has the calls that returned, and no other.
THEOREM AuditsAreReturns == Spec => []AuditedIffReturned
<1>1. IInv => AuditedIffReturned
  BY DEF IInv
<1> QED
  BY <1>1, Invariance, PTL

\* A message is answered once: only Send replies, and leads out of where it may.
THEOREM AnsweredOnce == Spec => RepliedOnce
<1>1. ASSUME IInv, [Next]_vars, NEW r \in Message, reply[r] # "none"
      PROVE  reply'[r] = reply[r]
  <2>1. ASSUME NEW q \in Message, Send(q) PROVE reply'[r] = reply[r]
    <3>1. pc[r] \in {"auditing", "done"} /\ pc[q] \notin {"auditing", "done"}
      BY <1>1, <2>1 DEF IInv, NotYet, Send
    <3> QED
      BY <2>1, <3>1 DEF Send
  <2>2. CASE UNCHANGED reply
    BY <2>2
  <2> QED
    BY <1>1, <2>1, <2>2
    DEF Next, Steps, OnReceive, ReceiveAsync, Invoke, Return, Log, vars
<1>2. IInv /\ [Next]_vars
        => [\A r \in Message : reply[r] # "none" => reply'[r] = reply[r]]_vars
  BY <1>1
<1> QED
  BY <1>2, Invariance, PTL DEF Spec, RepliedOnce
=============================================================================
