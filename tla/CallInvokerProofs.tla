-------------------------- MODULE CallInvokerProofs --------------------------
(***************************************************************************)
(* Proofs about CallInvoker, for any number of calls, methods and sequence *)
(* numbers.                                                                *)
(***************************************************************************)
EXTENDS CallInvoker, TLAPS

Started(c) == pc[c] \notin {"idle", "armed"}

\* The calls that have drawn a sequence number are the first invokerSeq ones.
Drawn == \A c \in Call : c > invokerSeq => pc[c] = "idle"

\* An entry is that of a started call, under its own id, without a result.
Registered ==
  \A id \in Ids, c \in Call : resultDictionary[id] = c =>
    Started(c) /\ Id(c) = id /\ task[c] = NoResponse

Completed == \A c \in Call : task[c] # NoResponse => Started(c)

Answered == \A c \in replies : answer[c] \in ServerKind

\* What holds whether or not sequence numbers have been used twice.
IdInv == TypeOK /\ Drawn /\ Registered /\ Completed /\ ResponseMatchesId /\ Answered

----------------------------------------------------------------------------
LEMMA SequenceInRange ==
  ASSUME NEW c \in Call PROVE Sequence(c) \in 0..(SeqModulus - 1)
<1>1. c \in Nat /\ SeqModulus \in Nat \ {0}
  BY CallInvokerAssumption DEF Call
<1>2. QED  BY <1>1 DEF Sequence

LEMMA IdInIds ==
  ASSUME NEW c \in Call, method \in [Call -> Method] PROVE Id(c) \in Ids
BY SequenceInRange DEF Id, Ids

LEMMA NoResponseIsNone == NoResponse \notin Response
BY DEF NoResponse, Response, ServerKind, LocalKind

\* Completing the entry of an id keeps IdInv's facts about entries and tasks.
LEMMA CompleteEntryKeeps ==
  ASSUME IdInv, NEW x \in Call, NEW r \in Response, r.of = x,
         CompleteEntry(Id(x), r), UNCHANGED method,
         \A c \in Call : Started(c) => Started(c)'
  PROVE  /\ resultDictionary' \in [Ids -> Call \cup {NoCall}]
         /\ task' \in [Call -> Response \cup {NoResponse}]
         /\ Registered' /\ Completed' /\ ResponseMatchesId'
<1> DEFINE owner == resultDictionary[Id(x)]
<1>0. NoCall \notin Call
  BY DEF NoCall, Call
<1>1. /\ Id(x) \in Ids
      /\ owner \in Call \cup {NoCall}
      /\ resultDictionary' = [resultDictionary EXCEPT ![Id(x)] = NoCall]
      /\ task' = IF owner # NoCall /\ task[owner] = NoResponse
                   THEN [task EXCEPT ![owner] = r] ELSE task
  BY IdInIds DEF IdInv, TypeOK, CompleteEntry
<1>2. owner # NoCall => owner \in Call /\ Started(owner) /\ Id(owner) = Id(x)
  BY <1>1, <1>0 DEF IdInv, Registered
<1>3. /\ resultDictionary' \in [Ids -> Call \cup {NoCall}]
      /\ task' \in [Call -> Response \cup {NoResponse}]
  BY <1>1 DEF IdInv, TypeOK
<1>4. \A c \in Call : Id(c)' = Id(c)
  BY DEF Id, Sequence
<1>5. Registered'
  <2> SUFFICES ASSUME NEW id \in Ids, NEW c \in Call, resultDictionary'[id] = c
               PROVE  Started(c)' /\ Id(c)' = id /\ task'[c] = NoResponse
    BY DEF Registered
  <2>1. id # Id(x) /\ c = resultDictionary[id]
    BY <1>1 DEF IdInv, TypeOK, Call, NoCall
  <2>2. Started(c) /\ Id(c) = id /\ task[c] = NoResponse
    BY <2>1 DEF IdInv, Registered
  <2>3. c # owner
    BY <1>0, <1>2, <2>1, <2>2
  <2>4. task'[c] = task[c]
    BY <1>1, <2>1, <2>3 DEF IdInv, TypeOK
  <2>5. QED  BY <1>4, <2>2, <2>4
<1>6. \A c \in Call : task'[c] = task[c] \/ (c = owner /\ task'[c] = r)
  BY <1>1 DEF IdInv, TypeOK
<1>7. Completed'
  BY <1>0, <1>2, <1>6 DEF IdInv, Completed, Started
<1>8. ResponseMatchesId'
  <2> SUFFICES ASSUME NEW c \in Call, task'[c] # NoResponse
               PROVE  /\ method[task'[c].of] = method[c]
                      /\ Sequence(task'[c].of) = Sequence(c)
    BY DEF ResponseMatchesId, Sequence
  <2>1. CASE task'[c] = task[c]
    BY <2>1 DEF IdInv, ResponseMatchesId
  <2>2. CASE c = owner /\ task'[c] = r
    BY <1>0, <1>2, <2>2 DEF Id
  <2>3. QED  BY <1>6, <2>1, <2>2
<1>9. QED  BY <1>3, <1>5, <1>7, <1>8

\* A step that completes no task and takes no entry keeps the same facts.
LEMMA QuietStepKeeps ==
  ASSUME IdInv, UNCHANGED <<method, resultDictionary, task>>,
         \A c \in Call : Started(c) => Started(c)'
  PROVE  Registered' /\ Completed' /\ ResponseMatchesId'
<1>1. \A c \in Call : Id(c)' = Id(c)
  BY DEF Id, Sequence
<1>2. Registered'
  BY <1>1 DEF IdInv, TypeOK, Registered
<1>3. Completed' /\ ResponseMatchesId'
  BY DEF IdInv, Completed, ResponseMatchesId, Sequence
<1>4. QED  BY <1>2, <1>3

----------------------------------------------------------------------------
LEMMA IdInvInit == Init => IdInv
<1> SUFFICES ASSUME Init PROVE IdInv
  OBVIOUS
<1>1. TypeOK
  BY CallInvokerAssumption DEF Init, TypeOK, Call
<1>2. Drawn /\ Registered /\ Completed /\ ResponseMatchesId /\ Answered
  BY DEF Init, Drawn, Answered, Registered, Completed, ResponseMatchesId, NoCall, Call
<1>3. QED  BY <1>1, <1>2 DEF IdInv

LEMMA LocalResponseInResponse ==
  ASSUME NEW c \in Call, NEW kind \in LocalKind
  PROVE  LocalResponse(c, kind) \in Response /\ LocalResponse(c, kind).of = c
BY DEF LocalResponse, Response

\* The inductive step of IdInv, one action at a time.
LEMMA IdInvStep == IdInv /\ [Next]_vars => IdInv'
<1> SUFFICES ASSUME IdInv, [Next]_vars PROVE IdInv'
  OBVIOUS
<1> USE DEF IdInv, Answered
<1>1. ASSUME NEW c \in Call, AutoSetSequence(c) PROVE IdInv'
  <2>1. pc[c] = "idle"
    BY <1>1 DEF AutoSetSequence, Drawn, TypeOK, Call
  <2>2. TypeOK' /\ Answered'
    BY <1>1, CallInvokerAssumption DEF AutoSetSequence, TypeOK, network, Call
  <2>3. Drawn'
    BY <1>1 DEF AutoSetSequence, Drawn, TypeOK, Call
  <2>4. Registered' /\ Completed' /\ ResponseMatchesId'
    BY <1>1, <2>1, QuietStepKeeps DEF AutoSetSequence, TypeOK, Started
  <2>5. QED  BY <2>2, <2>3, <2>4
<1>2. ASSUME NEW c \in Call, RegisterResultCallback(c) PROVE IdInv'
  <2>1. TypeOK' /\ Answered'
    BY <1>2 DEF RegisterResultCallback, TypeOK, network
  <2>2. Drawn'
    BY <1>2 DEF RegisterResultCallback, Drawn, TypeOK
  <2>3. \A d \in Call : Id(d)' = Id(d) /\ (Started(d) => Started(d)')
    BY <1>2 DEF RegisterResultCallback, Id, Sequence, Started, TypeOK
  <2>4. task[c] = NoResponse /\ Started(c)'
    BY <1>2 DEF RegisterResultCallback, Completed, Started, TypeOK
  <2>5. Registered'
    <3> SUFFICES ASSUME NEW id \in Ids, NEW d \in Call, resultDictionary'[id] = d
                 PROVE  Started(d)' /\ Id(d)' = id /\ task'[d] = NoResponse
      BY DEF Registered
    <3>1. task' = task
      BY <1>2 DEF RegisterResultCallback
    <3>2. resultDictionary[id] = d \/ (id = Id(c) /\ d = c)
      BY <1>2 DEF RegisterResultCallback, TypeOK
    <3>3. QED  BY <2>3, <2>4, <3>1, <3>2 DEF Registered
  <2>6. Completed' /\ ResponseMatchesId'
    BY <1>2, <2>3 DEF RegisterResultCallback, Completed, ResponseMatchesId, Sequence
  <2>7. QED  BY <2>1, <2>2, <2>5, <2>6
<1>3. ASSUME NEW c \in Call, RaiseErrorResponse(c) \/ SendFails(c) PROVE IdInv'
  <2>1. CompleteEntry(Id(c), LocalResponse(c, "error"))
    BY <1>3 DEF RaiseErrorResponse, SendFails
  <2>2. UNCHANGED method /\ \A d \in Call : Started(d) => Started(d)'
    BY <1>3 DEF RaiseErrorResponse, SendFails, Started, TypeOK
  <2>3. LocalResponse(c, "error") \in Response /\ LocalResponse(c, "error").of = c
    BY LocalResponseInResponse DEF LocalKind
  <2>4. /\ resultDictionary' \in [Ids -> Call \cup {NoCall}]
        /\ task' \in [Call -> Response \cup {NoResponse}]
        /\ Registered' /\ Completed' /\ ResponseMatchesId'
    BY <2>1, <2>2, <2>3, CompleteEntryKeeps
  <2>5. TypeOK' /\ Drawn' /\ Answered'
    BY <1>3, <2>4 DEF RaiseErrorResponse, SendFails, TypeOK, Drawn, network
  <2>6. QED  BY <2>4, <2>5
<1>4. ASSUME NEW c \in Call,
             Transmit(c) \/ SendCompletes(c) \/ SendClosed(c) \/ Return(c)
      PROVE  IdInv'
  <2>1. TypeOK' /\ Drawn' /\ Answered'
    BY <1>4 DEF Transmit, SendCompletes, SendClosed, Return, DisposeTimer,
                TypeOK, Drawn, network
  <2>2. Registered' /\ Completed' /\ ResponseMatchesId'
    BY <1>4, QuietStepKeeps
    DEF Transmit, SendCompletes, SendClosed, Return, Started, TypeOK
  <2>3. QED  BY <2>1, <2>2
<1>5. ASSUME NEW c \in Call, RaiseTimeoutCallBack(c) PROVE IdInv'
  <2>1. CompleteEntry(Id(c), LocalResponse(c, "timeout"))
    BY <1>5 DEF RaiseTimeoutCallBack
  <2>2. UNCHANGED method /\ \A d \in Call : Started(d) => Started(d)'
    BY <1>5 DEF RaiseTimeoutCallBack, Started
  <2>3. LocalResponse(c, "timeout") \in Response /\ LocalResponse(c, "timeout").of = c
    BY LocalResponseInResponse DEF LocalKind
  <2>4. /\ resultDictionary' \in [Ids -> Call \cup {NoCall}]
        /\ task' \in [Call -> Response \cup {NoResponse}]
        /\ Registered' /\ Completed' /\ ResponseMatchesId'
    BY <2>1, <2>2, <2>3, CompleteEntryKeeps
  <2>5. TypeOK' /\ Drawn' /\ Answered'
    BY <1>5, <2>4 DEF RaiseTimeoutCallBack, TypeOK, Drawn, network
  <2>6. QED  BY <2>4, <2>5
<1>6. ASSUME NEW c \in Call, Handle(c) PROVE IdInv'
  <2> DEFINE r == [of |-> c, kind |-> answer[c]]
  <2>1. CompleteEntry(Id(c), r)
    BY <1>6 DEF Handle
  <2>2. UNCHANGED method /\ \A d \in Call : Started(d) => Started(d)'
    BY <1>6 DEF Handle, Started
  <2>3. r \in Response /\ r.of = c
    BY <1>6 DEF Handle, Response
  <2> HIDE DEF r
  <2>4. /\ resultDictionary' \in [Ids -> Call \cup {NoCall}]
        /\ task' \in [Call -> Response \cup {NoResponse}]
        /\ Registered' /\ Completed' /\ ResponseMatchesId'
    BY <2>1, <2>2, <2>3, CompleteEntryKeeps
  <2>5. TypeOK' /\ Drawn' /\ Answered'
    BY <1>6, <2>4 DEF Handle, TypeOK, Drawn
  <2>6. QED  BY <2>4, <2>5
<1>7. ASSUME NEW c \in Call, Serve(c) \/ Lose(c) PROVE IdInv'
  <2>1. TypeOK' /\ Drawn' /\ Answered'
    BY <1>7 DEF Serve, Lose, TypeOK, Drawn
  <2>2. Registered' /\ Completed' /\ ResponseMatchesId'
    BY <1>7, QuietStepKeeps DEF Serve, Lose, Started
  <2>3. QED  BY <2>1, <2>2
<1>8. CASE UNCHANGED vars
  <2>1. TypeOK' /\ Drawn' /\ Answered'
    BY <1>8 DEF vars, network, TypeOK, Drawn
  <2>2. Registered' /\ Completed' /\ ResponseMatchesId'
    BY <1>8, QuietStepKeeps DEF vars, network, Started
  <2>3. QED  BY <2>1, <2>2
<1>9. QED
  BY <1>1, <1>2, <1>3, <1>4, <1>5, <1>6, <1>7, <1>8 DEF Next, SendEnds

LEMMA IdInvInvariant == Spec => []IdInv
BY IdInvInit, IdInvStep, PTL DEF Spec

\* Type correctness of DefaultCallInvoker's state.
THEOREM TypeCorrect == Spec => []TypeOK
<1>1. IdInv => TypeOK
  BY DEF IdInv
<1>2. QED  BY <1>1, IdInvInvariant, PTL

\* An entry of the result dictionary is always that of an unanswered call with
\* that id, however often the counter has wrapped.
THEOREM EntriesUnanswered == Spec => []EntryIsUnanswered
<1>1. IdInv => EntryIsUnanswered
  BY DEF IdInv, TypeOK, Registered, EntryIsUnanswered
<1>2. QED  BY <1>1, IdInvInvariant, PTL

\* A response only ever completes a task of its own method and sequence number.
THEOREM ResponsesMatchIds == Spec => []ResponseMatchesId
<1>1. IdInv => ResponseMatchesId
  BY DEF IdInv
<1>2. QED  BY <1>1, IdInvInvariant, PTL

LEMMA CompletedTaskKept ==
  ASSUME TypeOK, [Next]_vars, NEW c \in Call, task[c] # NoResponse
  PROVE  task'[c] = task[c]
<1>1. ASSUME NEW id, NEW r, CompleteEntry(id, r) PROVE task'[c] = task[c]
  BY <1>1 DEF CompleteEntry, TypeOK
<1>2. Next => task' = task \/ \E id, r : CompleteEntry(id, r)
  BY DEF Next, AutoSetSequence, RegisterResultCallback, SendEnds,
         RaiseErrorResponse, Transmit, SendCompletes, SendClosed, SendFails,
         Return, RaiseTimeoutCallBack, Handle, Serve, Lose
<1>3. QED  BY <1>1, <1>2 DEF vars

\* What takes the entry of a call gives it a result.
EntryKept ==
  \A d \in Call : resultDictionary[Id(d)] = d =>
    resultDictionary'[Id(d)] = d \/ task'[d] # NoResponse

LEMMA CompleteEntryServes ==
  ASSUME IdInv, NEW x \in Call, NEW r \in Response, CompleteEntry(Id(x), r)
  PROVE  EntryKept
<1> SUFFICES ASSUME NEW d \in Call, resultDictionary[Id(d)] = d
             PROVE  resultDictionary'[Id(d)] = d \/ task'[d] # NoResponse
  BY DEF EntryKept
<1>1. Id(x) \in Ids /\ Id(d) \in Ids /\ d # NoCall /\ TypeOK
  BY IdInIds DEF IdInv, TypeOK, Call, NoCall
<1>2. CASE Id(d) = Id(x)
  <2>1. resultDictionary[Id(x)] = d /\ task[d] = NoResponse
    BY <1>1, <1>2 DEF IdInv, Registered
  <2>2. task'[d] = r
    BY <1>1, <2>1 DEF CompleteEntry, TypeOK
  <2>3. QED  BY <2>2, NoResponseIsNone
<1>3. CASE Id(d) # Id(x)
  BY <1>1, <1>3 DEF CompleteEntry, TypeOK
<1>4. QED  BY <1>2, <1>3

\* A call comes into flight by its registration, with its entry or with another's.
LEMMA FlightStep ==
  ASSUME IdInv, [Next]_vars
  PROVE  /\ UNCHANGED method
         /\ EntryKept
         /\ \A c \in Call : InFlight(c)' => \/ InFlight(c)
                                            \/ resultDictionary'[Id(c)] = c
                                            \/ \E d \in Call \ {c} :
                                                 /\ Id(d) = Id(c)
                                                 /\ resultDictionary'[Id(c)] = d
<1> TypeOK
  BY DEF IdInv
<1>1. ASSUME UNCHANGED resultDictionary PROVE EntryKept
  BY <1>1 DEF EntryKept
<1>2. ASSUME NEW c \in Call, RegisterResultCallback(c)
      PROVE  /\ UNCHANGED method /\ EntryKept
             /\ \A b \in Call \ {c} : InFlight(b)' => InFlight(b)
             /\ \/ resultDictionary'[Id(c)] = c
                \/ \E d \in Call \ {c} : Id(d) = Id(c) /\ resultDictionary'[Id(c)] = d
  <2>1. Id(c) \in Ids /\ \A d \in Call : Id(d) \in Ids /\ d # NoCall
    BY IdInIds DEF TypeOK, Call, NoCall
  <2>2. resultDictionary' = [resultDictionary EXCEPT
          ![Id(c)] = IF resultDictionary[Id(c)] = NoCall THEN c ELSE resultDictionary[Id(c)]]
    BY <1>2 DEF RegisterResultCallback
  <2>3. UNCHANGED method /\ \A b \in Call \ {c} : InFlight(b)' => InFlight(b)
    BY <1>2 DEF RegisterResultCallback, InFlight, TypeOK
  <2>4. EntryKept
    BY <2>1, <2>2 DEF EntryKept, TypeOK
  <2>5. CASE resultDictionary[Id(c)] = NoCall
    BY <2>1, <2>2, <2>3, <2>4, <2>5 DEF TypeOK
  <2>6. CASE resultDictionary[Id(c)] # NoCall
    <3>1. PICK d \in Call : resultDictionary[Id(c)] = d
      BY <2>1, <2>6 DEF TypeOK
    <3>2. Id(d) = Id(c) /\ Started(d)
      BY <2>1, <3>1 DEF IdInv, Registered
    <3>3. d # c
      BY <1>2, <3>2 DEF RegisterResultCallback, Started
    <3>4. resultDictionary'[Id(c)] = d
      BY <2>1, <2>2, <2>6, <3>1 DEF TypeOK
    <3>5. QED  BY <2>3, <2>4, <3>2, <3>3, <3>4
  <2>7. QED  BY <2>5, <2>6
<1>3. ASSUME NEW c \in Call,
             \/ RaiseErrorResponse(c) \/ SendFails(c)
             \/ RaiseTimeoutCallBack(c) \/ Handle(c)
      PROVE  /\ UNCHANGED method /\ EntryKept
             /\ \A b \in Call : InFlight(b)' => InFlight(b)
  <2>1. UNCHANGED method /\ \A b \in Call : InFlight(b)' => InFlight(b)
    BY <1>3 DEF RaiseErrorResponse, SendFails, RaiseTimeoutCallBack, Handle, InFlight, TypeOK
  <2>2. PICK r \in Response : CompleteEntry(Id(c), r)
    <3>1. ASSUME Handle(c) PROVE [of |-> c, kind |-> answer[c]] \in Response
      BY <3>1 DEF Handle, Response, IdInv, Answered
    <3>2. LocalResponse(c, "error") \in Response /\ LocalResponse(c, "timeout") \in Response
      BY LocalResponseInResponse DEF LocalKind
    <3>3. QED
      BY <1>3, <3>1, <3>2 DEF RaiseErrorResponse, SendFails, RaiseTimeoutCallBack, Handle
  <2>3. QED  BY <2>1, <2>2, CompleteEntryServes
<1>4. ASSUME NEW c \in Call,
             \/ AutoSetSequence(c) \/ Transmit(c) \/ SendCompletes(c) \/ SendClosed(c)
             \/ Return(c) \/ Serve(c) \/ Lose(c)
      PROVE  /\ UNCHANGED method /\ EntryKept
             /\ \A b \in Call : InFlight(b)' => InFlight(b)
  <2>1. UNCHANGED <<method, resultDictionary>>
    BY <1>4 DEF AutoSetSequence, Transmit, SendCompletes, SendClosed, Return, Serve, Lose
  <2>2. \A b \in Call : InFlight(b)' => InFlight(b)
    BY <1>4 DEF AutoSetSequence, Transmit, SendCompletes, SendClosed, Return, Serve, Lose,
                InFlight, TypeOK
  <2>3. QED  BY <1>1, <2>1, <2>2
<1>5. CASE UNCHANGED vars
  BY <1>1, <1>5 DEF vars, InFlight
<1>6. QED  BY <1>2, <1>3, <1>4, <1>5 DEF Next, SendEnds

LEMMA LostStep == IdInv /\ LostOnlyToTwin /\ [Next]_vars => LostOnlyToTwin'
<1> SUFFICES ASSUME IdInv, LostOnlyToTwin, [Next]_vars, NEW c \in Call,
                    InFlight(c)', task'[c] = NoResponse, resultDictionary'[Id(c)'] # c
             PROVE  \E d \in Call \ {c} :
                      /\ Id(d)' = Id(c)'
                      /\ resultDictionary'[Id(c)'] = d \/ task'[d] # NoResponse
  BY DEF LostOnlyToTwin
<1>1. \A d \in Call : Id(d)' = Id(d)
  BY FlightStep DEF Id, Sequence
<1>2. \A d \in Call : task[d] # NoResponse => task'[d] # NoResponse
  BY CompletedTaskKept DEF IdInv
<1>3. EntryKept
  BY FlightStep
<1>4. CASE InFlight(c)
  <2>1. task[c] = NoResponse /\ resultDictionary[Id(c)] # c
    BY <1>1, <1>2, <1>3 DEF EntryKept
  <2>2. PICK d \in Call \ {c} :
          Id(d) = Id(c) /\ (resultDictionary[Id(c)] = d \/ task[d] # NoResponse)
    BY <1>4, <2>1 DEF LostOnlyToTwin
  <2>3. resultDictionary'[Id(c)] = d \/ task'[d] # NoResponse
    BY <1>2, <1>3, <2>2 DEF EntryKept
  <2>4. QED  BY <1>1, <2>2, <2>3
<1>5. CASE ~InFlight(c)
  <2>1. \E d \in Call \ {c} : Id(d) = Id(c) /\ resultDictionary'[Id(c)] = d
    BY <1>1, <1>5, FlightStep
  <2>2. QED  BY <1>1, <2>1
<1>6. QED  BY <1>4, <1>5

\* However often the counter has wrapped, a call is lost only to another call with
\* its id.
THEOREM CallsLostToTwins == Spec => []LostOnlyToTwin
<1>1. Init => LostOnlyToTwin
  BY DEF Init, LostOnlyToTwin, InFlight
<1>2. QED  BY <1>1, LostStep, IdInvInvariant, PTL DEF Spec

----------------------------------------------------------------------------
(***************************************************************************)
(* From here on fewer calls are made than there are sequence numbers, so   *)
(* an id is the id of one call.                                            *)
(***************************************************************************)
NoWrap == MaxCalls < SeqModulus

LEMMA IdInjective ==
  ASSUME NoWrap, NEW c \in Call, NEW d \in Call, Id(c) = Id(d) PROVE c = d
<1>1. ASSUME NEW x \in Call PROVE Sequence(x) = x
  <2>1. x \in Nat /\ SeqModulus \in Nat /\ x < SeqModulus
    BY CallInvokerAssumption DEF Call, NoWrap
  <2>2. QED  BY <2>1 DEF Sequence
<1>2. QED  BY <1>1 DEF Id

\* A call that ended normally had a result.
DoneHasResult == \A c \in Call : pc[c] = "done" => task[c] # NoResponse

\* A request is on the wire or answered only once its call has transmitted it.
Wire ==
  \A c \in Call :
    /\ c \in requests => answer[c] = "none"
    /\ pc[c] \in {"idle", "armed", "sending"} =>
         answer[c] = "none" /\ c \notin requests

\* A timer starts with its call and is not left running after it.
TimerWithin ==
  \A c \in Call : /\ timer[c] = "armed" => ~Over(c)
                  /\ pc[c] = "idle" <=> timer[c] = "none"

IInv == /\ IdInv
        /\ OwnResponse /\ Answerable
        /\ DoneHasResult /\ Wire /\ TimerWithin

\* What completing the entry of call x does to the calls, when ids are unique.
LEMMA CompleteEntryOwn ==
  ASSUME NoWrap, IInv, NEW x \in Call, NEW r \in Response,
         CompleteEntry(Id(x), r)
  PROVE  /\ \A c \in Call \ {x} : task'[c] = task[c]
                                /\ resultDictionary'[Id(c)] = resultDictionary[Id(c)]
         /\ task'[x] = task[x] \/ (task[x] = NoResponse /\ task'[x] = r)
         /\ InFlight(x) => task'[x] # NoResponse
<1> DEFINE owner == resultDictionary[Id(x)]
<1>1. /\ \A c \in Call : Id(c) \in Ids
      /\ owner \in Call \cup {NoCall}
      /\ NoCall \notin Call
      /\ resultDictionary' = [resultDictionary EXCEPT ![Id(x)] = NoCall]
      /\ task' = IF owner # NoCall /\ task[owner] = NoResponse
                   THEN [task EXCEPT ![owner] = r] ELSE task
  BY IdInIds DEF IInv, IdInv, TypeOK, CompleteEntry, NoCall, Call
<1>2. owner # NoCall => owner = x
  BY <1>1, IdInjective DEF IInv, IdInv, Registered
<1>3. ASSUME NEW c \in Call \ {x}
      PROVE  task'[c] = task[c] /\ resultDictionary'[Id(c)] = resultDictionary[Id(c)]
  <2>1. Id(c) # Id(x)
    BY <1>3, IdInjective
  <2>2. QED  BY <1>1, <1>2, <2>1 DEF IInv, IdInv, TypeOK
<1>4. task'[x] = task[x] \/ (task[x] = NoResponse /\ task'[x] = r)
  BY <1>1, <1>2 DEF IInv, IdInv, TypeOK
<1>5. InFlight(x) => task'[x] # NoResponse
  <2> SUFFICES ASSUME InFlight(x), task[x] = NoResponse PROVE task'[x] # NoResponse
    BY <1>4, NoResponseIsNone
  <2>1. owner = x
    BY DEF IInv, Answerable
  <2>2. task'[x] = r
    BY <1>1, <2>1 DEF IInv, IdInv, TypeOK
  <2>3. QED  BY <2>2, NoResponseIsNone
<1>6. QED  BY <1>3, <1>4, <1>5

LEMMA IInvInit == Init => IInv
BY IdInvInit
DEF Init, IInv, OwnResponse, Answerable, DoneHasResult, Wire, TimerWithin,
    InFlight, Over

\* The steps that complete the entry of call c, with response r.
LEMMA CompletingStep ==
  ASSUME NoWrap, IInv, IdInv', NEW c \in Call, NEW r \in Response, r.of = c,
         CompleteEntry(Id(c), r), UNCHANGED method,
         r.kind \in ServerKind => r.kind = answer'[c],
         r.kind = "timeout" => timer'[c] = "fired",
         answer' = answer,
         \A d \in Call : timer[d] = "fired" => timer'[d] = "fired",
         pc' = pc \/ (InFlight(c) /\ pc' = [pc EXCEPT ![c] = "waiting"])
  PROVE  OwnResponse' /\ Answerable' /\ DoneHasResult'
<1>1. /\ \A d \in Call \ {c} : task'[d] = task[d]
                              /\ resultDictionary'[Id(d)] = resultDictionary[Id(d)]
      /\ task'[c] = task[c] \/ (task[c] = NoResponse /\ task'[c] = r)
      /\ InFlight(c) => task'[c] # NoResponse
  BY CompleteEntryOwn
<1>2. OwnResponse'
  BY <1>1 DEF IInv, OwnResponse
<1>3. \A d \in Call : Id(d)' = Id(d)
  BY DEF Id, Sequence
<1>4. \A d \in Call : InFlight(d)' => InFlight(d)
  BY DEF InFlight, IInv, IdInv, TypeOK
<1>5. Answerable'
  <2> SUFFICES ASSUME NEW d \in Call, InFlight(d)', task'[d] = NoResponse
               PROVE  resultDictionary'[Id(d)] = d
    BY <1>3 DEF Answerable
  <2>1. d # c
    BY <1>1, <1>4
  <2>2. QED  BY <1>1, <1>4, <2>1 DEF IInv, Answerable
<1>6. DoneHasResult'
  <2>1. \A d \in Call : pc'[d] = "done" => pc[d] = "done"
    BY DEF IInv, IdInv, TypeOK
  <2>2. \A d \in Call : task[d] # NoResponse => task'[d] # NoResponse
    BY <1>1, NoResponseIsNone
  <2>3. QED  BY <2>1, <2>2 DEF IInv, DoneHasResult
<1>7. QED  BY <1>2, <1>5, <1>6

LEMMA IInvStep == NoWrap /\ IInv /\ [Next]_vars => IInv'
<1> SUFFICES ASSUME NoWrap, IInv, [Next]_vars PROVE IInv'
  OBVIOUS
<1>0. IdInv' /\ TypeOK /\ TypeOK'
  BY IdInvStep DEF IInv, IdInv
<1>i. \A c \in Call : Id(c)' = Id(c)
  <2>1. method' = method
    BY DEF Next, AutoSetSequence, RegisterResultCallback, SendEnds, vars,
           RaiseErrorResponse, Transmit, SendCompletes, SendClosed, SendFails,
           Return, RaiseTimeoutCallBack, Handle, Serve, Lose
  <2>2. QED  BY <2>1 DEF Id, Sequence
<1>1. ASSUME NEW c \in Call, AutoSetSequence(c) PROVE IInv'
  <2>1. pc[c] = "idle"
    BY <1>0, <1>1 DEF AutoSetSequence, IInv, IdInv, Drawn, Call, TypeOK
  <2>2. OwnResponse' /\ DoneHasResult' /\ Wire' /\ TimerWithin'
    BY <1>0, <1>1, <2>1
    DEF AutoSetSequence, IInv, IdInv, Completed, Started, OwnResponse,
        DoneHasResult, Wire, TimerWithin, Over, TypeOK, network
  <2>3. Answerable'
    BY <1>0, <1>1, <1>i
    DEF AutoSetSequence, IInv, Answerable, InFlight, TypeOK
  <2>4. QED  BY <1>0, <2>2, <2>3 DEF IInv
<1>2. ASSUME NEW c \in Call, RegisterResultCallback(c) PROVE IInv'
  <2>1. OwnResponse' /\ DoneHasResult' /\ Wire' /\ TimerWithin'
    BY <1>0, <1>2
    DEF RegisterResultCallback, IInv, OwnResponse, DoneHasResult, Wire,
        TimerWithin, Over, TypeOK, network
  <2>2. resultDictionary[Id(c)] = NoCall
    <3>1. Id(c) \in Ids
      BY <1>0, IdInIds DEF TypeOK
    <3>2. ASSUME NEW d \in Call, resultDictionary[Id(c)] = d PROVE FALSE
      BY <1>2, <3>1, <3>2, IdInjective
      DEF RegisterResultCallback, IInv, IdInv, Registered, Started
    <3>3. QED  BY <1>0, <3>1, <3>2 DEF TypeOK
  <2>3. Answerable'
    <3> SUFFICES ASSUME NEW d \in Call, InFlight(d)', task'[d] = NoResponse
                 PROVE  resultDictionary'[Id(d)] = d
      BY <1>i DEF Answerable
    <3>1. CASE d = c
      BY <1>0, <1>2, <2>2, <3>1, IdInIds DEF RegisterResultCallback, TypeOK
    <3>2. CASE d # c
      <4>1. Id(d) # Id(c) /\ Id(d) \in Ids
        BY <1>0, <3>2, IdInjective, IdInIds DEF TypeOK
      <4>2. InFlight(d) /\ task[d] = NoResponse
        BY <1>0, <1>2, <3>2 DEF RegisterResultCallback, InFlight, TypeOK
      <4>3. QED
        BY <1>0, <1>2, <4>1, <4>2
        DEF RegisterResultCallback, IInv, Answerable, TypeOK
    <3>3. QED  BY <3>1, <3>2
  <2>4. QED  BY <1>0, <2>1, <2>3 DEF IInv
<1>3. ASSUME NEW c \in Call, RaiseErrorResponse(c) \/ SendFails(c) PROVE IInv'
  <2> DEFINE r == LocalResponse(c, "error")
  <2>1. CompleteEntry(Id(c), r) /\ r \in Response /\ r.of = c /\ r.kind = "error"
    BY <1>3 DEF RaiseErrorResponse, SendFails, LocalResponse, Response, LocalKind
  <2>2. /\ UNCHANGED <<method, timer, answer, requests>>
        /\ InFlight(c) /\ pc' = [pc EXCEPT ![c] = "waiting"]
    BY <1>3 DEF RaiseErrorResponse, SendFails, InFlight, network
  <2> HIDE DEF r
  <2>3. OwnResponse' /\ Answerable' /\ DoneHasResult'
    BY <1>0, <2>1, <2>2, CompletingStep DEF ServerKind
  <2>4. Wire' /\ TimerWithin'
    BY <1>0, <2>2 DEF IInv, Wire, TimerWithin, Over, InFlight, TypeOK
  <2>5. QED  BY <1>0, <2>3, <2>4 DEF IInv
<1>4. ASSUME NEW c \in Call,
             Transmit(c) \/ SendCompletes(c) \/ SendClosed(c) \/ Return(c)
      PROVE  IInv'
  <2>1. OwnResponse' /\ DoneHasResult'
    BY <1>0, <1>4
    DEF Transmit, SendCompletes, SendClosed, Return, DisposeTimer, IInv,
        OwnResponse, DoneHasResult, TypeOK, network
  <2>2. Wire' /\ TimerWithin'
    BY <1>0, <1>4
    DEF Transmit, SendCompletes, SendClosed, Return, DisposeTimer, IInv,
        Wire, TimerWithin, Over, TypeOK, network
  <2>3. Answerable'
    BY <1>0, <1>4, <1>i
    DEF Transmit, SendCompletes, SendClosed, Return, IInv, Answerable,
        InFlight, TypeOK
  <2>4. QED  BY <1>0, <2>1, <2>2, <2>3 DEF IInv
<1>5. ASSUME NEW c \in Call, RaiseTimeoutCallBack(c) PROVE IInv'
  <2> DEFINE r == LocalResponse(c, "timeout")
  <2>1. CompleteEntry(Id(c), r) /\ r \in Response /\ r.of = c /\ r.kind = "timeout"
    BY <1>5 DEF RaiseTimeoutCallBack, LocalResponse, Response, LocalKind
  <2>2. /\ UNCHANGED <<method, answer, requests, pc>>
        /\ timer[c] = "armed" /\ timer' = [timer EXCEPT ![c] = "fired"]
    BY <1>5 DEF RaiseTimeoutCallBack, network
  <2>3. timer'[c] = "fired" /\ \A d \in Call : timer[d] = "fired" => timer'[d] = "fired"
    BY <1>0, <2>2 DEF TypeOK
  <2> HIDE DEF r
  <2>4. OwnResponse' /\ Answerable' /\ DoneHasResult'
    BY <1>0, <2>1, <2>2, <2>3, CompletingStep DEF ServerKind
  <2>5. Wire' /\ TimerWithin'
    BY <1>0, <2>2 DEF IInv, Wire, TimerWithin, Over, TypeOK
  <2>6. QED  BY <1>0, <2>4, <2>5 DEF IInv
<1>6. ASSUME NEW c \in Call, Handle(c) PROVE IInv'
  <2> DEFINE r == [of |-> c, kind |-> answer[c]]
  <2>1. CompleteEntry(Id(c), r) /\ r.of = c /\ r.kind = answer[c]
    BY <1>6 DEF Handle
  <2>2. r \in Response /\ answer[c] # "timeout"
    BY <1>6 DEF Handle, Response, IInv, IdInv, Answered, ServerKind
  <2>3. UNCHANGED <<method, answer, requests, pc, timer>>
    BY <1>6 DEF Handle
  <2> HIDE DEF r
  <2>4. OwnResponse' /\ Answerable' /\ DoneHasResult'
    BY <1>0, <2>1, <2>2, <2>3, CompletingStep
  <2>5. Wire' /\ TimerWithin'
    BY <1>0, <2>3 DEF IInv, Wire, TimerWithin, Over
  <2>6. QED  BY <1>0, <2>4, <2>5 DEF IInv
<1>7. ASSUME NEW c \in Call, Serve(c) \/ Lose(c) PROVE IInv'
  <2>1. UNCHANGED <<method, pc, timer, resultDictionary, task>>
    BY <1>7 DEF Serve, Lose
  <2>2. Answerable' /\ DoneHasResult' /\ TimerWithin'
    BY <1>i, <2>1 DEF IInv, Answerable, InFlight, DoneHasResult, TimerWithin, Over
  <2>3. OwnResponse' /\ Wire'
    BY <1>0, <1>7 DEF Serve, Lose, IInv, OwnResponse, Wire, TypeOK, ServerKind
  <2>4. QED  BY <1>0, <2>2, <2>3 DEF IInv
<1>8. CASE UNCHANGED vars
  BY <1>0, <1>8, <1>i
  DEF vars, network, IInv, OwnResponse, Answerable, InFlight, DoneHasResult,
      Wire, TimerWithin, Over
<1>9. QED
  BY <1>1, <1>2, <1>3, <1>4, <1>5, <1>6, <1>7, <1>8 DEF Next, SendEnds

LEMMA IInvInvariant == ASSUME NoWrap PROVE Spec => []IInv
<1>1. IInv /\ [Next]_vars => IInv'
  BY IInvStep
<1>2. QED  BY <1>1, IInvInit, PTL DEF Spec

\* A call only ever gets its own result.
THEOREM ResultsAreOwn == ASSUME NoWrap PROVE Spec => []OwnResponse
<1>1. IInv => OwnResponse
  BY DEF IInv
<1>2. QED  BY <1>1, IInvInvariant, PTL

\* A reply can reach every call in flight that has no result yet.
THEOREM CallsAnswerable == ASSUME NoWrap PROVE Spec => []Answerable
<1>1. IInv => Answerable
  BY DEF IInv
<1>2. QED  BY <1>1, IInvInvariant, PTL

\* Only a closed channel leaves an entry behind.
THEOREM LeaksOnlyOnClosedChannel ==
  ASSUME NoWrap PROVE Spec => []LeakOnlyOnClosedChannel
<1>1. IInv => LeakOnlyOnClosedChannel
  BY DEF IInv, IdInv, Registered, DoneHasResult, Over, LeakOnlyOnClosedChannel
<1>2. QED  BY <1>1, IInvInvariant, PTL

----------------------------------------------------------------------------
\* A step that moves no call across its beginning or its end leaves the
\* callers' view of all calls alone.
LEMMA InvisibleStep ==
  ASSUME IInv, [Next]_vars,
         \A c \in Call :
           \/ pc'[c] = pc[c]
           \/ /\ pc[c] \in {"armed", "sending", "sent", "waiting"}
              /\ pc'[c] \in {"armed", "sending", "sent", "waiting"}
  PROVE  \A c \in Call : CallStatus(c)' = CallStatus(c)
<1> SUFFICES ASSUME NEW c \in Call PROVE CallStatus(c)' = CallStatus(c)
  OBVIOUS
<1>1. CASE pc[c] = "done"
  <2>1. task'[c] = task[c]
    BY <1>1, CompletedTaskKept DEF IInv, IdInv, DoneHasResult
  <2>2. QED  BY <1>1, <2>1 DEF CallStatus
<1>2. CASE pc[c] # "done"
  BY <1>2 DEF CallStatus
<1>3. QED  BY <1>1, <1>2

LEMMA RefinementInit == Init => RPC!Init
BY DEF Init, RPC!Init, CallStatus

LEMMA RefinementStep ==
  NoWrap /\ IInv /\ IInv' /\ [Next]_vars => [RPC!Next]_(RPC!vars)
<1> SUFFICES ASSUME NoWrap, IInv, IInv', [Next]_vars
             PROVE  RPC!Next \/ UNCHANGED RPC!vars
  OBVIOUS
<1> DEFINE status  == [c \in Call |-> CallStatus(c)]
           expired == {c \in Call : timer[c] = "fired"}
<1>0. TypeOK /\ TypeOK'
  BY DEF IInv, IdInv
<1>1. ASSUME NEW c \in Call, AutoSetSequence(c) PROVE RPC!Next
  <2>1. pc[c] = "idle"
    BY <1>0, <1>1 DEF AutoSetSequence, IInv, IdInv, Drawn, Call, TypeOK
  <2>2. \A d \in Call \ {c} : pc'[d] = pc[d] /\ task'[d] = task[d]
    BY <1>0, <1>1 DEF AutoSetSequence, TypeOK
  <2>3. pc'[c] = "armed"
    BY <1>0, <1>1 DEF AutoSetSequence, TypeOK
  <2>4. status[c] = "unused" /\ status' = [status EXCEPT ![c] = "open"]
    BY <2>1, <2>2, <2>3 DEF CallStatus
  <2>5. expired' = expired /\ answer' = answer
    BY <1>0, <1>1, <2>1
    DEF AutoSetSequence, network, TypeOK, IInv, TimerWithin
  <2>6. QED  BY <2>4, <2>5 DEF RPC!Next, RPC!Begin
<1>2. ASSUME NEW c \in Call,
             \/ RegisterResultCallback(c) \/ RaiseErrorResponse(c) \/ Transmit(c)
             \/ SendCompletes(c) \/ SendFails(c) \/ Handle(c) \/ Lose(c)
      PROVE  UNCHANGED RPC!vars
  <2>1. status' = status
    <3>1. \A d \in Call :
            \/ pc'[d] = pc[d]
            \/ /\ pc[d] \in {"armed", "sending", "sent", "waiting"}
               /\ pc'[d] \in {"armed", "sending", "sent", "waiting"}
      BY <1>0, <1>2
      DEF RegisterResultCallback, RaiseErrorResponse, Transmit, SendCompletes,
          SendFails, Handle, Lose, TypeOK
    <3>2. QED  BY <3>1, InvisibleStep
  <2>2. UNCHANGED <<timer, answer>>
    BY <1>2
    DEF RegisterResultCallback, RaiseErrorResponse, Transmit, SendCompletes,
        SendFails, Handle, Lose, network
  <2>3. QED  BY <2>1, <2>2 DEF RPC!vars
<1>3. ASSUME NEW c \in Call, SendClosed(c) \/ Return(c) PROVE RPC!Next
  <2> DEFINE how == IF pc'[c] = "closed" THEN "closed" ELSE task[c].kind
  <2>1. /\ pc[c] \in {"sending", "sent", "waiting"}
        /\ task' = task /\ answer' = answer
        /\ \A d \in Call \ {c} : pc'[d] = pc[d]
        /\ \/ pc'[c] = "closed"
           \/ pc'[c] = "done" /\ task[c] # NoResponse
    BY <1>0, <1>3 DEF SendClosed, Return, TypeOK, network
  <2>2. expired' = expired
    BY <1>0, <1>3 DEF SendClosed, Return, DisposeTimer, TypeOK
  <2>3. status[c] = "open" /\ status' = [status EXCEPT ![c] = how]
    BY <2>1 DEF CallStatus
  <2>4. /\ how \in ServerKind \cup {"error", "closed", "timeout"}
        /\ how \in ServerKind => how = answer[c]
        /\ how = "timeout" => c \in expired
    BY <1>0, <2>1 DEF IInv, OwnResponse, TypeOK, Response, ServerKind, LocalKind
  <2>5. RPC!Finish(c, how)
    BY <2>1, <2>2, <2>3, <2>4 DEF RPC!Finish
  <2>6. QED  BY <2>4, <2>5 DEF RPC!Next, RPC!Ended
<1>4. ASSUME NEW c \in Call, RaiseTimeoutCallBack(c) PROVE RPC!Next
  <2>1. pc' = pc /\ answer' = answer /\ timer[c] = "armed"
    BY <1>4 DEF RaiseTimeoutCallBack, network
  <2>2. status' = status
    BY <2>1, InvisibleStep
  <2>3. status[c] = "open"
    BY <1>0, <2>1 DEF IInv, TimerWithin, Over, CallStatus, TypeOK
  <2>4. expired' = expired \cup {c}
    BY <1>0, <1>4 DEF RaiseTimeoutCallBack, TypeOK
  <2>5. QED  BY <2>1, <2>2, <2>3, <2>4 DEF RPC!Next, RPC!Expire
<1>5. ASSUME NEW c \in Call, Serve(c) PROVE RPC!Next
  <2>1. pc' = pc /\ timer' = timer
    BY <1>5 DEF Serve
  <2>2. status' = status
    BY <2>1, InvisibleStep
  <2>3. status[c] # "unused" /\ answer[c] = "none"
    BY <1>0, <1>5
    DEF Serve, IInv, Wire, CallStatus, TypeOK, Response, NoResponse, ServerKind,
        LocalKind
  <2>4. \E a \in ServerKind : answer' = [answer EXCEPT ![c] = a]
    BY <1>5 DEF Serve
  <2>5. QED  BY <2>1, <2>2, <2>3, <2>4 DEF RPC!Next, RPC!Serve
<1>6. CASE UNCHANGED vars
  <2>1. status' = status
    BY <1>6, InvisibleStep DEF vars
  <2>2. QED  BY <1>6, <2>1 DEF RPC!vars, vars, network
<1>7. QED
  BY <1>1, <1>2, <1>3, <1>4, <1>5, <1>6 DEF Next, SendEnds

\* DefaultCallInvoker implements the abstract remote call.
THEOREM Refinement == ASSUME NoWrap PROVE Spec => ImplementsRpcCall
BY RefinementInit, RefinementStep, IInvInvariant, PTL
DEF Spec, ImplementsRpcCall, RPC!Spec

=============================================================================
