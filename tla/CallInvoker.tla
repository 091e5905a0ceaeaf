----------------------------- MODULE CallInvoker -----------------------------
(***************************************************************************)
(* DefaultCallInvoker: concurrent remote calls matched with their replies  *)
(* through a dictionary of TaskCompletionSources keyed by message id.      *)
(*                                                                         *)
(* A call is known by the place it took in the order of the increments of  *)
(* the static counter _invokerSeq, so call c carries sequence number       *)
(* c % SeqModulus (the counter is a wrapping int: SeqModulus is 2^32 in    *)
(* the program).  The steps of one call interleave with those of the       *)
(* others, with the timer thread (RaiseTimeoutCallBack) and with the       *)
(* socket's receive thread (Handle).                                       *)
(*                                                                         *)
(* The peer and the network are external: a request or a reply may be      *)
(* lost, and replies come back in any order.                               *)
(***************************************************************************)
EXTENDS Integers

CONSTANTS MaxCalls,     \* bound: the invocations of a run are 1..MaxCalls
          SeqModulus,   \* number of distinct sequence numbers
          Method        \* the (service id, message id) pairs that are called

ASSUME CallInvokerAssumption ==
  /\ MaxCalls \in Nat
  /\ SeqModulus \in Nat \ {0}

Call   == 1..MaxCalls
NoCall == 0

\* What the server may answer: status 0 with data, status 0 without data,
\* data the caller's serializer rejects, or a status code other than 0.
ServerKind == {"ok", "empty", "garbled", "failed"}

\* CODE_TIMEOUT and CODE_INTERNAL_ERROR responses the client makes itself.
LocalKind == {"timeout", "error"}

Response   == [of : Call, kind : ServerKind \cup LocalKind]
NoResponse == [of |-> NoCall, kind |-> "none"]

VARIABLES
  invokerSeq,         \* increments of _invokerSeq so far
  method,             \* method[c]: what call c calls
  pc,                 \* where the invocation stands
  timer,              \* timer[c]: the CancellationTokenSource of call c
  resultDictionary,   \* id -> the call whose task is registered, or NoCall
  task,               \* task[c]: the result of c's TaskCompletionSource
  requests,           \* calls whose request is on its way to the server
  replies,            \* calls whose reply is on its way back
  answer              \* answer[c]: what the server replied, or "none"

vars == <<invokerSeq, method, pc, timer, resultDictionary, task,
          requests, replies, answer>>
network == <<requests, replies, answer>>

----------------------------------------------------------------------------
\* The definitions marked "Wrong:" are variants of the definition that follows,
\* each with a bug that one of the properties below rules out; the
\* specification does not use them.

\* Wrong: every message keeps the default sequence number.
SequenceUnset(c) == 0

\* AmpMessage.Id: "ServiceId|MessageId|Sequence".
Sequence(c) == c % SeqModulus
Ids   == Method \X (0..(SeqModulus - 1))

\* Wrong: the id leaves the method out.
IdWithoutMethod(c) == <<CHOOSE m \in Method : TRUE, Sequence(c)>>

Id(c) == <<method[c], Sequence(c)>>

InFlight(c) == pc[c] \in {"sending", "sent", "waiting"}
Over(c)     == pc[c] \in {"done", "closed"}

TypeOK ==
  /\ invokerSeq \in 0..MaxCalls
  /\ method \in [Call -> Method]
  /\ pc \in [Call -> {"idle", "armed", "sending", "sent", "waiting",
                      "done", "closed"}]
  /\ timer \in [Call -> {"none", "armed", "fired", "disposed"}]
  /\ resultDictionary \in [Ids -> Call \cup {NoCall}]
  /\ task \in [Call -> Response \cup {NoResponse}]
  /\ requests \subseteq Call
  /\ replies \subseteq Call
  /\ answer \in [Call -> ServerKind \cup {"none"}]

Init ==
  /\ invokerSeq = 0
  /\ method \in [Call -> Method]
  /\ pc = [c \in Call |-> "idle"]
  /\ timer = [c \in Call |-> "none"]
  /\ resultDictionary = [id \in Ids |-> NoCall]
  /\ task = [c \in Call |-> NoResponse]
  /\ requests = {}
  /\ replies = {}
  /\ answer = [c \in Call |-> "none"]

----------------------------------------------------------------------------
\* Wrong: TryGetValue in the place of TryRemove.
CompleteEntryKept(id, response) ==
  LET owner == resultDictionary[id] IN
  /\ task' = IF owner # NoCall /\ task[owner] = NoResponse
               THEN [task EXCEPT ![owner] = response]
               ELSE task
  /\ UNCHANGED resultDictionary

\* TryRemove the entry of an id and, if there was one, TrySetResult on its
\* task: the one way a registered task is completed.  The two calls are one
\* step because only the thread that removed the entry holds the task.
CompleteEntry(id, response) ==
  LET owner == resultDictionary[id] IN
  /\ resultDictionary' = [resultDictionary EXCEPT ![id] = NoCall]
  /\ task' = IF owner # NoCall /\ task[owner] = NoResponse
               THEN [task EXCEPT ![owner] = response]
               ELSE task

LocalResponse(c, kind) == [of |-> c, kind |-> kind]

\* The registration of the timeout is disposed when the call leaves the
\* using block; a timer that already fired stays fired.
DisposeTimer(c) ==
  timer' = [timer EXCEPT ![c] = IF @ = "armed" THEN "disposed" ELSE @]

----------------------------------------------------------------------------
\* The invoking thread.

\* AutoSetSequence, then the CancellationTokenSource starts and its callback
\* is registered: from here on the timeout may fire.
AutoSetSequence(c) ==
  /\ c = invokerSeq + 1
  /\ invokerSeq' = invokerSeq + 1
  /\ pc' = [pc EXCEPT ![c] = "armed"]
  /\ timer' = [timer EXCEPT ![c] = "armed"]
  /\ UNCHANGED <<method, resultDictionary, task, network>>

\* TryAdd; when the id is taken only a warning is logged, and the new task is
\* in nobody's reach.
RegisterResultCallback(c) ==
  /\ pc[c] = "armed"
  /\ pc' = [pc EXCEPT ![c] = "sending"]
  /\ resultDictionary' = [resultDictionary EXCEPT
       ![Id(c)] = IF @ = NoCall THEN c ELSE @]
  /\ UNCHANGED <<invokerSeq, method, timer, task, network>>

\* DefaultRpcClient.SendAsync finds no remote point: RaiseErrorResponse hands
\* a response for this id to Handle, on this thread.
RaiseErrorResponse(c) ==
  /\ pc[c] = "sending"
  /\ pc' = [pc EXCEPT ![c] = "waiting"]
  /\ CompleteEntry(Id(c), LocalResponse(c, "error"))
  /\ UNCHANGED <<invokerSeq, method, timer, network>>

\* The transport hands the message to the channel; the await on the send is
\* still pending, and the reply may overtake it.
Transmit(c) ==
  /\ pc[c] = "sending"
  /\ pc' = [pc EXCEPT ![c] = "sent"]
  /\ requests' = requests \cup {c}
  /\ UNCHANGED <<invokerSeq, method, timer, resultDictionary, task,
                 replies, answer>>

SendCompletes(c) ==
  /\ pc[c] = "sent"
  /\ pc' = [pc EXCEPT ![c] = "waiting"]
  /\ UNCHANGED <<invokerSeq, method, timer, resultDictionary, task, network>>

\* ClosedChannelException: the call throws RpcCommunicationException, the
\* using block disposes the timer, and the dictionary is not touched.
SendClosed(c) ==
  /\ pc[c] \in {"sending", "sent"}
  /\ pc' = [pc EXCEPT ![c] = "closed"]
  /\ DisposeTimer(c)
  /\ UNCHANGED <<invokerSeq, method, resultDictionary, task, network>>

\* Wrong: a failed send is reported with CODE_TIMEOUT.
SendFailsAsTimeout(c) ==
  /\ pc[c] \in {"sending", "sent"}
  /\ pc' = [pc EXCEPT ![c] = "waiting"]
  /\ CompleteEntry(Id(c), LocalResponse(c, "timeout"))
  /\ UNCHANGED <<invokerSeq, method, timer, network>>

\* Any other exception of the send: RaiseErrorCallBack, then the call goes on
\* to await its task.
SendFails(c) ==
  /\ pc[c] \in {"sending", "sent"}
  /\ pc' = [pc EXCEPT ![c] = "waiting"]
  /\ CompleteEntry(Id(c), LocalResponse(c, "error"))
  /\ UNCHANGED <<invokerSeq, method, timer, network>>

\* The task is completed and InvokerAsync turns the response into a result
\* ("garbled": Deserialize throws, which ends the call all the same).
Return(c) ==
  /\ pc[c] = "waiting"
  /\ task[c] # NoResponse
  /\ pc' = [pc EXCEPT ![c] = "done"]
  /\ DisposeTimer(c)
  /\ UNCHANGED <<invokerSeq, method, resultDictionary, task, network>>

----------------------------------------------------------------------------
\* The timer thread and the receiving thread.

\* Wrong: the timeout removes the entry and completes nothing.
TimeoutOnlyRemoves(c) ==
  /\ timer[c] = "armed"
  /\ timer' = [timer EXCEPT ![c] = "fired"]
  /\ resultDictionary' = [resultDictionary EXCEPT ![Id(c)] = NoCall]
  /\ UNCHANGED <<invokerSeq, method, pc, task, network>>

\* Fires once.  It may find no entry: the reply was first, or the call has
\* not registered its task yet.
RaiseTimeoutCallBack(c) ==
  /\ timer[c] = "armed"
  /\ timer' = [timer EXCEPT ![c] = "fired"]
  /\ CompleteEntry(Id(c), LocalResponse(c, "timeout"))
  /\ UNCHANGED <<invokerSeq, method, pc, network>>

\* Wrong: a reply without data removes the entry and is then ignored.
HandleSkipsEmpty(c) ==
  /\ c \in replies
  /\ replies' = replies \ {c}
  /\ IF answer[c] = "empty"
       THEN /\ resultDictionary' = [resultDictionary EXCEPT ![Id(c)] = NoCall]
            /\ UNCHANGED task
       ELSE CompleteEntry(Id(c), [of |-> c, kind |-> answer[c]])
  /\ UNCHANGED <<invokerSeq, method, pc, timer, requests, answer>>

\* A reply whose id is unknown (its call timed out or failed) is dropped.
Handle(c) ==
  /\ c \in replies
  /\ replies' = replies \ {c}
  /\ CompleteEntry(Id(c), [of |-> c, kind |-> answer[c]])
  /\ UNCHANGED <<invokerSeq, method, pc, timer, requests, answer>>

----------------------------------------------------------------------------
\* The peer and the network.

Serve(c) ==
  /\ c \in requests
  /\ requests' = requests \ {c}
  /\ replies' = replies \cup {c}
  /\ \E kind \in ServerKind : answer' = [answer EXCEPT ![c] = kind]
  /\ UNCHANGED <<invokerSeq, method, pc, timer, resultDictionary, task>>

Lose(c) ==
  /\ c \in requests \cup replies
  /\ requests' = requests \ {c}
  /\ replies' = replies \ {c}
  /\ UNCHANGED <<invokerSeq, method, pc, timer, resultDictionary, task, answer>>

----------------------------------------------------------------------------
SendEnds(c) == RaiseErrorResponse(c) \/ Transmit(c) \/ SendCompletes(c)
                 \/ SendClosed(c) \/ SendFails(c)

Next ==
  \E c \in Call :
    \/ AutoSetSequence(c) \/ RegisterResultCallback(c)
    \/ SendEnds(c) \/ Return(c)
    \/ RaiseTimeoutCallBack(c) \/ Handle(c)
    \/ Serve(c) \/ Lose(c)

\* A thread inside a call keeps running, a send ends one way or another (the
\* socket reports success or failure), an armed timer fires and a completed
\* task resumes its awaiter.  Nothing is assumed of the peer.
Fairness ==
  \A c \in Call :
    /\ WF_vars(RegisterResultCallback(c))
    /\ WF_vars(SendEnds(c))
    /\ WF_vars(Return(c))
    /\ WF_vars(RaiseTimeoutCallBack(c))

Spec     == Init /\ [][Next]_vars
FairSpec == Spec /\ Fairness

----------------------------------------------------------------------------
(***************************************************************************)
(* Properties, for a process that has not made SeqModulus calls yet.       *)
(***************************************************************************)

\* The result a call gets is its own: a server's answer is the answer to this
\* request, and a timeout means this call's timer fired (Handle,
\* RaiseTimeoutCallBack and RaiseErrorCallBack look tasks up by id only).
OwnResponse ==
  \A c \in Call : task[c] # NoResponse =>
    /\ task[c].of = c
    /\ task[c].kind \in ServerKind => task[c].kind = answer[c]
    /\ task[c].kind = "timeout" => timer[c] = "fired"

\* As long as a call in flight has no result, its entry is in the dictionary,
\* so a reply or an error can still reach it.
Answerable ==
  \A c \in Call : InFlight(c) /\ task[c] = NoResponse =>
    resultDictionary[Id(c)] = c

\* An entry outlives its call only when the send met a closed channel: the
\* one exit of AsyncCallInner that leaves the dictionary as it is.
LeakOnlyOnClosedChannel ==
  \A id \in Ids : \A c \in Call :
    resultDictionary[id] = c /\ Over(c) => pc[c] = "closed"

\* DefaultCallInvoker keeps the promise of RpcCall: the way a call ends for its
\* caller is the kind of the response its task holds, or "closed".
CallStatus(c) ==
  CASE pc[c] = "idle"   -> "unused"
    [] pc[c] = "closed" -> "closed"
    [] pc[c] = "done"   -> task[c].kind
    [] OTHER            -> "open"

RPC == INSTANCE RpcCall WITH
         Answer <- ServerKind,
         LocalError <- {"error", "closed"},
         status <- [c \in Call |-> CallStatus(c)],
         expired <- {c \in Call : timer[c] = "fired"}
ImplementsRpcCall == RPC!Spec

\* A call whose task is registered while its timer is still running ends, even
\* if the peer never answers.
ArmedCallEnds ==
  \A c \in Call : (InFlight(c) /\ timer[c] = "armed") ~> Over(c)

\* Every call ends, with a timeout if nothing else comes.  The code does not
\* keep this: a timer that fires before the task is registered finds no entry,
\* and the call is left without a timeout.
EveryCallEnds ==
  \A c \in Call : (pc[c] # "idle") ~> Over(c)

(***************************************************************************)
(* What is left of this once the counter has wrapped and two calls in      *)
(* flight may carry the same id.                                           *)
(***************************************************************************)

\* An entry is the entry of a call with that id whose task has no result yet.
EntryIsUnanswered ==
  \A id \in Ids : LET owner == resultDictionary[id] IN
    owner # NoCall => Id(owner) = id /\ task[owner] = NoResponse

\* A response completes a task of the same method and sequence number only.
ResponseMatchesId ==
  \A c \in Call : task[c] # NoResponse =>
    /\ method[task[c].of] = method[c]
    /\ Sequence(task[c].of) = Sequence(c)

\* What the warning of AddResultCallback stands for: a call in flight without a
\* result is out of reach of every response only if another call with its id has,
\* or had, the entry in its place.  No timer, error or reply loses a call in another
\* way, whoever's it is: what takes the entry of a call gives it a result.
LostOnlyToTwin ==
  \A c \in Call : InFlight(c) /\ task[c] = NoResponse /\ resultDictionary[Id(c)] # c =>
    \E d \in Call \ {c} :
      Id(d) = Id(c) /\ (resultDictionary[Id(c)] = d \/ task[d] # NoResponse)
=============================================================================
