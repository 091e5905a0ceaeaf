# DotBPE, specified in TLA+

DotBPE (`src/src/`) is an RPC framework for .NET: services are classes whose
methods are numbered, a client calls them through generated proxies over one
TCP connection per server, and an HTTP gateway turns web requests into calls.
This directory specifies the parts of it that are concurrent, decide where a
call goes or fail on many paths, checks them with TLC on small instances, and
proves every invariant of theirs for instances of any size with TLAPS.

## The system

| component | state | operations | what makes it correct |
|---|---|---|---|
| **Call invoker** `DefaultCallInvoker`, `DefaultRpcClient` | `_resultDictionary` (message id → task), the static counter `_invokerSeq`, a timer per call | `InvokerAsync`, `Handle` (a reply), `RaiseTimeoutCallBack`, `RaiseErrorCallBack` | a call ends once, with its own reply or with a timeout that is its own; no entry is left behind; every call ends |
| **Transport factory** `DefaultTransportFactory`, `DefaultTransport` | `_transportCache` (endpoint → connection), a static semaphore | `CreateTransport`, `Socket_OnDisconnected`, `CloseAllTransports` | one live connection per endpoint, none lost; the semaphore is always released; a late event does not hit a younger connection |
| **Service router** `DefaultServiceRouter` | `_routeCache` (key → list of points), made once from the options | `Initialize`, `FindRouterPoint` | a request goes where the options say for its message, its service, its group, or stays local |
| **Round robin** `RoundrobinRoutingPolicy` | the static `RoundCache` (key → counter) | `Select` | the rotation leaves nobody out and never fails |
| Other policies | none | `RandomRoutingPolicy.Select`; the weighted policy is used nowhere | – |
| **Amp protocol** `AmpProtocol`, `AmpMessage`, the DotNetty handlers | bytes arrived, per connection | encode, decode, the messages created | what is decoded is what was encoded, in both versions and wherever the stream is cut; a reply has its request's id |
| **Server dispatch** `DefaultMessageHandler`, `ActorCallHandler`, the locator and the handler factory | `_invokerCache` (method → handler of its interface), `_actorCaches` (id → actor), `_handlerCache` | `ReceiveAsync`, `GetInstance`, `LocateServiceActor`, `HandleCallAsync` | a request is executed by an actor of its service, answered once with what became of it, and audited |
| Server hosting | the socket server | start, stop, `OnReceive` (a task per message) | – |
| **Call context** `CallContext`, `CallContextServiceActorInterceptor` | items and a reference count, in an `AsyncLocal` | `AddDef`, `CloseDef`, the uses of the items | the items live as long as some call uses them, and no longer |
| **Client proxies** `DynamicClientProxy`, `RemoteInvokeInterceptor` | `_typeCache` (service and special message id → proxy or local actor) | `CreateAsync`, then the call | a call goes where the router says, whoever filled the cache |
| Audit log | a formatter, a writer per type | `Log` | called once per call |
| **HTTP gateway** `HttpApiCallHandler` | the response being written, per request | a request: plugins, parse, call, processors, writers | one response per request, on every path an exception takes |
| **Swagger page** `Swagger/UI/DebugContent.js` | the selected method, a spinner, the status and the body shown | select a method, send, show an answer | what is shown belongs to the selected method, and the page does not wait forever |
| Swagger's description, serializers | none | – | – |
| **Object ids** `ObjectId` | a static counter of which 24 bits are used | `GenerateNewId` | no two ids are the same |
| **Collections** `ObservableDictionary`, `SettingsDictionary`, `TagSet` | a dictionary or set | add, remove, apply | the events and the contents agree |

How they interact. A client proxy's interceptor calls `InvokerAsync`, which gives
the request a sequence number, starts its timer, registers a task under the
message's id and awaits `DefaultRpcClient.SendAsync`; that asks the router for a
point, the factory for the connection to it, and sends. The socket library's
threads call back: a received message goes through the client's message handler
to `DefaultCallInvoker.Handle`, a lost connection to `Socket_OnDisconnected`. On
the server every message gets a task of its own (`AmpPeachSocketService`), which
runs a service actor's method, inside a call context, and sends the reply. The
gateway calls services by the same client proxies as the application's own code,
for web requests; some of these come from the Swagger page it serves itself.
Shared state is in concurrent dictionaries, a semaphore, and unlocked counters.

The hard behaviours: a reply, a timeout and a send error racing for one task,
before, while and after the task is registered; ids that are used again once
the counter wraps; connections that die between two steps of the method that
caches them; events that name an address and not a connection; counters that are
read and advanced in two steps, and one of them overflows; a choice that is cached
under one key and used for another; exceptions on both sides of a `try` while a
response is half written; an answer that arrives when its question is no longer on
the page. `PROJECT.json` lists each of
them under "hazards", at its line, with the properties about it.

## What is modelled

Every module follows its class: a variable per field (the source's names, where
TLA+ allows them), an action per stretch of a method between two awaits or two
operations on shared state. Definitions marked "Wrong:" are variants with a
plausible bug, from which each property's strength is seen; no specification
uses them.

**RpcCall** is the abstract remote call: it is open once it has begun, and ends
at most once, with the server's answer to that call, with a timeout after its own
deadline, or with a local error. It has no ids, no dictionary and no messages.

**CallInvoker** is `DefaultCallInvoker`. Call `c` is the one that drew the c-th
sequence number, so `Sequence(c) == c % SeqModulus` (2^32 in the program), and
`resultDictionary` maps ids to calls. `pc[c]` follows `AsyncCallInner`: *armed*
(the timer runs, the task is not registered), *sending* (registered, inside
`SendAsync`), *sent* (the message is with the channel, the await still pending),
*waiting* (for the task), *done* or *closed* (thrown out by
`RpcCommunicationException`). Timer and receiving thread are the actions
`RaiseTimeoutCallBack` and `Handle`, enabled at any of those places. `TryRemove`
and the `TrySetResult` after it are one step: only the thread that removed the
entry can complete the task. A reply's content is one of four kinds (data, no
data, data that does not deserialize, an error code). The server (`Serve`) and
the network (`Lose`) are external; replies come in any order.
A reply of service 0, message 0 is a heartbeat to `Handle` and completes nothing;
`Method` stands for the numbers that services do have.

**TransportFactory** is `DefaultTransportFactory`: callers in `CreateTransport`
(first look, `WaitAsync` with its queue, second look, connect, add, release), the
disconnect event, and one run of `CloseAllTransports`. Channels are numbered in
the order they are made. A channel is *open* until one side ends it, *closed*
while its event is to come, then *gone* or *missed*, after whether the event
found it in the cache. A connection may end at any time, also between
`ConnectAsync` and `AddOrUpdate`. The endpoints are IPv4, for which
`ConvertIPV4EndPoint` changes nothing.

**RoundRobin** is `RoundrobinRoutingPolicy.Select` with an action for each of its
operations on the dictionary: `TryGetValue`, then `TryAdd` or `TryUpdate`, then
the index. `Index` is an int with the values `-MaxIndex-1..MaxIndex`, and
`index + 1` wraps. `drawn` and `before` are history variables: what has been drawn
for each key, and what had been drawn when a caller read the counter.

**ServiceRouter** extends RoundRobin with the routing table (`Initialize`, which adds
the `Entries` of the options one by one, with the sort of the list as .NET does it
for that comparison and up to 16 points) and `FindRouterPoint`, whose selections are RoundRobin's steps, so that two
requests race on the counters of the keys. The branch for a service's route lacks
its `return`: the request goes on to its group. The model does the same, counter
and all. **MCServiceRouter** has the configurations and requests for TLC.

**ServerDispatch** is the server from the message received to its reply: a task
per message (`OnReceive`), in it `ReceiveAsync`, and for a method that is bound
`HandleCallAsync` in four steps, *handling* (locate, deserialize, call),
*executing* (the service's method), *replying*, *auditing*. `Registrations` are
the lists of actors that start-up may leave; the table of methods keeps the first
actor that declares one, the table of ids the last actor that has one, as
`TryAdd` and `AddOrUpdate` do. What a service's method does is external: each
outcome that the handler tells apart may happen, a null result among them. A send
may throw. A one-way request is served and answered like any other.
**MCServerDispatch** has the lists of actors and the messages for TLC.

**CallContext** is `CallContext` with the interceptor around the calls. A context
has the name of the call that made it; a call finds that of the call it is made
from, or of a task that outlives it, or makes its own. `AddDef` is two steps (the
counter is read, then written), `CloseDef` three and `Dispose`; the test after the
write uses the value in a register or reads the field again, which the C# memory
model leaves open. A use of the items is two steps, `ContainsKey` and what follows
from it. Two history variables: `overlapped`, whether two calls of a context have
been in the middle of counting, or of using the items, at once, and `failed`, the
calls whose use has thrown.

**ClientProxy** is `DynamicClientProxy.CreateAsync` and the call after it, for one
service: `routes` and `hosted` are the router's and the locator's tables, which do
not change; `_typeCache` has an entry per special message id. A caller that misses
creates the proxy (`Create`) or finds no actor (`CreateThrows`), and then calls a
message that need not be the special one (`Call`): in the actor, by a message, or
refused by its own client. **MCClientProxy** has every table for two methods.

**HttpApiCall** extends it with `HttpApiCallHandler.HandleCallAsync`. A request is
*received*, *parsed*, *ready* (after a post plugin), *calling*, then *responding*,
*refusing* what its parser or post plugin did not accept, or *reporting* an error,
and is over when its response is *complete* or *broken*; *escaped* is an exception
that leaves the handler. `conf` says which plugins and
processors a method has. A response is a status and the parts that were written:
a plugin's or a processor's own, a result, a part of one, an error. Every writer may
throw, before a part and behind one. The `try` block (lines 75-140) holds the result
of a process plugin and the refusals: when one of these breaks off, a `catch` calls
`SendErrorResponse`, for a refusal the second time (`SendErrorResponseFails` in
*refusing*). Reporting an error is done in a `catch` or behind the block, and the
result of a call is sent behind it: when that breaks off, the exception escapes.
How a message is filled from path, query and body is one choice in `Parse`. The web
server (Kestrel) is external: it answers 500 for a handler that threw, or cuts the
connection when the response had begun, and refuses a status after that.

**DebugPanel** is the Debug tab of the page, read from the built `DebugContent.js`
(its source is not in the repository). Status and body are two states of React, set
one by one; each variable says whose request they show. A click that the page
refuses itself (a path parameter is missing, the body is no JSON) changes nothing
that is shown and is left out. `Answer` is what the panel does when axios' promise
is settled, `Select` what it does when it is handed another method, with or without
a request under way (`late`).

**GatewayUI** composes the two: `SendRequest` is a click and the request received,
`Answered` gives the panel what a browser makes of the response, `GiveUp` is axios'
timeout or a lost connection, after which the gateway goes on with a request that
nobody waits for, beside the next one. Callers that are no requests are other code
of the process, on the same cache of proxies. **MCGatewayUI** has the tables and the
configurations of plugins for TLC.

**AmpProtocol** is the message and its form on the wire, with every field at its
width: `Encode`, `Decode`, and when that throws (`Rejects`). `WriteInt` and the
like are DotNetty's and modelled by the bytes they write. `Normal` says what is
left of a message on the other side: in version 0, the lower half of the service
id and no codec; in both, null for empty data.

**AmpConnection** extends it with one connection: the messages sent, the bytes on
their way and the bytes arrived, in both directions, the frames that the length
field's decoder cuts, and what the message decoder makes of them. Segments of TCP
are runs of `Arrive`, one byte each, so a stream is cut at every place. The client
sends requests, numbered as `AutoSetSequence` does, and heartbeats; the server
replies to what it has decoded, in any order, as `HeartBeatServiceActor`,
`ActorCallHandler` and `NotFoundServiceActor` do. Both ends have one codec.
**MCAmpConnection** has the calls and results for TLC.

## What is checked

| run | bounds | distinct states | it shows |
|---|---|---|---|
| `invoker_calls` | 2 calls, 2 methods, no wrap, fair client | 126 000 | a result is the call's own (`OwnResponse`), a call in flight without a result can be reached (`Answerable`), only a closed channel leaves an entry behind (`LeakOnlyOnClosedChannel`), CallInvoker implements RpcCall (`ImplementsRpcCall`), and a call registered while its timer runs ends (`ArmedCallEnds`) |
| `invoker_wrap` | 2 calls with one sequence number, 2 methods | 246 000 | with equal ids an entry still belongs to an unanswered call with that id (`EntryIsUnanswered`), a response completes a task of the same method and number (`ResponseMatchesId`), and a call gets out of the reach of every response only by another call with its id that has, or had, the entry (`LostOnlyToTwin`) |
| `invoker_timeout` | 1 call, fair client | – | **violated**: not every call ends (finding 1) |
| `factory` | 2 callers, 2 endpoints, 4 connections, fair callers | 1.2 million | the semaphore, the cache and the connections agree; no deadlock; `CreateTransport` ends for every caller (`CreateTransportEnds`) |
| `router_routes` | 2 callers, 24 configurations, 4 requests, an int of 4 values | 1.5 million | a request goes where the options say, and fails only after one of its own counters has overflowed (`RightRoute`), no configured address is lost (`NothingConfiguredIsLost`); for the counter of each key, no endpoint is skipped, repeats come from overlapping calls, `Select` fails only after an overflow, the counter never goes back |
| `router_weights` | 1 to 4 entries, weights 1 and 2 | – | **violated**: lists are not ordered by weight (finding 2) |
| `server_dispatch` | 2 messages of 7 kinds, 7 lists of actors, fair tasks | 83 000 | a bound method is executed by an actor of its service unless two interfaces share a service id (`ServedUnlessConflict`), a reply tells what happened (`ReplyTellsResult`) and is the only one (`RepliedOnce`), the audit log has just the calls that returned (`AuditedIffReturned`), every request is answered or the attempt threw (`RequestsAnswered`) |
| `server_audit` | 1 message | – | **violated**: not every call is audited (finding 3) |
| `amp_connection` | 2 messages of 4 kinds up, their replies down, 3 methods, every number and length of the wire at its real width | 15 000 | the decoder never loses step (`FramesInStep`), messages come out in order and whole (`DeliveredAsSent`) and without waiting for more (`SentArrives`), a reply finds its request and no other, unless it tells of an unknown service with a wide id (`AnswersMatch`) |
| `call_context` | 3 calls, 1 key | 461 000 | unless two calls of a context were counting at once, its items are disposed of when the others have left (`DisposedOnlyWhenAlone`) and nothing stays behind (`NothingLeftBehind`); a use of an item that was checked fails only beside another use (`ThrowsOnlyInARace`) |
| `gateway` | 2 requests, 2 methods, 1 other caller, 2 tables, 1 configuration of plugins, the browser's timer fair | 2.0 million | a call goes where the router says for its special id and its message (`CallGoesAsRouted`), a request that got to its service has one part of a response, and who may write the second part of another (`OneResponse`), what is shown belongs to the selected method or was under way when it was selected (`ShownBelongs`), status and body are of one answer but for a named exception (`ShownTogether`), and the Send button comes back (`SendEnds`) |
| `proxy_dispatch` | 1 call, every table for 2 methods | – | **violated**: a client refuses calls of its own proxy (finding 4) |

Why the bounds are enough. `CallInvoker`: calls meet only in the dictionary, by
id, so two calls have every race. Wrapping is reached at once with
`SeqModulus = 1`. `TransportFactory`: two callers compete and one queues; the
second endpoint tells a wrong transport from the right one; the fourth connection
lets a channel be replaced, by either caller, after its event and before it.
`ServiceRouter`: every combination of a message route (one entry or two), a service
route and a group route, for requests with and without a group, for message 0, for
a group whose name has a dot, and for one that is named like a message ("100.1") and
so shares its key; keys do not meet otherwise, two callers let one be
overtaken, and with four values a counter overflows and comes round. `ServerDispatch`:
messages meet in the cache of handlers only; the lists of actors have none, one
and two actors, of one interface and of two, with the ids of a service and of a
message. `AmpConnection`: frames meet only where one ends and the next begins, so
two in each direction are enough; the calls have data, empty data and none, a
message number with the highest bit, service ids on both sides of 2^16, a negative
code, and the second call's sequence number has overflowed. `CallContext`: three
calls are two in one context and one that reads between them, or two contexts; keys
do not meet. `ClientProxy`: two methods are the one asked for and another.
`GatewayUI`: two requests are one given up and its successor, two methods the
selected one and the one before; the third caller fills the cache for a special id
before, after and between the requests; the tables have a service that is local and one that is remote, with an
actor of a single method, its own or another's, for the caller with the special id.
The configuration gives one method every plugin and processor that
may act on the way to its call and back, so that a refusal is reported twice, and the
other a process plugin before an output processor, so that a second part is written
without an error processor. Two things are left out: methods with fewer plugins, whose
requests end in no way that these do not, and a third part, behind a process plugin
with both processors, which only the theorem covers.

`CHECK_DEADLOCK FALSE` stands in the runs of CallInvoker, ServerDispatch,
AmpConnection, CallContext, ClientProxy and GatewayUI, where a run ends when all
calls, tasks, messages or requests are over; the runs of TransportFactory and
ServiceRouter check deadlock.

**Fairness.** `CallInvoker!Fairness`: a thread inside a call goes on, a send ends
(the socket reports success or failure), an armed timer fires, a completed task
resumes its awaiter. Each is the .NET runtime's or the socket library's promise.
Nothing is assumed of server and network. `TransportFactory!Fairness`: a caller
inside `CreateTransport` goes on, and `ConnectAsync` ends with a channel or an
exception; waiters of the semaphore are served first come first served, as
`SemaphoreSlim` does for asynchronous waiters. `ServerDispatch!Fairness`: a task
that was started goes on, and the services' methods end; nothing is assumed about
the arrival of messages. `AmpConnection!Fairness`: while the connection is up, TCP
delivers what was written, and an event loop reads the frames that are there.
`GatewayUI!FairSpec`: the browser's timer fires, which axios is given with every
request (`timeout: 3e5`); nothing is assumed of the gateway or of the services.

## What is proved

Every invariant and every action property that a run checks is a theorem, for every
value of the constants, with these assumptions only: `MaxCalls` and `MaxSent` are
natural numbers, `SeqModulus` and `MaxIndex` are positive ones, `NoIndex`, `NoKey`
and `NoEndpoint` are none of the values they stand beside, the `Registrations` are
sequences, `NoData` is no sequence of bytes, the calls of `CallContext` are finitely
many and `NoContext` is none of them; message 0 is a message and `Group` none, a
`Deployment` is a pair of tables, `Conf` gives each method a set of plugins, the
page's requests are the gateway's and its methods the service's, method 1 among
them. The lists of the options are sequences and no entry is without an address
(`OptionsAssumption`), every key that is added or looked up is in `Key`
(`RequestKeysAssumption`). The fields of calls and results have their C# types, and a
message with its head fits a byte array (`ContentAssumption`). `CallInvokerProofs`
assumes `NoWrap` where it says so; a connection of `AmpConnection` carries fewer
messages than there are sequence numbers (`MaxSent` is at most 2^32 - 1), from any
number on and past the overflow. TLC evaluates all of them in the runs.

- **CallInvokerProofs.** `IdInv` holds whether or not ids are used twice: the
  first `invokerSeq` calls have begun (`Drawn`), an entry belongs to a call that
  has registered under that id and has no result (`Registered`), a result belongs
  to a call that has registered (`Completed`). `TypeCorrect`, `EntriesUnanswered`,
  `ResponsesMatchIds` follow. `LostOnlyToTwin` is kept beside it
  (`CallsLostToTwins`): what takes an entry gives its call a result (`EntryKept`), and
  a call comes into flight with its entry or with another's (`FlightStep`). The others
  assume `NoWrap`, `MaxCalls < SeqModulus`, so that `Id` is injective
  (`IdInjective`): `IInv` adds what is on the wire (`Wire`) and when a timer runs
  (`TimerWithin`), without which a reply could not be told from an old one or a
  timeout from another's.
  From it follow `ResultsAreOwn`, `CallsAnswerable`, `LeaksOnlyOnClosedChannel`
  and `Refinement`, by which every step of CallInvoker is a step of RpcCall or
  changes nothing there.
- **TransportFactoryProofs.** The invariant says who waits in the queue
  (`QueueWaits`), what a caller holds (`CallerInv`), what the cache holds
  (`CacheInv`), and that, until `CloseAllTransports`, a channel whose event is to
  come is cached or about to be (`Tracked`). All of the component's invariants
  follow; liveness does not.
- **ServiceRouterProofs**, first about RoundRobin. `Rotation`: what was drawn for a
  key is what its counter has passed, or, once it has been round, everything.
  `Reading` and `Drawing` tie a caller's index and `before` to it. The proof is for
  an int of any width; the arithmetic of the wrap is in the lemmas about `Passed`.
  Then the router. `RouterImplementsPolicy`: what it does to the counters is what
  RoundRobin's specification allows, so each theorem there holds of a running
  router; `RouterSkipsNothing` is one of them, spelled out. The table: `Tables` are
  those that `Initialize` goes through, `EntryAdded` says what one entry adds, and
  `TableHolds` that the points of a key are just those of the entries with that key.
  Of the sort, only that it keeps the points is used (`SortKeeps`), so nothing in
  this depends on the 16. `TableLosesNothing` (`NothingConfiguredIsLost`) follows.
  `Route` is the invariant for `RightRoute`: the key a caller selects for is one of
  its own request (`OnTheWay`), and past the message's key it remembers that the
  table has no points for it, which `RightRoute` needs once the point of the group,
  or the local one, is found (`Arrived`). `RoutesRight` follows with `SelectedPoint`
  (what is selected is a point of the key, or an exception for a negative index) and
  `NegativeAfterLargest`, which comes from the policy's invariant.
- **ServerDispatchProofs.** `WayTaken` says which messages a task handles, finds
  unknown or sends back, `NotYet` what a task cannot have left behind so far. The
  two tables are `CHOOSE`n least and greatest numbers, which exist by `Extremes`
  (IntervalInduction). `Served`
  then rests on `LocatedCanServe`: when no two interfaces share a service id, the
  actor found last can be cast to the interface bound first.
- **CallContextProofs.** For contexts in which no two calls were counting at once,
  the counter is the number of calls inside (`CountRight`), a call still has the
  value it read (`ReadRight`), one that disposes is alone (`LastDisposes`), and a
  context without calls is empty unless somebody is about to see to it
  (`EmptyWhenUnused`). `OneCounts` says that two calls which count at once were
  noted, so that a quiet context has one at most; without it a step of one call
  could change what another has read. `ItemsInv` is the same argument for the uses
  of the items.
- **GatewayUIProofs.** Four invariants, kept together. `PanelInv`: one
  request at most is awaited, and it is the last one; the body shown is never younger
  than the status. `HttpInv`: nothing is written before the first answer, nor
  before the result of a service is sent, and what is reported behind a part is so for
  a request whose service was not asked (`Progress`, one line per stage); `OneBody`,
  the property of one request, is not inductive without it. `ProxyInv`: what the cache holds
  for a special id is the router's choice for it, and usable. `Together`: an answer
  whose status alone is shown is over, so that its response will not change. Each of
  the run's invariants follows, for any number of requests, callers and methods, and
  any tables and plugins.
- **AmpConnectionProofs**, first about AmpProtocol. `DecodesWhatWasEncoded`:
  `Decode(Encode(m, codec))` is `Normal(m, codec)`, and is not rejected, for every
  message whose length fits an int. A frame is built field by field; `Extends(b, s)`
  says that a longer frame holds what a shorter one held, and each lemma `Added...`
  adds one field that can be read back. That four bytes give the int again
  (`IntArithmetic`) is the arithmetic in it. Then the stream. `FrameIsCut`: a buffer
  that begins with a part of a frame is cut where the frame ends, and nowhere before.
  `FlattenAppend` and `FlattenFirst` say how a stream of frames grows at its end and
  loses its first. `Stream` is the inductive invariant: `FramesInStep` itself,
  what was decoded is what was sent, in turn (`Delivered`), the requests carry the
  numbers of their calls (`Numbered`), and every reply is one to a request that was
  decoded (`Answering`). `FramesStayInStep` and `DeliversWhatIsSent` are parts of it;
  `AnswersFindTheirCalls` (`AnswersMatch`) needs them all, since a reply's id is
  computed from what was left of the request on the other side, and that no two
  requests have one number while there are fewer than 2^32.
- **IntervalInduction** holds what the others need in the place of induction over
  data. The library's induction theorems take a predicate and cannot be
  instantiated by the provers here, so `IntervalInduction` speaks of a set: one that
  has 0 and with each number the next has a whole interval. It comes from
  `Extremes`: a finite set of numbers has a least and a greatest one, by the
  well-foundedness of strict inclusion. `RecursionExists` says that a step function
  can be iterated over an interval, which is what a recursive function definition,
  a `CHOOSE`, needs to mean anything: `Initialize` here, `FlattenSeq` in the streams.

**Only model-checked:** liveness (`ArmedCallEnds`, `CreateTransportEnds`,
`RequestsAnswered`, `SentArrives`, `SendEnds`), since TLAPS does not reach fairness;
and what the violated runs refute.

## Findings

1. `DefaultCallInvoker.cs:126` starts the timer before line 131 registers the
   task. A timer that fires in between finds nothing to complete and never fires
   again; if the reply is lost the call never ends (`EveryCallEnds`, run
   `invoker_timeout`). `ArmedCallEnds` is what remains.
2. `DefaultServiceRouter.cs:136` sorts by a comparison that never says "less", so
   four or more points stay in the order of the configuration, under a comment
   that says "order by weight" (`OrderedByWeight`, run `router_weights`).
3. `ActorCallHandler.cs:88` reads `result.Data` for the audit log, and the result
   of a call that ended with an exception is null: the calls that fail are not
   audited, although the release notes say that audit logs which were not recorded
   correctly are fixed (`EveryCallAudited`, run `server_audit`).
   `AuditedIffReturned` is what holds.
4. `DefaultServiceRouter.cs:44` finds the route of a service and does not return it.
   Only message 0, with which a proxy is made, is found remote by it: the client gets
   a proxy that sends, and its own `DefaultRpcClient` refuses every call, while
   `readme.md:15` says that local and remote services are dispatched automatically
   (`CallsAreDispatched`, run `proxy_dispatch`). `CallGoesAsRouted` and `RightRoute`
   are what holds.

Also seen, and neither documented otherwise nor tested: an entry whose call met a
closed channel stays in the dictionary; a transport that dies before it is cached
stays cached (`DeadEntryMissedItsEvent`); the count of a call context is lost when
two calls enter or leave at once, and its items are then taken from a running call
or kept for good. In the gateway, the request's id is written to `Identity` and
overwritten (`HttpApiCallHandler.cs:166`; the `_requestIdPropertyName` of line 28 is
not used), an `RpcException` without a status of its own gives HTTP a code of
`RpcStatusCodes` as its status (line 363), and a body that is the JSON `null` is
refused with status 200 (lines 105-107). An error processor that throws on a refusal
is called again with its own exception (lines 107, 118 and 138), and may write behind
what it wrote (`OneResponse` has the case). On the page, a click that is refused leaves
the earlier answer standing below the new form. And a divergence from the
documentation that no run stands for: `readme.md:43` says that the version is always
1, and `NotFoundServiceActor.cs:20` replies in version 0. Its 16 bits for the service
id make the reply to an unknown service with a wider id useless: the call it is for
ends with a timeout (`AnswersMatch`).

## Not modelled, and the plan

What would add most, in this order; "abstract" names the specification to implement.

1. **RpcSystem**: CallInvoker with ServerDispatch in the place of `Serve`,
   implementing RpcCall.
2. IPv6 endpoints in TransportFactory: the address of the event as a mapping.
   Nothing in the repository says that they are meant to work.

Left out for good:

- the rest of the built pages under `Swagger/UI`: React, antd, axios, qs and
  react-json-view in minified form, which are third-party, and the drawing of the
  description. Only the Debug tab is this program's own behaviour over time, so the
  lines of these bundles that a model can honestly stand for are few;
- `.vscode/solution-explorer/template-parameters.js`, which names new files for an
  editor and is no part of the program;
- reflection and dependency injection at start-up: what they leave, the registered
  methods, actors and routes, are constants;
- Swagger's description, serializers and formatting: functions without state, most
  of them third-party libraries';
- `RandomRoutingPolicy`, which returns any index, and the weighted policy, which is
  used nowhere;
- `ObjectId`: one interlocked increment, whose ids repeat by design after 2^24 of
  them in a second. Its one user is `DefaultTransport`, whose `Id` nothing reads;
- the collections of DotBPE.Baseline, sequential and used nowhere else in the
  repository, its extension methods, which have no state, and the samples.
