--------------------------- MODULE TransportFactory ---------------------------
(***************************************************************************)
(* DefaultTransportFactory: one cached connection per endpoint, created    *)
(* under a semaphore and dropped from the cache by the socket's            *)
(* disconnect event.                                                       *)
(*                                                                         *)
(* Callers run CreateTransport and then send on what they got; the         *)
(* socket's event loop runs Socket_OnDisconnected; somebody may run        *)
(* CloseAllTransports.  All of them interleave at every await.             *)
(*                                                                         *)
(* The socket library is external: a channel is open until one side closes *)
(* it ("closed": its disconnect event is still to be raised).  The event   *)
(* is raised once; "gone" means it found the channel in the cache,         *)
(* "missed" that it did not.                                               *)
(***************************************************************************)
EXTENDS Integers, Sequences

CONSTANTS Caller,       \* threads that send requests
          Endpoint,     \* remote addresses
          MaxChannels   \* bound: connections made in a run

ASSUME TransportFactoryAssumption == MaxChannels \in Nat

Channel   == 1..MaxChannels
NoChannel == 0

CONSTANT NoEndpoint
ASSUME NoEndpointAssumption == NoEndpoint \notin Endpoint

VARIABLES
  cache,      \* _transportCache: endpoint -> channel, or NoChannel
  permits,    \* SemaphoreSlim(1, 1): its count ...
  queue,      \* ... and its waiters, first come first served
  pc,         \* where each caller is in CreateTransport
  target,     \* the endpoint a caller asked for
  got,        \* the channel a caller holds, or NoChannel
  made,       \* number of channels made so far: the next one is made + 1
  chState,    \* state of each channel
  chEnd,      \* the endpoint a channel was connected to
  closer,     \* CloseAllTransports: "idle", "closing", "cleared"
  toClose     \* what its foreach still has to close

vars == <<cache, permits, queue, pc, target, got, made, chState, chEnd,
          closer, toClose>>
semaphore == <<permits, queue>>
channels  == <<made, chState, chEnd>>
closing   == <<closer, toClose>>

TypeOK ==
  /\ cache \in [Endpoint -> Channel \cup {NoChannel}]
  /\ permits \in {0, 1}
  /\ queue \in Seq(Caller)
  /\ pc \in [Caller -> {"idle", "missed", "waiting", "entered", "connecting",
                        "connected", "leaving", "using"}]
  /\ target \in [Caller -> Endpoint \cup {NoEndpoint}]
  /\ got \in [Caller -> Channel \cup {NoChannel}]
  /\ made \in 0..MaxChannels
  /\ chState \in [Channel -> {"unused", "open", "closed", "gone", "missed"}]
  /\ chEnd \in [Channel -> Endpoint \cup {NoEndpoint}]
  /\ closer \in {"idle", "closing", "cleared"}
  /\ toClose \subseteq Channel

Init ==
  /\ cache = [e \in Endpoint |-> NoChannel]
  /\ permits = 1
  /\ queue = <<>>
  /\ pc = [p \in Caller |-> "idle"]
  /\ target = [p \in Caller |-> NoEndpoint]
  /\ got = [p \in Caller |-> NoChannel]
  /\ made = 0
  /\ chState = [c \in Channel |-> "unused"]
  /\ chEnd = [c \in Channel |-> NoEndpoint]
  /\ closer = "idle"
  /\ toClose = {}

----------------------------------------------------------------------------
\* ITransport.CloseAsync on the channels in cs, in the states st.
Closed(st, cs) ==
  [c \in Channel |-> IF c \in cs /\ st[c] = "open" THEN "closed" ELSE st[c]]

\* The caller moves on and forgets its request.
Leave(p) ==
  /\ pc' = [pc EXCEPT ![p] = "idle"]
  /\ target' = [target EXCEPT ![p] = NoEndpoint]
  /\ got' = [got EXCEPT ![p] = NoChannel]

\* The definitions marked "Wrong:" are variants of the definition that follows,
\* each with a bug that one of the properties below rules out; the
\* specification does not use them.

----------------------------------------------------------------------------
\* CreateTransport.

\* The first TryGetValue, outside the semaphore.
CreateTransport(p, e) ==
  /\ pc[p] = "idle"
  /\ target' = [target EXCEPT ![p] = e]
  /\ got' = [got EXCEPT ![p] = cache[e]]
  /\ pc' = [pc EXCEPT ![p] = IF cache[e] = NoChannel THEN "missed" ELSE "using"]
  /\ UNCHANGED <<cache, semaphore, channels, closing>>

\* SemaphoreSlim.WaitAsync: take the permit or join the queue.
WaitAsync(p) ==
  /\ pc[p] = "missed"
  /\ \/ /\ permits = 1
        /\ permits' = 0
        /\ pc' = [pc EXCEPT ![p] = "entered"]
        /\ UNCHANGED queue
     \/ /\ permits = 0
        /\ queue' = Append(queue, p)
        /\ pc' = [pc EXCEPT ![p] = "waiting"]
        /\ UNCHANGED permits
  /\ UNCHANGED <<cache, target, got, channels, closing>>

\* Wrong: no second look at the cache.
CheckAgainSkipped(p) ==
  /\ pc[p] = "entered"
  /\ pc' = [pc EXCEPT ![p] = "connecting"]
  /\ UNCHANGED <<cache, semaphore, target, got, channels, closing>>

\* Wrong: any transport will do.
CheckAgainAnyEndpoint(p) ==
  /\ pc[p] = "entered"
  /\ \/ \E e \in Endpoint :
          /\ cache[e] # NoChannel
          /\ got' = [got EXCEPT ![p] = cache[e]]
          /\ pc' = [pc EXCEPT ![p] = "leaving"]
     \/ /\ \A e \in Endpoint : cache[e] = NoChannel
        /\ pc' = [pc EXCEPT ![p] = "connecting"]
        /\ UNCHANGED got
  /\ UNCHANGED <<cache, semaphore, target, channels, closing>>

\* Wrong: a cached transport that is no longer connected is replaced here.
CheckAgainReconnects(p) ==
  /\ pc[p] = "entered"
  /\ LET c == cache[target[p]] IN
       IF c # NoChannel /\ chState[c] = "open"
         THEN /\ got' = [got EXCEPT ![p] = c]
              /\ pc' = [pc EXCEPT ![p] = "leaving"]
         ELSE /\ pc' = [pc EXCEPT ![p] = "connecting"]
              /\ UNCHANGED got
  /\ UNCHANGED <<cache, semaphore, target, channels, closing>>

\* The second TryGetValue, inside the semaphore.
CheckAgain(p) ==
  /\ pc[p] = "entered"
  /\ LET c == cache[target[p]] IN
       IF c # NoChannel
         THEN /\ got' = [got EXCEPT ![p] = c]
              /\ pc' = [pc EXCEPT ![p] = "leaving"]
         ELSE /\ pc' = [pc EXCEPT ![p] = "connecting"]
              /\ UNCHANGED got
  /\ UNCHANGED <<cache, semaphore, target, channels, closing>>

\* ConnectAsync succeeds: the channel is open before the factory knows it.
Connect(p) ==
  /\ pc[p] = "connecting"
  /\ made < MaxChannels
  /\ made' = made + 1
  /\ chState' = [chState EXCEPT ![made + 1] = "open"]
  /\ chEnd' = [chEnd EXCEPT ![made + 1] = target[p]]
  /\ got' = [got EXCEPT ![p] = made + 1]
  /\ pc' = [pc EXCEPT ![p] = "connected"]
  /\ UNCHANGED <<cache, semaphore, target, closing>>

\* Wrong: the exception skips the release of the semaphore.
ConnectFailsHoldingPermit(p) ==
  /\ pc[p] = "connecting"
  /\ Leave(p)
  /\ UNCHANGED <<cache, semaphore, channels, closing>>

\* ConnectAsync throws: logged, rethrown, and the finally block still runs.
ConnectFails(p) ==
  /\ pc[p] = "connecting"
  /\ pc' = [pc EXCEPT ![p] = "leaving"]
  /\ UNCHANGED <<cache, semaphore, target, got, channels, closing>>

\* Wrong: the new transport is handed out without being cached.
NotAdded(p) ==
  /\ pc[p] = "connected"
  /\ pc' = [pc EXCEPT ![p] = "leaving"]
  /\ UNCHANGED <<cache, semaphore, target, got, channels, closing>>

\* A transport found under the key is closed and replaced.
AddOrUpdate(p) ==
  /\ pc[p] = "connected"
  /\ chState' = Closed(chState, {cache[target[p]]})
  /\ cache' = [cache EXCEPT ![target[p]] = got[p]]
  /\ pc' = [pc EXCEPT ![p] = "leaving"]
  /\ UNCHANGED <<semaphore, target, got, made, chEnd, closing>>

\* Wrong: the waiters are not woken.
ReleaseWakesNobody(p) ==
  /\ pc[p] = "leaving"
  /\ permits' = permits + 1
  /\ pc' = [pc EXCEPT ![p] = IF got[p] = NoChannel THEN "idle" ELSE "using"]
  /\ UNCHANGED <<cache, queue, target, got, channels, closing>>

\* The finally block: Release hands the permit to the first waiter.
Release(p) ==
  /\ pc[p] = "leaving"
  /\ LET after == IF got[p] = NoChannel THEN "idle" ELSE "using" IN
       \/ /\ queue = <<>>
          /\ permits' = permits + 1
          /\ pc' = [pc EXCEPT ![p] = after]
          /\ UNCHANGED queue
       \/ /\ queue # <<>>
          /\ queue' = Tail(queue)
          /\ pc' = [pc EXCEPT ![p] = after, ![Head(queue)] = "entered"]
          /\ UNCHANGED permits
  /\ UNCHANGED <<cache, target, got, channels, closing>>

\* DefaultRpcClient.SendAsync sends on the transport; on a channel that is not
\* open the send throws ClosedChannelException.  Either way the caller is done.
Send(p) ==
  /\ pc[p] = "using"
  /\ Leave(p)
  /\ UNCHANGED <<cache, semaphore, channels, closing>>

----------------------------------------------------------------------------
\* The socket.

\* The peer or the network ends a connection.
Drop(c) ==
  /\ chState[c] = "open"
  /\ chState' = Closed(chState, {c})
  /\ UNCHANGED <<cache, semaphore, pc, target, got, made, chEnd, closing>>

\* Wrong: the transport is closed and stays in the cache.
DisconnectedKeepsEntry(c) ==
  /\ chState[c] = "closed"
  /\ LET found == cache[chEnd[c]] IN
       chState' = Closed([chState EXCEPT
                            ![c] = IF found = c THEN "gone" ELSE "missed"],
                         {found})
  /\ UNCHANGED <<cache, semaphore, pc, target, got, made, chEnd, closing>>

\* Socket_OnDisconnected: CloseTransportAsync removes and closes whatever
\* transport is cached for the address of the channel that went away.  TryRemove
\* and the close it leads to are one step: c itself is closed already, and a
\* caller that still holds a younger channel is done with it in either case.
Disconnected(c) ==
  /\ chState[c] = "closed"
  /\ LET found == cache[chEnd[c]] IN
       chState' = Closed([chState EXCEPT
                            ![c] = IF found = c THEN "gone" ELSE "missed"],
                         {found})
  /\ cache' = [cache EXCEPT ![chEnd[c]] = NoChannel]
  /\ UNCHANGED <<semaphore, pc, target, got, made, chEnd, closing>>

----------------------------------------------------------------------------
\* CloseAllTransports, run once: Values is a snapshot, each close is awaited,
\* and Clear then forgets whatever the cache holds by that time.
CloseAllTransports ==
  /\ closer = "idle"
  /\ closer' = "closing"
  /\ toClose' = {cache[e] : e \in Endpoint} \ {NoChannel}
  /\ UNCHANGED <<cache, semaphore, pc, target, got, channels>>

CloseNext(c) ==
  /\ closer = "closing"
  /\ c \in toClose
  /\ toClose' = toClose \ {c}
  /\ chState' = Closed(chState, {c})
  /\ UNCHANGED <<cache, semaphore, pc, target, got, made, chEnd, closer>>

Clear ==
  /\ closer = "closing"
  /\ toClose = {}
  /\ closer' = "cleared"
  /\ cache' = [e \in Endpoint |-> NoChannel]
  /\ UNCHANGED <<semaphore, pc, target, got, channels, toClose>>

----------------------------------------------------------------------------
InCreate(p) == \/ WaitAsync(p) \/ CheckAgain(p) \/ Connect(p) \/ ConnectFails(p)
               \/ AddOrUpdate(p) \/ Release(p)

Next ==
  \/ \E p \in Caller :
       \/ \E e \in Endpoint : CreateTransport(p, e)
       \/ InCreate(p)
       \/ Send(p)
  \/ \E c \in Channel : Drop(c) \/ Disconnected(c) \/ CloseNext(c)
  \/ CloseAllTransports \/ Clear

\* A caller inside CreateTransport keeps running; that includes ConnectAsync,
\* which the socket library ends with a channel or an exception.
Fairness == \A p \in Caller : WF_vars(InCreate(p))

Spec     == Init /\ [][Next]_vars
FairSpec == Spec /\ Fairness

----------------------------------------------------------------------------
(***************************************************************************)
(* Properties.                                                             *)
(***************************************************************************)

Inside(p) == pc[p] \in {"entered", "connecting", "connected", "leaving"}

\* The semaphore's count and the callers inside agree, so that at most one
\* caller is between WaitAsync and Release, and a permit is never lost or
\* released twice (the finally block of CreateTransport).
SemaphoreSound ==
  /\ \A p, q \in Caller : Inside(p) /\ Inside(q) => p = q
  /\ permits = 1 <=> \A p \in Caller : ~Inside(p)

\* While a caller connects nobody else caches a transport for its endpoint, so
\* the branch of AddOrUpdate that closes an old transport never runs.
CacheEmptyWhileConnecting ==
  \A p \in Caller : pc[p] \in {"connecting", "connected"} =>
    cache[target[p]] = NoChannel

\* A caller sends on a connection to the endpoint it asked for.
RightEndpoint ==
  \A p \in Caller : got[p] # NoChannel => chEnd[got[p]] = target[p]

Connecting(p, c) == pc[p] = "connected" /\ got[p] = c

\* Until CloseAllTransports runs, no live connection is lost track of: each is
\* in the cache or about to be put there, so there is one per endpoint.
NoStrayConnection ==
  closer = "idle" =>
    \A c \in Channel : chState[c] = "open" =>
      cache[chEnd[c]] = c \/ \E p \in Caller : Connecting(p, c)

\* Until CloseAllTransports runs, a disconnect event still to come finds its own
\* channel in the cache, or none: it never closes a younger connection.
EventHitsOwnChannel ==
  closer = "idle" =>
    \A c \in Channel : chState[c] = "closed" => cache[chEnd[c]] \in {c, NoChannel}

\* A dead transport stays in the cache only if its disconnect event is still to
\* come, or came before the transport was cached; then nothing removes it.
DeadEntryMissedItsEvent ==
  \A e \in Endpoint : cache[e] # NoChannel =>
    chState[cache[e]] \in {"open", "closed", "missed"}

\* Every caller that entered CreateTransport leaves it, whatever becomes of the
\* connections of the others ("the semaphore ... forever locked" is excluded).
CreateTransportEnds ==
  \A p \in Caller : (pc[p] = "missed") ~> (pc[p] \in {"using", "idle"})
=============================================================================
