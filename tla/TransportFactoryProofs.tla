------------------------ MODULE TransportFactoryProofs ------------------------
(***************************************************************************)
(* Proofs about TransportFactory, for any callers, endpoints and number of *)
(* connections.                                                            *)
(***************************************************************************)
EXTENDS TransportFactory, TLAPS

\* The queue holds waiting callers, each once.
QueueWaits ==
  /\ \A i \in 1..Len(queue) : pc[queue[i]] = "waiting"
  /\ \A i, j \in 1..Len(queue) : queue[i] = queue[j] => i = j

\* What a caller holds fits where it is.
CallerInv ==
  \A p \in Caller :
    /\ pc[p] # "idle" => target[p] \in Endpoint
    /\ got[p] # NoChannel => /\ pc[p] \in {"connected", "leaving", "using"}
                             /\ got[p] <= made
                             /\ chEnd[got[p]] = target[p]
    /\ pc[p] = "connected" => /\ got[p] # NoChannel
                              /\ chState[got[p]] # "gone"

\* What the cache holds is a channel made for that endpoint.
CacheInv ==
  \A e \in Endpoint : cache[e] # NoChannel =>
    /\ cache[e] <= made
    /\ chEnd[cache[e]] = e
    /\ chState[cache[e]] # "gone"

\* The channels made so far are the first ones.
MadeInv ==
  \A c \in Channel : /\ chState[c] = "unused" <=> c > made
                     /\ c <= made => chEnd[c] \in Endpoint

\* Until CloseAllTransports runs, a channel whose disconnect event is still to
\* come is in the cache or about to be put there.
Tracked ==
  closer = "idle" =>
    \A c \in Channel : chState[c] \in {"open", "closed"} =>
      cache[chEnd[c]] = c \/ \E p \in Caller : Connecting(p, c)

IInv == /\ TypeOK /\ SemaphoreSound /\ QueueWaits
        /\ CallerInv /\ CacheInv /\ MadeInv
        /\ CacheEmptyWhileConnecting /\ Tracked

----------------------------------------------------------------------------
LEMMA ChannelsAreNumbers ==
  NoChannel \notin Channel /\ \A c \in Channel : c \in Nat /\ c <= MaxChannels
BY TransportFactoryAssumption DEF Channel, NoChannel

LEMMA ClosedType ==
  ASSUME NEW st \in [Channel -> {"unused", "open", "closed", "gone", "missed"}],
         NEW cs
  PROVE  /\ Closed(st, cs) \in [Channel -> {"unused", "open", "closed", "gone", "missed"}]
         /\ \A c \in Channel :
              /\ Closed(st, cs)[c] = "unused" <=> st[c] = "unused"
              /\ Closed(st, cs)[c] = "gone" <=> st[c] = "gone"
              /\ Closed(st, cs)[c] = "missed" <=> st[c] = "missed"
              /\ Closed(st, cs)[c] \in {"open", "closed"} <=> st[c] \in {"open", "closed"}
BY DEF Closed

LEMMA InitIInv == Init => IInv
<1> SUFFICES ASSUME Init PROVE IInv
  OBVIOUS
<1>1. TypeOK
  BY TransportFactoryAssumption DEF Init, TypeOK
<1>2. SemaphoreSound /\ QueueWaits /\ CallerInv /\ CacheInv
  BY DEF Init, SemaphoreSound, Inside, QueueWaits, CallerInv, CacheInv
<1>3. MadeInv /\ CacheEmptyWhileConnecting /\ Tracked
  BY ChannelsAreNumbers DEF Init, MadeInv, CacheEmptyWhileConnecting, Tracked
<1>4. QED  BY <1>1, <1>2, <1>3 DEF IInv

\* Steps of a caller that leave the cache, the channels and the closer alone
\* keep the facts about them if no connecting caller changes.
LEMMA CallerStepKeeps ==
  ASSUME IInv, TypeOK', UNCHANGED <<cache, channels, closing>>,
         \A p \in Caller : pc[p] = "connected" =>
           pc'[p] = "connected" /\ got'[p] = got[p] /\ target'[p] = target[p],
         \A p \in Caller : pc'[p] \in {"connecting", "connected"} =>
           cache[target'[p]] = NoChannel
  PROVE  CacheInv' /\ MadeInv' /\ CacheEmptyWhileConnecting' /\ Tracked'
<1>1. CacheInv' /\ MadeInv' /\ CacheEmptyWhileConnecting'
  BY DEF IInv, CacheInv, MadeInv, CacheEmptyWhileConnecting, channels
<1>2. Tracked'
  BY DEF IInv, Tracked, Connecting, channels, closing
<1>3. QED  BY <1>1, <1>2

LEMMA StepIInv == IInv /\ [Next]_vars => IInv'
<1> SUFFICES ASSUME IInv, [Next]_vars PROVE IInv'
  OBVIOUS
<1>1. ASSUME NEW p \in Caller, NEW e \in Endpoint, CreateTransport(p, e)
      PROVE  IInv'
  <2>1. TypeOK'
    BY <1>1 DEF IInv, CreateTransport, TypeOK, semaphore, channels, closing
  <2>2. SemaphoreSound' /\ QueueWaits'
    BY <1>1 DEF IInv, CreateTransport, TypeOK, semaphore, SemaphoreSound, Inside,
                QueueWaits
  <2>3. CallerInv'
    BY <1>1 DEF IInv, CreateTransport, TypeOK, channels, CallerInv, CacheInv
  <2>4. CacheInv' /\ MadeInv' /\ CacheEmptyWhileConnecting' /\ Tracked'
    BY <1>1, <2>1, CallerStepKeeps
    DEF IInv, CreateTransport, TypeOK, CacheEmptyWhileConnecting
  <2>5. QED  BY <2>1, <2>2, <2>3, <2>4 DEF IInv
<1>2. ASSUME NEW p \in Caller, WaitAsync(p) PROVE IInv'
  <2>a. UNCHANGED <<cache, target, got, channels, closing>>
    BY <1>2 DEF WaitAsync
  <2>1. TypeOK' /\ QueueWaits'
    <3>1. CASE permits = 1
      <4>1. permits' = 0 /\ pc' = [pc EXCEPT ![p] = "entered"] /\ queue' = queue
        BY <1>2, <3>1 DEF WaitAsync
      <4>2. TypeOK'
        BY <2>a, <4>1 DEF IInv, TypeOK, channels, closing
      <4>3. QueueWaits'
        BY <1>2, <4>1 DEF IInv, WaitAsync, TypeOK, QueueWaits
      <4>4. QED  BY <4>2, <4>3
    <3>2. CASE permits = 0
      <4>1. /\ permits' = permits /\ queue' = Append(queue, p)
            /\ pc' = [pc EXCEPT ![p] = "waiting"]
        BY <1>2, <3>2 DEF WaitAsync
      <4>2. queue' \in Seq(Caller) /\ Len(queue') = Len(queue) + 1
        BY <4>1 DEF IInv, TypeOK
      <4>3. TypeOK'
        BY <2>a, <4>1, <4>2 DEF IInv, TypeOK, channels, closing
      <4>4. /\ queue'[Len(queue) + 1] = p
            /\ \A i \in 1..Len(queue) : queue'[i] = queue[i] /\ queue[i] \in Caller
                                        /\ queue[i] # p
        BY <1>2, <4>1 DEF IInv, TypeOK, QueueWaits, WaitAsync
      <4>5. \A i \in 1..Len(queue') : pc'[queue'[i]] = "waiting"
        BY <4>1, <4>2, <4>4 DEF IInv, TypeOK, QueueWaits
      <4>6. \A i, j \in 1..Len(queue') : queue'[i] = queue'[j] => i = j
        BY <4>1, <4>2, <4>4 DEF IInv, TypeOK, QueueWaits
      <4>7. QED  BY <4>3, <4>5, <4>6 DEF QueueWaits
    <3>3. QED  BY <3>1, <3>2 DEF IInv, TypeOK
  <2>2. SemaphoreSound'
    BY <1>2 DEF IInv, WaitAsync, TypeOK, SemaphoreSound, Inside
  <2>4. CallerInv'
    BY <1>2 DEF IInv, WaitAsync, TypeOK, channels, CallerInv
  <2>5. CacheInv' /\ MadeInv' /\ CacheEmptyWhileConnecting' /\ Tracked'
    BY <1>2, <2>1, CallerStepKeeps
    DEF IInv, WaitAsync, TypeOK, CacheEmptyWhileConnecting
  <2>6. QED  BY <2>1, <2>2, <2>4, <2>5 DEF IInv
<1>3. ASSUME NEW p \in Caller, CheckAgain(p) PROVE IInv'
  <2>0. target[p] \in Endpoint
    BY <1>3 DEF IInv, CheckAgain, CallerInv
  <2>1. TypeOK'
    BY <1>3, <2>0 DEF IInv, CheckAgain, TypeOK, semaphore, channels, closing
  <2>2. SemaphoreSound' /\ QueueWaits'
    BY <1>3 DEF IInv, CheckAgain, TypeOK, semaphore, SemaphoreSound, Inside,
                QueueWaits
  <2>3. CallerInv'
    BY <1>3, <2>0 DEF IInv, CheckAgain, TypeOK, channels, CallerInv, CacheInv
  <2>4. CacheInv' /\ MadeInv' /\ CacheEmptyWhileConnecting' /\ Tracked'
    BY <1>3, <2>1, CallerStepKeeps
    DEF IInv, CheckAgain, TypeOK, CacheEmptyWhileConnecting
  <2>5. QED  BY <2>1, <2>2, <2>3, <2>4 DEF IInv
<1>4. ASSUME NEW p \in Caller, Connect(p) PROVE IInv'
  <2> DEFINE new == made + 1
  <2>0. /\ target[p] \in Endpoint
        /\ new \in Channel /\ new # NoChannel
        /\ chState[new] = "unused"
    BY <1>4, TransportFactoryAssumption
    DEF IInv, Connect, CallerInv, MadeInv, TypeOK, Channel, NoChannel
  <2>1. TypeOK'
    BY <1>4, <2>0 DEF IInv, Connect, TypeOK, semaphore, closing, Channel
  <2>2. SemaphoreSound' /\ QueueWaits'
    BY <1>4 DEF IInv, Connect, TypeOK, semaphore, SemaphoreSound, Inside,
                QueueWaits
  <2>3. \A c \in Channel \ {new} : chState'[c] = chState[c] /\ chEnd'[c] = chEnd[c]
    BY <1>4 DEF IInv, Connect, TypeOK
  <2>4. chState'[new] = "open" /\ chEnd'[new] = target[p] /\ made' = new
    BY <1>4, <2>0 DEF IInv, Connect, TypeOK
  <2>5. \A c \in Channel : c <= made => c # new
    BY DEF IInv, TypeOK
  <2>6. CallerInv'
    BY <1>4, <2>0, <2>3, <2>4, <2>5, ChannelsAreNumbers
    DEF IInv, Connect, TypeOK, CallerInv
  <2>7. CacheInv' /\ CacheEmptyWhileConnecting'
    BY <1>4, <2>3, <2>4, <2>5, ChannelsAreNumbers
    DEF IInv, Connect, TypeOK, CacheInv, CacheEmptyWhileConnecting
  <2>8. MadeInv'
    BY <2>0, <2>3, <2>4, ChannelsAreNumbers DEF IInv, TypeOK, MadeInv
  <2>9. Tracked'
    BY <1>4, <2>0, <2>3, <2>4
    DEF IInv, Connect, TypeOK, Tracked, Connecting, closing
  <2>10. QED  BY <2>1, <2>2, <2>6, <2>7, <2>8, <2>9 DEF IInv
<1>5. ASSUME NEW p \in Caller, ConnectFails(p) PROVE IInv'
  <2>1. TypeOK'
    BY <1>5 DEF IInv, ConnectFails, TypeOK, semaphore, channels, closing
  <2>2. SemaphoreSound' /\ QueueWaits'
    BY <1>5 DEF IInv, ConnectFails, TypeOK, semaphore, SemaphoreSound, Inside,
                QueueWaits
  <2>3. CallerInv'
    BY <1>5 DEF IInv, ConnectFails, TypeOK, channels, CallerInv
  <2>4. CacheInv' /\ MadeInv' /\ CacheEmptyWhileConnecting' /\ Tracked'
    BY <1>5, <2>1, CallerStepKeeps
    DEF IInv, ConnectFails, TypeOK, CacheEmptyWhileConnecting
  <2>5. QED  BY <2>1, <2>2, <2>3, <2>4 DEF IInv
<1>6. ASSUME NEW p \in Caller, AddOrUpdate(p) PROVE IInv'
  <2>0. /\ target[p] \in Endpoint /\ got[p] \in Channel
        /\ got[p] <= made /\ chEnd[got[p]] = target[p] /\ chState[got[p]] # "gone"
        /\ cache[target[p]] = NoChannel
    BY <1>6 DEF IInv, AddOrUpdate, CallerInv, CacheEmptyWhileConnecting, TypeOK
  <2>1. chState' = chState
    BY <1>6, <2>0, ChannelsAreNumbers DEF AddOrUpdate, Closed, IInv, TypeOK
  <2>2. TypeOK'
    BY <1>6, <2>0, <2>1 DEF IInv, AddOrUpdate, TypeOK, semaphore, closing
  <2>3. SemaphoreSound' /\ QueueWaits'
    BY <1>6 DEF IInv, AddOrUpdate, TypeOK, semaphore, SemaphoreSound, Inside,
                QueueWaits
  <2>4. CallerInv' /\ CacheInv' /\ MadeInv'
    <3>1. CallerInv'
      BY <1>6, <2>0, <2>1 DEF IInv, AddOrUpdate, TypeOK, CallerInv
    <3>2. CacheInv'
      BY <1>6, <2>0, <2>1 DEF IInv, AddOrUpdate, TypeOK, CacheInv
    <3>3. MadeInv'
      BY <1>6, <2>1 DEF IInv, AddOrUpdate, MadeInv
    <3> QED  BY <3>1, <3>2, <3>3
  <2>5. \A q \in Caller : pc'[q] \in {"connecting", "connected"} => FALSE
    BY <1>6 DEF IInv, AddOrUpdate, TypeOK, SemaphoreSound, Inside
  <2>6. CacheEmptyWhileConnecting'
    BY <2>5 DEF CacheEmptyWhileConnecting
  <2>7. Tracked'
    <3> SUFFICES ASSUME closer = "idle", NEW c \in Channel,
                        chState[c] \in {"open", "closed"}
                 PROVE  cache'[chEnd[c]] = c
      BY <1>6, <2>1 DEF AddOrUpdate, Tracked, closing
    <3>1. CASE \E q \in Caller : Connecting(q, c)
      <4>1. c = got[p]
        BY <1>6, <3>1 DEF IInv, AddOrUpdate, Connecting, SemaphoreSound, Inside
      <4>2. QED  BY <1>6, <2>0, <4>1 DEF IInv, AddOrUpdate, TypeOK
    <3>2. CASE cache[chEnd[c]] = c
      <4>1. chEnd[c] # target[p]
        BY <2>0, <3>2, ChannelsAreNumbers
      <4>2. QED  BY <1>6, <3>2, <4>1 DEF IInv, AddOrUpdate, TypeOK
    <3>3. QED  BY <3>1, <3>2 DEF IInv, Tracked
  <2>8. QED  BY <2>2, <2>3, <2>4, <2>6, <2>7 DEF IInv
<1>7. ASSUME NEW p \in Caller, Release(p) PROVE IInv'
  <2> DEFINE after == IF got[p] = NoChannel THEN "idle" ELSE "using"
  <2>1. CASE queue = <<>> /\ permits' = permits + 1 /\ queue' = queue
             /\ pc' = [pc EXCEPT ![p] = after]
    <3>1. permits = 0
      BY <1>7 DEF IInv, Release, SemaphoreSound, Inside, TypeOK
    <3>2. TypeOK'
      BY <1>7, <2>1, <3>1 DEF IInv, Release, TypeOK, channels, closing
    <3>3. SemaphoreSound'
      BY <1>7, <2>1, <3>1 DEF IInv, Release, TypeOK, SemaphoreSound, Inside
    <3>4. QueueWaits'
      BY <2>1 DEF QueueWaits
    <3>5. CallerInv'
      BY <1>7, <2>1 DEF IInv, Release, TypeOK, channels, CallerInv
    <3>6. CacheInv' /\ MadeInv' /\ CacheEmptyWhileConnecting' /\ Tracked'
      BY <1>7, <2>1, <3>2, CallerStepKeeps
      DEF IInv, Release, TypeOK, CacheEmptyWhileConnecting
    <3>7. QED  BY <3>2, <3>3, <3>4, <3>5, <3>6 DEF IInv
  <2>2. CASE queue # <<>> /\ queue' = Tail(queue) /\ permits' = permits
             /\ pc' = [pc EXCEPT ![p] = after, ![Head(queue)] = "entered"]
    <3> DEFINE next == Head(queue)
    <3>1. next \in Caller /\ pc[next] = "waiting" /\ next # p
      <4>1. next = queue[1] /\ 1 \in 1..Len(queue)
        BY <2>2 DEF IInv, TypeOK
      <4>2. QED  BY <1>7, <2>2, <4>1 DEF IInv, TypeOK, QueueWaits, Release
    <3>2. TypeOK'
      BY <1>7, <2>2, <3>1 DEF IInv, Release, TypeOK, channels, closing
    <3>p. /\ pc'[p] = after /\ pc'[next] = "entered"
          /\ \A q \in Caller \ {p, next} : pc'[q] = pc[q]
      BY <2>2, <3>1 DEF IInv, TypeOK
    <3> HIDE DEF next
    <3>3. SemaphoreSound'
      BY <1>7, <2>2, <3>1, <3>p DEF IInv, Release, TypeOK, SemaphoreSound, Inside
    <3>4. QueueWaits'
      <4>1. /\ Len(queue') = Len(queue) - 1
            /\ \A i \in 1..Len(queue') :
                 queue'[i] = queue[i + 1] /\ i + 1 \in 1..Len(queue)
        BY <2>2 DEF IInv, TypeOK
      <4>2. \A i \in 1..Len(queue') : queue'[i] # next /\ queue'[i] # p
                                      /\ queue'[i] \in Caller
        <5>1. next = queue[1] /\ 1 \in 1..Len(queue)
          BY <2>2 DEF IInv, TypeOK, next
        <5>2. \A i \in 1..Len(queue') : i + 1 # 1 /\ queue[i + 1] # queue[1]
          BY <4>1, <5>1 DEF IInv, TypeOK, QueueWaits
        <5>3. \A i \in 1..Len(queue') : queue[i + 1] \in Caller
                                       /\ pc[queue[i + 1]] = "waiting"
          BY <4>1 DEF IInv, TypeOK, QueueWaits
        <5>4. QED  BY <1>7, <4>1, <5>1, <5>2, <5>3 DEF Release
      <4>3. QED  BY <3>p, <4>1, <4>2 DEF IInv, TypeOK, QueueWaits
    <3>5. CallerInv'
      BY <1>7, <3>1, <3>p DEF IInv, Release, TypeOK, channels, CallerInv
    <3>6. CacheInv' /\ MadeInv' /\ CacheEmptyWhileConnecting' /\ Tracked'
      BY <1>7, <3>1, <3>2, <3>p, CallerStepKeeps
      DEF IInv, Release, TypeOK, CacheEmptyWhileConnecting
    <3>7. QED  BY <3>2, <3>3, <3>4, <3>5, <3>6 DEF IInv
  <2>3. QED  BY <1>7, <2>1, <2>2 DEF Release
<1>8. ASSUME NEW p \in Caller, Send(p) PROVE IInv'
  <2>1. TypeOK'
    BY <1>8 DEF IInv, Send, Leave, TypeOK, semaphore, channels, closing
  <2>2. SemaphoreSound' /\ QueueWaits'
    BY <1>8 DEF IInv, Send, Leave, TypeOK, semaphore, SemaphoreSound, Inside,
                QueueWaits
  <2>3. CallerInv'
    BY <1>8 DEF IInv, Send, Leave, TypeOK, channels, CallerInv
  <2>4. CacheInv' /\ MadeInv' /\ CacheEmptyWhileConnecting' /\ Tracked'
    BY <1>8, <2>1, CallerStepKeeps
    DEF IInv, Send, Leave, TypeOK, CacheEmptyWhileConnecting
  <2>5. QED  BY <2>1, <2>2, <2>3, <2>4 DEF IInv
<1>9. ASSUME NEW c \in Channel, Drop(c) \/ CloseNext(c) PROVE IInv'
  <2>1. chState' = Closed(chState, {c})
    BY <1>9 DEF Drop, CloseNext
  <2>2. /\ chState' \in [Channel -> {"unused", "open", "closed", "gone", "missed"}]
        /\ \A d \in Channel :
             /\ chState'[d] = "unused" <=> chState[d] = "unused"
             /\ chState'[d] = "gone" <=> chState[d] = "gone"
             /\ chState'[d] \in {"open", "closed"} <=> chState[d] \in {"open", "closed"}
    BY <2>1, ClosedType DEF IInv, TypeOK
  <2>3. /\ UNCHANGED <<cache, semaphore, pc, target, got, made, chEnd, closer>>
        /\ toClose' \subseteq toClose
    BY <1>9 DEF Drop, CloseNext, closing
  <2>4. TypeOK'
    BY <2>2, <2>3 DEF IInv, TypeOK, semaphore
  <2>5. SemaphoreSound' /\ QueueWaits' /\ CacheEmptyWhileConnecting'
    BY <2>3 DEF IInv, SemaphoreSound, Inside, QueueWaits,
                CacheEmptyWhileConnecting, semaphore
  <2>6. CallerInv' /\ CacheInv' /\ MadeInv'
    BY <2>2, <2>3 DEF IInv, CallerInv, CacheInv, MadeInv, TypeOK
  <2>7. Tracked'
    BY <2>2, <2>3 DEF IInv, Tracked, Connecting
  <2>8. QED  BY <2>4, <2>5, <2>6, <2>7 DEF IInv
<1>10. ASSUME NEW c \in Channel, Disconnected(c) PROVE IInv'
  <2> DEFINE e == chEnd[c]
             found == cache[e]
             marked == [chState EXCEPT ![c] = IF found = c THEN "gone" ELSE "missed"]
  <2>0. e \in Endpoint /\ found \in Channel \cup {NoChannel}
    BY <1>10, ChannelsAreNumbers DEF IInv, Disconnected, MadeInv, TypeOK
  <2>1. /\ chState' = Closed(marked, {found})
        /\ cache' = [cache EXCEPT ![e] = NoChannel]
        /\ UNCHANGED <<semaphore, pc, target, got, made, chEnd, closing>>
    BY <1>10 DEF Disconnected
  <2>2. marked \in [Channel -> {"unused", "open", "closed", "gone", "missed"}]
    BY DEF IInv, TypeOK
  <2>3. /\ chState' \in [Channel -> {"unused", "open", "closed", "gone", "missed"}]
        /\ chState'[c] = IF found = c THEN "gone" ELSE "missed"
        /\ \A d \in Channel \ {c} :
             /\ chState'[d] = "unused" <=> chState[d] = "unused"
             /\ chState'[d] = "gone" <=> chState[d] = "gone"
             /\ chState'[d] \in {"open", "closed"} <=> chState[d] \in {"open", "closed"}
    BY <1>10, <2>1, <2>2, ClosedType DEF IInv, TypeOK, Closed
  <2> HIDE DEF marked
  <2>4. TypeOK'
    BY <2>0, <2>1, <2>3 DEF IInv, TypeOK, semaphore, closing
  <2>5. SemaphoreSound' /\ QueueWaits'
    BY <2>1 DEF IInv, SemaphoreSound, Inside, QueueWaits, semaphore
  <2>6. CacheEmptyWhileConnecting'
    BY <2>0, <2>1 DEF IInv, CacheEmptyWhileConnecting, CallerInv, TypeOK
  <2>7. CallerInv'
    <3>1. \A p \in Caller : pc[p] = "connected" => chState'[got[p]] # "gone"
      <4> SUFFICES ASSUME NEW p \in Caller, pc[p] = "connected"
                   PROVE  chState'[got[p]] # "gone"
        OBVIOUS
      <4>1. /\ got[p] \in Channel /\ chEnd[got[p]] = target[p]
            /\ cache[target[p]] = NoChannel /\ chState[got[p]] # "gone"
        BY DEF IInv, CallerInv, CacheEmptyWhileConnecting, TypeOK
      <4>2. got[p] = c => found # c
        BY <4>1, ChannelsAreNumbers
      <4>3. QED  BY <2>3, <4>1, <4>2
    <3>2. QED  BY <2>1, <3>1 DEF IInv, CallerInv
  <2>8. CacheInv'
    <3> SUFFICES ASSUME NEW f \in Endpoint, cache'[f] # NoChannel
                 PROVE  /\ cache'[f] <= made /\ chEnd[cache'[f]] = f
                        /\ chState'[cache'[f]] # "gone"
      BY <2>1 DEF CacheInv
    <3>1. f # e /\ cache'[f] = cache[f] /\ cache[f] \in Channel
      BY <2>1 DEF IInv, TypeOK
    <3>2. cache[f] <= made /\ chEnd[cache[f]] = f /\ chState[cache[f]] # "gone"
      BY <3>1, ChannelsAreNumbers DEF IInv, CacheInv
    <3>3. cache[f] # c
      BY <3>1, <3>2
    <3>4. QED  BY <2>3, <3>1, <3>2, <3>3
  <2>9. MadeInv'
    BY <1>10, <2>1, <2>3 DEF IInv, MadeInv, Disconnected
  <2>10. Tracked'
    <3> SUFFICES ASSUME closer = "idle", NEW d \in Channel,
                        chState'[d] \in {"open", "closed"}
                 PROVE  cache'[chEnd[d]] = d \/ \E p \in Caller : Connecting(p, d)
      BY <2>1 DEF Tracked, Connecting, closing
    <3>1. d # c /\ chState[d] \in {"open", "closed"}
      BY <2>3
    <3>2. CASE \E p \in Caller : Connecting(p, d)
      BY <3>2
    <3>3. CASE cache[chEnd[d]] = d
      <4>1. CASE chEnd[d] = e
        <5>1. found = d
          BY <3>3, <4>1
        <5>2. \E p \in Caller : Connecting(p, c)
          BY <1>10, <3>1, <5>1 DEF IInv, Tracked, Disconnected
        <5>3. found = NoChannel
          BY <5>2 DEF IInv, Connecting, CacheEmptyWhileConnecting, CallerInv,
                      TypeOK
        <5>4. QED  BY <5>1, <5>3, ChannelsAreNumbers
      <4>2. CASE chEnd[d] # e
        <5>1. chEnd[d] \in Endpoint
          BY <3>1, ChannelsAreNumbers DEF IInv, MadeInv, TypeOK
        <5>2. QED  BY <2>1, <3>3, <4>2, <5>1 DEF IInv, TypeOK
      <4>3. QED  BY <4>1, <4>2
    <3>4. QED  BY <3>1, <3>2, <3>3 DEF IInv, Tracked
  <2>11. QED  BY <2>4, <2>5, <2>6, <2>7, <2>8, <2>9, <2>10 DEF IInv
<1>11. CASE CloseAllTransports
  <2>1. TypeOK'
    BY <1>11 DEF IInv, CloseAllTransports, TypeOK, semaphore, channels
  <2>2. QED
    BY <1>11, <2>1
    DEF IInv, CloseAllTransports, SemaphoreSound, Inside, QueueWaits, CallerInv,
        CacheInv, MadeInv, CacheEmptyWhileConnecting, Tracked, semaphore, channels
<1>12. CASE Clear
  <2>1. TypeOK'
    BY <1>12 DEF IInv, Clear, TypeOK, semaphore, channels
  <2>2. SemaphoreSound' /\ QueueWaits' /\ CallerInv' /\ MadeInv'
    BY <1>12 DEF IInv, Clear, SemaphoreSound, Inside, QueueWaits, CallerInv,
                 MadeInv, semaphore, channels
  <2>3. CacheInv' /\ CacheEmptyWhileConnecting' /\ Tracked'
    BY <1>12 DEF IInv, Clear, CacheInv, CacheEmptyWhileConnecting, CallerInv, Tracked
  <2>4. QED  BY <2>1, <2>2, <2>3 DEF IInv
<1>13. CASE UNCHANGED vars
  BY <1>13
  DEF vars, IInv, TypeOK, SemaphoreSound, Inside, QueueWaits, CallerInv,
      CacheInv, MadeInv, CacheEmptyWhileConnecting, Tracked, Connecting
<1>14. QED
  BY <1>1, <1>2, <1>3, <1>4, <1>5, <1>6, <1>7, <1>8, <1>9, <1>10, <1>11, <1>12,
     <1>13
  DEF Next, InCreate

LEMMA IInvInvariant == Spec => []IInv
BY InitIInv, StepIInv, PTL DEF Spec

\* Type correctness of the factory's state.
THEOREM TypeCorrect == Spec => []TypeOK
<1>1. IInv => TypeOK
  BY DEF IInv
<1>2. QED  BY <1>1, IInvInvariant, PTL

\* One caller at a time connects, and the permit is neither lost nor doubled.
THEOREM SemaphoreHeld == Spec => []SemaphoreSound
<1>1. IInv => SemaphoreSound
  BY DEF IInv
<1>2. QED  BY <1>1, IInvInvariant, PTL

\* AddOrUpdate never finds an older transport to replace.
THEOREM NothingToReplace == Spec => []CacheEmptyWhileConnecting
<1>1. IInv => CacheEmptyWhileConnecting
  BY DEF IInv
<1>2. QED  BY <1>1, IInvInvariant, PTL

\* A caller's transport leads to the endpoint it asked for.
THEOREM TransportsLeadRight == Spec => []RightEndpoint
<1>1. IInv => RightEndpoint
  BY DEF IInv, CallerInv, RightEndpoint
<1>2. QED  BY <1>1, IInvInvariant, PTL

\* Without CloseAllTransports no live connection is lost track of.
THEOREM ConnectionsTracked == Spec => []NoStrayConnection
<1>1. IInv => NoStrayConnection
  BY DEF IInv, Tracked, NoStrayConnection
<1>2. QED  BY <1>1, IInvInvariant, PTL

\* Without CloseAllTransports a disconnect event never hits a younger connection.
THEOREM EventsHitTheirChannel == Spec => []EventHitsOwnChannel
<1>1. IInv => EventHitsOwnChannel
  BY DEF IInv, Tracked, EventHitsOwnChannel, Connecting, CacheEmptyWhileConnecting,
         CallerInv, TypeOK
<1>2. QED  BY <1>1, IInvInvariant, PTL

\* A dead entry of the cache is one whose event is to come or came too early.
THEOREM DeadEntries == Spec => []DeadEntryMissedItsEvent
<1>1. IInv => DeadEntryMissedItsEvent
  BY ChannelsAreNumbers DEF IInv, TypeOK, CacheInv, MadeInv, DeadEntryMissedItsEvent
<1>2. QED  BY <1>1, IInvInvariant, PTL

=============================================================================
