------------------------------ MODULE RoundRobin ------------------------------
(***************************************************************************)
(* RoundrobinRoutingPolicy.Select: callers draw the next index of a key    *)
(* from a static ConcurrentDictionary.  Reading the counter and advancing  *)
(* it are two operations on the dictionary, and the result of TryUpdate is *)
(* ignored, so callers may draw the same index.                            *)
(*                                                                         *)
(* Index is the program's int: MaxIndex is 2^31 - 1 there, and advancing   *)
(* past it wraps to -MaxIndex - 1.                                         *)
(***************************************************************************)
EXTENDS Integers

CONSTANTS Caller,     \* threads that route a request
          Key,        \* keys of the routing table
          NoKey,      \* no key, for a caller that selects nothing
          MaxIndex,   \* int.MaxValue
          NoIndex     \* a counter that is not in the dictionary

MinIndex == -MaxIndex - 1
Index    == MinIndex..MaxIndex

ASSUME RoundRobinAssumption ==
  /\ MaxIndex \in Nat \ {0}
  /\ NoIndex \notin Index
  /\ NoKey \notin Key

VARIABLES
  RoundCache,   \* key -> its counter, or NoIndex
  pc,           \* where a caller is in Select
  serviceKey,   \* the key it selects for
  index,        \* the counter it read, then the index it drew
  drawn,        \* history: the indices drawn so far for each key
  before        \* history: drawn when the caller read the counter

vars == <<RoundCache, pc, serviceKey, index, drawn, before>>

TypeOK ==
  /\ RoundCache \in [Key -> Index \cup {NoIndex}]
  /\ pc \in [Caller -> {"idle", "read", "drawn"}]
  /\ serviceKey \in [Caller -> Key \cup {NoKey}]
  /\ \A p \in Caller : pc[p] # "idle" => serviceKey[p] \in Key
  /\ index \in [Caller -> Index \cup {NoIndex}]
  /\ drawn \in [Key -> SUBSET Index]
  /\ before \in [Caller -> SUBSET Index]

Init ==
  /\ RoundCache = [k \in Key |-> NoIndex]
  /\ pc = [p \in Caller |-> "idle"]
  /\ serviceKey = [p \in Caller |-> NoKey]
  /\ index = [p \in Caller |-> NoIndex]
  /\ drawn = [k \in Key |-> {}]
  /\ before = [p \in Caller |-> {}]

----------------------------------------------------------------------------
\* The definitions marked "Wrong:" are variants of the definition that follows,
\* each with a bug that one of the properties below rules out; the
\* specification does not use them.

\* Wrong: the counter turns negative before it has reached the largest int.
IncEarly(i) == IF i = MaxIndex - 1 THEN MinIndex ELSE i + 1

\* index + 1, unchecked.
Inc(i) == IF i = MaxIndex THEN MinIndex ELSE i + 1

\* index % count, with the sign of the dividend; a negative one is no index of
\* the list.
Position(i, count) == IF i >= 0 THEN i % count ELSE -((-i) % count)

TryGetValue(p, k) ==
  /\ pc[p] = "idle"
  /\ pc' = [pc EXCEPT ![p] = "read"]
  /\ serviceKey' = [serviceKey EXCEPT ![p] = k]
  /\ index' = [index EXCEPT ![p] = RoundCache[k]]
  /\ before' = [before EXCEPT ![p] = drawn[k]]
  /\ UNCHANGED <<RoundCache, drawn>>

Draw(p, i) ==
  /\ pc' = [pc EXCEPT ![p] = "drawn"]
  /\ index' = [index EXCEPT ![p] = i]
  /\ drawn' = [drawn EXCEPT ![serviceKey[p]] = @ \cup {i}]
  /\ UNCHANGED <<serviceKey, before>>

\* The key had no counter: the caller takes index 0, whoever adds it.
TryAdd(p) ==
  /\ pc[p] = "read"
  /\ index[p] = NoIndex
  /\ RoundCache' = [RoundCache EXCEPT
       ![serviceKey[p]] = IF @ = NoIndex THEN 0 ELSE @]
  /\ Draw(p, 0)

\* Wrong: the caller goes on with the index it read.
TryUpdateUsesOld(p) ==
  /\ pc[p] = "read"
  /\ index[p] # NoIndex
  /\ RoundCache' = [RoundCache EXCEPT
       ![serviceKey[p]] = IF @ = index[p] THEN Inc(index[p]) ELSE @]
  /\ Draw(p, index[p])

\* Wrong: the counter is written whatever it is by now.
TryUpdateBlindly(p) ==
  /\ pc[p] = "read"
  /\ index[p] # NoIndex
  /\ RoundCache' = [RoundCache EXCEPT ![serviceKey[p]] = Inc(index[p])]
  /\ Draw(p, Inc(index[p]))

\* Wrong: a caller that came too late advances the counter once more and keeps
\* its own index.
TryUpdateTwice(p) ==
  /\ pc[p] = "read"
  /\ index[p] # NoIndex
  /\ RoundCache' = [RoundCache EXCEPT ![serviceKey[p]] = Inc(@)]
  /\ Draw(p, Inc(index[p]))

\* The counter advances unless another caller advanced it first; the caller
\* takes the index after the one it read all the same.
TryUpdate(p) ==
  /\ pc[p] = "read"
  /\ index[p] # NoIndex
  /\ RoundCache' = [RoundCache EXCEPT
       ![serviceKey[p]] = IF @ = index[p] THEN Inc(index[p]) ELSE @]
  /\ Draw(p, Inc(index[p]))

\* Select returns remoteAddresses[Position(index, count)], or throws.
Return(p) ==
  /\ pc[p] = "drawn"
  /\ pc' = [pc EXCEPT ![p] = "idle"]
  /\ serviceKey' = [serviceKey EXCEPT ![p] = NoKey]
  /\ index' = [index EXCEPT ![p] = NoIndex]
  /\ before' = [before EXCEPT ![p] = {}]
  /\ UNCHANGED <<RoundCache, drawn>>

Next ==
  \E p \in Caller :
    \/ \E k \in Key : TryGetValue(p, k)
    \/ TryAdd(p) \/ TryUpdate(p) \/ Return(p)

Spec == Init /\ [][Next]_vars

----------------------------------------------------------------------------
(***************************************************************************)
(* Properties.                                                             *)
(***************************************************************************)

\* The values a counter has gone through on its way to i, the first time round.
Passed(i) ==
  CASE i = NoIndex -> {}
    [] i \in Index /\ i >= 0 -> 0..i
    [] i \in Index /\ i < 0  -> (0..MaxIndex) \cup (MinIndex..i)

\* Every index the counter of a key has gone through was drawn by some caller:
\* callers that overlap may repeat an endpoint, they never make the rotation
\* leave one out (TryUpdate moves the counter only for a caller that uses the
\* new value).
NoEndpointSkipped ==
  \A k \in Key : Passed(RoundCache[k]) \subseteq drawn[k]

\* A caller repeats an index only if it overlapped with the caller that drew it
\* before: what was drawn when it read the counter is not drawn again, until the
\* counter has gone through all of its values.
RepeatsOnlyWhenConcurrent ==
  \A p \in Caller : pc[p] = "drawn" /\ -1 \notin before[p] =>
    index[p] \notin before[p]

\* The list is indexed with a negative number, and Select throws, only after the
\* counter has overflowed: the largest index was drawn before.
NegativeOnlyAfterOverflow ==
  \A p \in Caller : pc[p] = "drawn" /\ index[p] < 0 =>
    MaxIndex \in drawn[serviceKey[p]]

\* A caller that read the counter long ago does not turn it back: a counter only
\* appears at 0 and moves by one.
CounterNeverGoesBack ==
  [][\A k \in Key : RoundCache'[k] # RoundCache[k] =>
       IF RoundCache[k] = NoIndex THEN RoundCache'[k] = 0
                                  ELSE RoundCache'[k] = Inc(RoundCache[k])]_vars
=============================================================================
