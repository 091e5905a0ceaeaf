------------------------- MODULE ServiceRouterProofs -------------------------
(***************************************************************************)
(* Proofs about RoundRobin and ServiceRouter.                              *)
(*                                                                         *)
(* First the policy, for any callers, any keys and an int of any width:    *)
(* the inductive invariant says what the indices drawn for a key are,      *)
(* exactly those its counter has gone through, until it has gone through   *)
(* all of them.  Then the router: it uses the policy as the policy's own   *)
(* specification allows; its table holds what is configured, for any       *)
(* options; and so a request goes where it is configured to go.            *)
(***************************************************************************)
EXTENDS ServiceRouter, SequenceTheorems, IntervalInduction

----------------------------------------------------------------------------
\* Facts about Inc and Passed.

\* Passed on an int, without the case of a missing counter.
LEMMA PassedValue ==
  ASSUME NEW i \in Index
  PROVE  Passed(i) = IF i >= 0 THEN 0..i ELSE (0..MaxIndex) \cup (MinIndex..i)
<1>1. i # NoIndex
  BY RoundRobinAssumption
<1>2. i \in Int
  BY RoundRobinAssumption DEF Index, MinIndex
<1>3. CASE i >= 0
  BY <1>1, <1>2, <1>3 DEF Passed
<1>4. CASE i < 0
  BY <1>1, <1>2, <1>4 DEF Passed
<1>. QED
  BY <1>2, <1>3, <1>4

\* Advancing a counter stays within the int.
LEMMA IncInIndex ==
  ASSUME NEW i \in Index
  PROVE  Inc(i) \in Index
BY RoundRobinAssumption DEF Inc, Index, MinIndex

\* A counter that is there has gone through 0 and through its own value.
LEMMA PassedBounds ==
  ASSUME NEW i \in Index
  PROVE  /\ Passed(i) \subseteq Index
         /\ 0 \in Passed(i)
         /\ i \in Passed(i)
BY PassedValue, RoundRobinAssumption DEF Index, MinIndex

\* Nothing was passed before the counter is there.
LEMMA PassedNothing == Passed(NoIndex) = {}
BY RoundRobinAssumption DEF Passed

\* Advancing adds one value, except from -1 to 0, which closes the circle.
LEMMA PassedInc ==
  ASSUME NEW i \in Index, i # -1
  PROVE  Passed(Inc(i)) = Passed(i) \cup {Inc(i)}
<1>1. i \in Int /\ MaxIndex \in Nat \ {0} /\ MinIndex \in Int
  BY RoundRobinAssumption DEF Index, MinIndex
<1>2. Inc(i) \in Index
  BY IncInIndex
<1>3. CASE i = MaxIndex
  <2>1. Inc(i) = MinIndex
    BY <1>3 DEF Inc
  <2>2. Passed(i) = 0..MaxIndex
    BY <1>1, <1>3, PassedValue
  <2>3. Passed(Inc(i)) = (0..MaxIndex) \cup (MinIndex..MinIndex)
    BY <1>1, <1>2, <2>1, PassedValue DEF MinIndex
  <2>. QED
    BY <1>1, <2>1, <2>2, <2>3
<1>4. CASE i # MaxIndex /\ i >= 0
  <2>1. Inc(i) = i + 1 /\ Inc(i) >= 0
    BY <1>1, <1>4 DEF Inc
  <2>2. Passed(i) = 0..i /\ Passed(Inc(i)) = 0..(i + 1)
    BY <1>2, <1>4, <2>1, PassedValue
  <2>. QED
    BY <1>1, <1>4, <2>1, <2>2
<1>5. CASE i < 0
  <2>1. Inc(i) = i + 1 /\ i + 1 < 0
    BY <1>1, <1>5 DEF Inc
  <2>2. Passed(i) = (0..MaxIndex) \cup (MinIndex..i)
    BY <1>1, <1>5, PassedValue
  <2>3. Passed(Inc(i)) = (0..MaxIndex) \cup (MinIndex..(i + 1))
    BY <1>1, <1>2, <2>1, PassedValue
  <2>4. MinIndex <= i
    BY <1>1 DEF Index
  <2>. QED
    BY <1>1, <2>1, <2>2, <2>3, <2>4
<1>. QED
  BY <1>1, <1>3, <1>4, <1>5

\* At -1 the counter has gone through every int.
LEMMA PassedAll == Passed(-1) = Index
<1>1. -1 \in Index
  BY RoundRobinAssumption DEF Index, MinIndex
<1>2. Passed(-1) = (0..MaxIndex) \cup (MinIndex..(-1))
  BY <1>1, PassedValue
<1>3. MaxIndex \in Nat /\ MinIndex \in Int /\ MinIndex <= -1
  BY RoundRobinAssumption DEF MinIndex
<1>4. (0..MaxIndex) \cup (MinIndex..(-1)) = MinIndex..MaxIndex
  <2>. SUFFICES ASSUME NEW x
                PROVE  x \in (0..MaxIndex) \cup (MinIndex..(-1))
                         <=> x \in MinIndex..MaxIndex
    OBVIOUS
  <2>1. CASE x \in Int
    BY <1>3, <2>1
  <2>2. CASE x \notin Int
    BY <1>3, <2>2
  <2>. QED
    BY <2>1, <2>2
<1>. QED
  BY <1>2, <1>4 DEF Index

\* Behind its present value, the counter has gone through the next one too.
LEMMA PassedNext ==
  ASSUME NEW c \in Index, NEW i \in Passed(c), i # c
  PROVE  Inc(i) \in Passed(c)
<1>1. c \in Int /\ MaxIndex \in Nat \ {0} /\ MinIndex \in Int /\ i \in Index
  BY PassedBounds, RoundRobinAssumption DEF Index, MinIndex
<1>2. i \in Int /\ MinIndex <= c /\ c <= MaxIndex /\ MinIndex <= i /\ i <= MaxIndex
  BY <1>1 DEF Index
<1>3. CASE c >= 0
  <2>1. Passed(c) = 0..c
    BY <1>3, PassedValue
  <2>2. 0 <= i /\ i < c
    BY <1>1, <1>2, <2>1
  <2>. QED
    BY <1>1, <1>2, <2>1, <2>2 DEF Inc
<1>4. CASE c < 0
  <2>1. Passed(c) = (0..MaxIndex) \cup (MinIndex..c)
    BY <1>1, <1>4, PassedValue
  <2>2. CASE i = MaxIndex
    BY <1>1, <1>2, <2>1, <2>2 DEF Inc
  <2>3. CASE i # MaxIndex /\ i >= 0
    BY <1>1, <1>2, <2>1, <2>3 DEF Inc
  <2>4. CASE i < 0
    BY <1>1, <1>2, <2>1, <2>4 DEF Inc
  <2>. QED
    BY <1>1, <1>2, <2>2, <2>3, <2>4
<1>. QED
  BY <1>1, <1>3, <1>4

\* A counter that has not been round yet moves to a value that is new.
LEMMA PassedFresh ==
  ASSUME NEW i \in Index, -1 \notin Passed(i)
  PROVE  Inc(i) \notin Passed(i)
<1>1. /\ i \in Int /\ MaxIndex \in Nat \ {0}
      /\ MinIndex = -MaxIndex - 1
      /\ MinIndex <= i /\ i <= MaxIndex
  BY RoundRobinAssumption DEF Index, MinIndex
<1>2. CASE i >= 0
  <2>1. Passed(i) = 0..i
    BY <1>2, PassedValue
  <2>. QED
    BY <1>1, <1>2, <2>1 DEF Inc
<1>3. CASE i < 0
  <2>1. Passed(i) = (0..MaxIndex) \cup (MinIndex..i)
    BY <1>1, <1>3, PassedValue
  <2>2. i # -1
    BY <1>1, <2>1
  <2>3. Inc(i) = i + 1 /\ i + 1 < 0
    BY <1>1, <1>3, <2>2 DEF Inc
  <2>. QED
    BY <1>1, <2>1, <2>3
<1>. QED
  BY <1>1, <1>2, <1>3

----------------------------------------------------------------------------
\* The inductive invariant.

Rotation ==
  \A k \in Key :
    \/ drawn[k] = Passed(RoundCache[k])
    \/ drawn[k] = Index /\ RoundCache[k] # NoIndex

\* What a caller read was a value of the counter, and "before" is what had been
\* drawn at that time.
Reading ==
  \A p \in Caller : pc[p] = "read" =>
    /\ index[p] = NoIndex => before[p] = {}
    /\ index[p] # NoIndex => /\ index[p] \in drawn[serviceKey[p]]
                             /\ before[p] \in {Passed(index[p]), Index}

Drawing ==
  \A p \in Caller : pc[p] = "drawn" =>
    /\ index[p] \in drawn[serviceKey[p]]
    /\ -1 \notin before[p] => index[p] \notin before[p]

IInv == TypeOK /\ Rotation /\ Reading /\ Drawing

\* A counter that is there has been drawn.
LEMMA CounterDrawn ==
  ASSUME TypeOK, Rotation, NEW k \in Key, RoundCache[k] # NoIndex
  PROVE  /\ RoundCache[k] \in Index
         /\ RoundCache[k] \in drawn[k]
         /\ 0 \in drawn[k]
<1>1. RoundCache[k] \in Index
  BY DEF TypeOK
<1>2. 0 \in Index
  BY RoundRobinAssumption DEF Index, MinIndex
<1>. QED
  BY <1>1, <1>2, PassedBounds DEF Rotation

\* The initial states satisfy the invariant.
LEMMA InitInv == Init => IInv
<1>. SUFFICES ASSUME Init PROVE IInv
  OBVIOUS
<1>1. TypeOK
  BY DEF Init, TypeOK
<1>2. Rotation
  BY PassedNothing DEF Init, Rotation
<1>. QED
  BY <1>1, <1>2 DEF Init, IInv, Reading, Drawing

\* Every step of Draw's callers, reduced to one statement: the counter of the
\* caller's key is c before and d after, and i is drawn.
LEMMA DrawInv ==
  ASSUME IInv, NEW p \in Caller, pc[p] = "read",
         NEW d \in Index, NEW i \in Index, Draw(p, i),
         RoundCache' = [RoundCache EXCEPT ![serviceKey[p]] = d],
         \/ drawn[serviceKey[p]] \cup {i} = Passed(d)
         \/ drawn[serviceKey[p]] \cup {i} = Index,
         -1 \notin before[p] => i \notin before[p]
  PROVE  IInv'
<1>. DEFINE s == serviceKey[p]
<1>0. s \in Key /\ TypeOK /\ Rotation /\ Reading /\ Drawing
  BY DEF IInv, TypeOK
<1>1. d # NoIndex /\ i # NoIndex
  BY RoundRobinAssumption
<1>2. TypeOK'
  BY <1>0 DEF TypeOK, Draw
<1>3. /\ drawn'[s] = drawn[s] \cup {i}
      /\ RoundCache'[s] = d
      /\ \A k \in Key : k # s => drawn'[k] = drawn[k] /\ RoundCache'[k] = RoundCache[k]
  BY <1>0 DEF TypeOK, Draw
<1>4. Rotation'
  BY <1>0, <1>1, <1>3 DEF Rotation
<1>5. \A k \in Key : drawn[k] \subseteq drawn'[k]
  BY <1>0, <1>3
<1>6. \A q \in Caller : q # p => /\ pc'[q] = pc[q] /\ index'[q] = index[q]
  BY <1>0 DEF TypeOK, Draw
<1>7. pc'[p] = "drawn" /\ index'[p] = i /\ serviceKey' = serviceKey /\ before' = before
  BY <1>0 DEF TypeOK, Draw
<1>8. Reading'
  BY <1>0, <1>5, <1>6, <1>7 DEF Reading, TypeOK
<1>9. Drawing'
  <2>. SUFFICES ASSUME NEW q \in Caller, pc'[q] = "drawn"
                PROVE  /\ index'[q] \in drawn'[serviceKey'[q]]
                       /\ -1 \notin before'[q] => index'[q] \notin before'[q]
    BY DEF Drawing
  <2>1. CASE q = p
    BY <2>1, <1>3, <1>7
  <2>2. CASE q # p
    BY <2>2, <1>0, <1>5, <1>6, <1>7 DEF Drawing, TypeOK
  <2>. QED
    BY <2>1, <2>2
<1>. QED
  BY <1>2, <1>4, <1>8, <1>9 DEF IInv

\* The steps keep the invariant.
LEMMA StepInv == IInv /\ [Next]_vars => IInv'
<1>. SUFFICES ASSUME IInv, [Next]_vars PROVE IInv'
  OBVIOUS
<1>0. TypeOK /\ Rotation /\ Reading /\ Drawing
  BY DEF IInv
<1>1. ASSUME NEW p \in Caller, NEW k \in Key, TryGetValue(p, k) PROVE IInv'
  <2>1. TypeOK'
    BY <1>0, <1>1 DEF TypeOK, TryGetValue
  <2>2. Rotation'
    BY <1>0, <1>1 DEF Rotation, TryGetValue
  <2>3. \A q \in Caller : q # p =>
          /\ pc'[q] = pc[q] /\ index'[q] = index[q]
          /\ serviceKey'[q] = serviceKey[q] /\ before'[q] = before[q]
    BY <1>0, <1>1 DEF TypeOK, TryGetValue
  <2>4. /\ pc'[p] = "read" /\ index'[p] = RoundCache[k] /\ serviceKey'[p] = k
        /\ before'[p] = drawn[k] /\ drawn' = drawn
    BY <1>0, <1>1 DEF TypeOK, TryGetValue
  <2>5. RoundCache[k] = NoIndex => drawn[k] = {}
    BY <1>0, PassedNothing DEF Rotation
  <2>6. RoundCache[k] # NoIndex =>
          /\ RoundCache[k] \in drawn[k]
          /\ drawn[k] \in {Passed(RoundCache[k]), Index}
    BY <1>0, CounterDrawn DEF Rotation
  <2>7. Reading'
    <3>. SUFFICES ASSUME NEW q \in Caller, pc'[q] = "read"
                  PROVE  /\ index'[q] = NoIndex => before'[q] = {}
                         /\ index'[q] # NoIndex =>
                              /\ index'[q] \in drawn'[serviceKey'[q]]
                              /\ before'[q] \in {Passed(index'[q]), Index}
      BY DEF Reading
    <3>1. CASE q = p
      BY <3>1, <2>4, <2>5, <2>6
    <3>2. CASE q # p
      BY <3>2, <1>0, <2>3, <2>4 DEF Reading
    <3>. QED
      BY <3>1, <3>2
  <2>8. Drawing'
    BY <1>0, <2>3, <2>4 DEF Drawing
  <2>. QED
    BY <2>1, <2>2, <2>7, <2>8 DEF IInv
<1>2. ASSUME NEW p \in Caller, TryAdd(p) PROVE IInv'
  <2>. DEFINE s == serviceKey[p]
              c == RoundCache[s]
              d == IF c = NoIndex THEN 0 ELSE c
  <2>1. /\ pc[p] = "read" /\ index[p] = NoIndex /\ Draw(p, 0) /\ s \in Key
        /\ RoundCache' = [RoundCache EXCEPT ![s] = d]
    BY <1>0, <1>2 DEF TryAdd, TypeOK
  <2>2. 0 \in Index /\ d \in Index
    BY <1>0, <2>1, RoundRobinAssumption DEF TypeOK, Index, MinIndex
  <2>3. before[p] = {}
    BY <1>0, <2>1 DEF Reading
  <2>4. CASE c = NoIndex
    <3>1. drawn[s] = {}
      BY <1>0, <2>1, <2>4, PassedNothing DEF Rotation
    <3>2. Passed(0) = {0}
      BY <2>2, PassedValue
    <3>3. drawn[s] \cup {0} = Passed(d)
      BY <2>4, <3>1, <3>2
    <3>. QED
      BY <2>1, <2>2, <2>3, <3>3, DrawInv
  <2>5. CASE c # NoIndex
    <3>1. 0 \in drawn[s]
      BY <1>0, <2>1, <2>5, CounterDrawn
    <3>2. \/ drawn[s] \cup {0} = Passed(d)
          \/ drawn[s] \cup {0} = Index
      BY <1>0, <2>1, <2>5, <3>1 DEF Rotation
    <3>. QED
      BY <2>1, <2>2, <2>3, <3>2, DrawInv
  <2>. QED
    BY <2>4, <2>5
<1>3. ASSUME NEW p \in Caller, TryUpdate(p) PROVE IInv'
  <2>. DEFINE s == serviceKey[p]
              c == RoundCache[s]
              i == Inc(index[p])
              d == IF c = index[p] THEN i ELSE c
  <2>1. /\ pc[p] = "read" /\ index[p] # NoIndex /\ Draw(p, i) /\ s \in Key
        /\ RoundCache' = [RoundCache EXCEPT ![s] = d]
    BY <1>0, <1>3 DEF TryUpdate, TypeOK
  <2>2. /\ index[p] \in Index /\ index[p] \in drawn[s]
        /\ before[p] \in {Passed(index[p]), Index}
    BY <1>0, <2>1 DEF Reading, TypeOK
  <2>3. i \in Index
    BY <2>2, IncInIndex
  <2>4. c # NoIndex /\ c \in Index
    <3>1. c # NoIndex
      BY <1>0, <2>1, <2>2, PassedNothing DEF Rotation
    <3>. QED
      BY <1>0, <2>1, <3>1, CounterDrawn
  <2>5. -1 \notin before[p] => i \notin before[p]
    <3>1. -1 \in Index
      BY RoundRobinAssumption DEF Index, MinIndex
    <3>. QED
      BY <2>2, <3>1, PassedFresh
  <2>6. \/ drawn[s] \cup {i} = Passed(d)
        \/ drawn[s] \cup {i} = Index
    <3>1. CASE drawn[s] = Index
      BY <3>1, <2>3
    <3>2. CASE drawn[s] = Passed(c) /\ c = index[p] /\ c = -1
      BY <3>2, <2>3, PassedAll
    <3>3. CASE drawn[s] = Passed(c) /\ c = index[p] /\ c # -1
      BY <3>3, <2>4, PassedInc
    <3>4. CASE drawn[s] = Passed(c) /\ c # index[p]
      <4>1. i \in Passed(c)
        BY <3>4, <2>2, <2>4, PassedNext
      <4>. QED
        BY <3>4, <4>1
    <3>. QED
      BY <1>0, <2>1, <3>1, <3>2, <3>3, <3>4 DEF Rotation
  <2>7. d \in Index
    BY <2>3, <2>4
  <2>. QED
    BY <2>1, <2>3, <2>5, <2>6, <2>7, DrawInv
<1>4. ASSUME NEW p \in Caller, Return(p) PROVE IInv'
  <2>1. TypeOK'
    BY <1>0, <1>4 DEF TypeOK, Return
  <2>2. Rotation'
    BY <1>0, <1>4 DEF Rotation, Return
  <2>3. \A q \in Caller : pc'[q] # "idle" =>
          /\ pc'[q] = pc[q] /\ index'[q] = index[q]
          /\ serviceKey'[q] = serviceKey[q] /\ before'[q] = before[q]
    BY <1>0, <1>4 DEF TypeOK, Return
  <2>4. drawn' = drawn
    BY <1>4 DEF Return
  <2>5. Reading'
    BY <1>0, <2>3, <2>4 DEF Reading
  <2>6. Drawing'
    BY <1>0, <2>3, <2>4 DEF Drawing
  <2>. QED
    BY <2>1, <2>2, <2>5, <2>6 DEF IInv
<1>5. CASE UNCHANGED vars
  BY <1>0, <1>5 DEF vars, IInv, TypeOK, Rotation, Reading, Drawing
<1>. QED
  BY <1>1, <1>2, <1>3, <1>4, <1>5 DEF Next

\* The invariant holds in every reachable state.
LEMMA Invariance == Spec => []IInv
BY InitInv, StepInv, PTL DEF Spec

----------------------------------------------------------------------------
\* The variables of RoundrobinRoutingPolicy keep their types.
THEOREM TypeCorrect == Spec => []TypeOK
<1>1. IInv => TypeOK
  BY DEF IInv
<1>. QED
  BY <1>1, Invariance, PTL

\* The rotation leaves no index out, for any number of callers that select at
\* the same time.
THEOREM NothingSkipped == Spec => []NoEndpointSkipped
<1>1. IInv => NoEndpointSkipped
  <2>. SUFFICES ASSUME IInv, NEW k \in Key
                PROVE  Passed(RoundCache[k]) \subseteq drawn[k]
    BY DEF NoEndpointSkipped
  <2>1. RoundCache[k] # NoIndex => Passed(RoundCache[k]) \subseteq Index
    BY PassedBounds DEF IInv, TypeOK
  <2>. QED
    BY <2>1 DEF IInv, Rotation
<1>. QED
  BY <1>1, Invariance, PTL

\* An index is drawn twice only by callers that overlap.
THEOREM RepeatsOverlap == Spec => []RepeatsOnlyWhenConcurrent
<1>1. IInv => RepeatsOnlyWhenConcurrent
  BY DEF IInv, Drawing, RepeatsOnlyWhenConcurrent
<1>. QED
  BY <1>1, Invariance, PTL

\* A negative index was drawn after the largest one.
LEMMA NegativeAfterLargest == IInv => NegativeOnlyAfterOverflow
<1>. SUFFICES ASSUME IInv, NEW p \in Caller, pc[p] = "drawn", index[p] < 0
              PROVE  MaxIndex \in drawn[serviceKey[p]]
  BY DEF NegativeOnlyAfterOverflow
<1>. DEFINE s == serviceKey[p]
            c == RoundCache[s]
<1>1. s \in Key /\ index[p] \in drawn[s] /\ MaxIndex \in Index
  BY RoundRobinAssumption DEF IInv, TypeOK, Drawing, Index, MinIndex
<1>2. CASE drawn[s] = Index
  BY <1>1, <1>2
<1>3. CASE drawn[s] = Passed(c)
  <2>1. c \in Index
    BY <1>1, <1>3, PassedNothing DEF IInv, TypeOK
  <2>2. c \in Int /\ MaxIndex \in Nat
    BY <2>1, RoundRobinAssumption DEF Index, MinIndex
  <2>3. c < 0
    BY <1>1, <1>3, <2>1, <2>2, PassedValue
  <2>. QED
    BY <1>3, <2>1, <2>2, <2>3, PassedValue
<1>. QED
  BY <1>1, <1>2, <1>3 DEF IInv, Rotation

\* Select throws only after int.MaxValue was drawn.
THEOREM NegativesOverflowed == Spec => []NegativeOnlyAfterOverflow
BY NegativeAfterLargest, Invariance, PTL

\* A counter only moves forward, one value at a time.
THEOREM CountersAdvance == Spec => CounterNeverGoesBack
<1>. DEFINE Forward ==
       \A k \in Key : RoundCache'[k] # RoundCache[k] =>
         IF RoundCache[k] = NoIndex THEN RoundCache'[k] = 0
                                    ELSE RoundCache'[k] = Inc(RoundCache[k])
<1>1. IInv /\ [Next]_vars => [Forward]_vars
  <2>. SUFFICES ASSUME IInv, Next PROVE Forward
    BY DEF Forward
  <2>1. ASSUME NEW p \in Caller, TryAdd(p) PROVE Forward
    BY <2>1 DEF IInv, TypeOK, TryAdd
  <2>2. ASSUME NEW p \in Caller, TryUpdate(p) PROVE Forward
    BY <2>2 DEF IInv, TypeOK, TryUpdate
  <2>3. ASSUME NEW p \in Caller, NEW k \in Key, TryGetValue(p, k) PROVE Forward
    BY <2>3 DEF TryGetValue
  <2>4. ASSUME NEW p \in Caller, Return(p) PROVE Forward
    BY <2>4 DEF Return
  <2>. QED
    BY <2>1, <2>2, <2>3, <2>4 DEF Next
<1>. QED
  BY <1>1, Invariance, PTL DEF Spec, CounterNeverGoesBack

----------------------------------------------------------------------------
(***************************************************************************)
(* The router uses the policy as its specification allows.                 *)
(***************************************************************************)
\* A caller inside FindRouterPoint knows its request, and only a caller in one
\* of the three branches that select is inside Select.
RouterIInv ==
  /\ pc \in [Caller -> {"idle", "read", "drawn"}]
  /\ at \in [Caller -> {"idle", "message", "service", "toCategory", "category",
                        "found"}]
  /\ request \in [Caller -> Request \cup {NoRequest}]
  /\ \A p \in Caller : at[p] # "idle" => request[p] \in Request
  /\ \A p \in Caller : pc[p] # "idle" => at[p] \in {"message", "service", "category"}

\* The keys that are looked up for a request are keys of the counters.
LEMMA RequestKeys ==
  ASSUME NEW r \in Request
  PROVE  KeyService(r) \in Key /\ KeyMessage(r) \in Key /\ KeyCategory(r) \in Key
BY RequestKeysAssumption

\* The initial states satisfy the invariant.
LEMMA RouterInitInv == RouterInit => RouterIInv
BY DEF RouterInit, Init, RouterIInv

\* The router's steps keep it.
LEMMA RouterStepInv == RouterIInv /\ [RouterNext]_allVars => RouterIInv'
<1>. SUFFICES ASSUME RouterIInv, [RouterNext]_allVars PROVE RouterIInv'
  OBVIOUS
<1>1. ASSUME NEW p \in Caller, NEW r \in Request, FindRouterPoint(p, r)
      PROVE  RouterIInv'
  <2>1. request' = [request EXCEPT ![p] = r]
    BY <1>1 DEF FindRouterPoint
  <2>2. \/ /\ at' = [at EXCEPT ![p] = "message"]
           /\ pc' = [pc EXCEPT ![p] = "read"]
        \/ /\ at' = [at EXCEPT ![p] = "service"]
           /\ pc' = [pc EXCEPT ![p] = "read"]
        \/ /\ at' = [at EXCEPT ![p] = "toCategory"]
           /\ at[p] = "idle"
           /\ pc' = pc
    BY <1>1 DEF FindRouterPoint, TryGetValue, vars
  <2>. QED
    BY <2>1, <2>2 DEF RouterIInv
<1>2. ASSUME NEW p \in Caller, SelectEndPoint(p) PROVE RouterIInv'
  <2>1. /\ pc' = [pc EXCEPT ![p] = "drawn"] /\ pc[p] = "read"
        /\ at' = at /\ request' = request
    BY <1>2 DEF SelectEndPoint, TryAdd, TryUpdate, Draw, routing
  <2>. QED
    BY <2>1 DEF RouterIInv
<1>3. ASSUME NEW p \in Caller, SelectReturns(p) PROVE RouterIInv'
  <2>1. /\ request' = request /\ pc[p] = "drawn"
        /\ pc' = [pc EXCEPT ![p] = "idle"]
    BY <1>3 DEF SelectReturns, Return
  <2>2. \/ at' = [at EXCEPT ![p] = "toCategory"]
        \/ at' = [at EXCEPT ![p] = "found"]
    BY <1>3 DEF SelectReturns
  <2>. QED
    BY <2>1, <2>2 DEF RouterIInv
<1>4. ASSUME NEW p \in Caller, FindCategory(p) PROVE RouterIInv'
  <2>1. request' = request /\ at[p] = "toCategory"
    BY <1>4 DEF FindCategory
  <2>2. \/ /\ at' = [at EXCEPT ![p] = "category"]
           /\ pc' = [pc EXCEPT ![p] = "read"]
        \/ /\ at' = [at EXCEPT ![p] = "found"]
           /\ pc' = pc
    BY <1>4 DEF FindCategory, TryGetValue, vars
  <2>. QED
    BY <2>1, <2>2 DEF RouterIInv
<1>5. ASSUME NEW p \in Caller, Found(p) PROVE RouterIInv'
  <2>1. /\ at[p] = "found" /\ at' = [at EXCEPT ![p] = "idle"] /\ pc' = pc
        /\ request' = [request EXCEPT ![p] = NoRequest]
    BY <1>5 DEF Found, vars
  <2>. QED
    BY <2>1 DEF RouterIInv
<1>6. CASE UNCHANGED allVars
  BY <1>6 DEF allVars, vars, routing, RouterIInv
<1>. QED
  BY <1>1, <1>2, <1>3, <1>4, <1>5, <1>6 DEF RouterNext

\* A step of the router is a step of the policy or leaves the policy alone.
LEMMA RouterStepIsPolicyStep == RouterIInv /\ [RouterNext]_allVars => [Next]_vars
<1>. SUFFICES ASSUME RouterIInv, [RouterNext]_allVars PROVE [Next]_vars
  OBVIOUS
<1>1. ASSUME NEW p \in Caller, NEW r \in Request, FindRouterPoint(p, r)
      PROVE  [Next]_vars
  BY <1>1, RequestKeys DEF FindRouterPoint, Next
<1>2. ASSUME NEW p \in Caller, SelectEndPoint(p) PROVE [Next]_vars
  BY <1>2 DEF SelectEndPoint, Next
<1>3. ASSUME NEW p \in Caller, SelectReturns(p) PROVE [Next]_vars
  BY <1>3 DEF SelectReturns, Next
<1>4. ASSUME NEW p \in Caller, FindCategory(p) PROVE [Next]_vars
  <2>1. KeyCategory(request[p]) \in Key
    BY <1>4, RequestKeys DEF FindCategory, RouterIInv
  <2>. QED
    BY <1>4, <2>1 DEF FindCategory, Next
<1>5. ASSUME NEW p \in Caller, Found(p) PROVE [Next]_vars
  BY <1>5 DEF Found, vars
<1>6. CASE UNCHANGED allVars
  BY <1>6 DEF allVars
<1>. QED
  BY <1>1, <1>2, <1>3, <1>4, <1>5, <1>6 DEF RouterNext

\* DefaultServiceRouter drives RoundrobinRoutingPolicy as module RoundRobin
\* describes: every behaviour of the router is one of the policy.
THEOREM RouterImplementsPolicy == RouterSpec => Spec
<1>1. RouterInit => Init
  BY DEF RouterInit
<1>. QED
  BY <1>1, RouterInitInv, RouterStepInv, RouterStepIsPolicyStep, PTL
  DEF RouterSpec, Spec

\* Routing by message, service and group at the same time, with selections whose
\* result is dropped, leaves no configured endpoint out of the rotation.
THEOREM RouterSkipsNothing == RouterSpec => []NoEndpointSkipped
BY RouterImplementsPolicy, NothingSkipped, PTL

----------------------------------------------------------------------------
(***************************************************************************)
(* The routing table.  Of the sorting, the proofs use only that it keeps   *)
(* the points: they hold for any other order too.                          *)
(***************************************************************************)
LEMMA SwapKeeps ==
  ASSUME NEW P, NEW s \in Seq(P), NEW i \in 1..Len(s), NEW j \in 1..Len(s)
  PROVE  LET t == SwapIfGreater(s, i, j) IN
         t \in Seq(P) /\ Len(t) = Len(s) /\ Range(t) = Range(s)
<1> DEFINE t == SwapIfGreater(s, i, j)
           u == [s EXCEPT ![i] = s[j], ![j] = s[i]]
<1>1. CASE t = s
  BY <1>1
<1>2. CASE t = u
  <2>1. Len(s) \in Nat /\ s \in [1..Len(s) -> P] /\ DOMAIN s = 1..Len(s)
    BY LenProperties
  <2>2. s[i] \in P /\ s[j] \in P
    BY <2>1
  <2>3. u \in [1..Len(s) -> P]
    BY <2>1, <2>2
  <2>4. u \in Seq(P) /\ Len(u) = Len(s) /\ DOMAIN u = 1..Len(s)
    <3> HIDE DEF u
    <3> QED
      BY <2>1, <2>3
  <2>5. u[j] = s[i] /\ u[i] = s[j] /\ \A k \in 1..Len(s) : k # i /\ k # j => u[k] = s[k]
    BY <2>1
  <2> HIDE DEF u
  <2>6. Range(u) = Range(s)
    <3>1. ASSUME NEW k \in 1..Len(s) PROVE u[k] \in Range(s) /\ s[k] \in Range(u)
      <4>1. \A x \in 1..Len(s) : s[x] \in Range(s) /\ u[x] \in Range(u)
        BY <2>1, <2>4, Zenon DEF Range
      <4> QED
        BY <2>5, <4>1
    <3>2. Range(u) \subseteq Range(s)
      BY <2>4, <3>1 DEF Range
    <3>3. Range(s) \subseteq Range(u)
      BY <2>1, <3>1 DEF Range
    <3> QED
      BY <3>2, <3>3
  <2> QED
    BY <1>2, <2>4, <2>6
<1>3. t = s \/ t = u
  BY DEF SwapIfGreater
<1> QED
  BY <1>1, <1>2, <1>3

LEMMA SortKeeps ==
  ASSUME NEW P, NEW s \in Seq(P)
  PROVE  SortByWeight(s) \in Seq(P) /\ Range(SortByWeight(s)) = Range(s)
<1>1. CASE Len(s) = 2
  <2>1. SortByWeight(s) = SwapIfGreater(s, 1, 2)
    BY <1>1 DEF SortByWeight
  <2>2. 1 \in 1..Len(s) /\ 2 \in 1..Len(s)
    BY <1>1
  <2> QED
    BY <2>1, <2>2, SwapKeeps
<1>2. CASE Len(s) = 3
  <2> DEFINE t == SwapIfGreater(s, 1, 2)
             u == SwapIfGreater(t, 1, 3)
             v == SwapIfGreater(u, 2, 3)
  <2>1. SortByWeight(s) = v
    BY <1>2 DEF SortByWeight
  <2>2. 1 \in 1..3 /\ 2 \in 1..3 /\ 3 \in 1..3
    OBVIOUS
  <2>3. t \in Seq(P) /\ Len(t) = 3 /\ Range(t) = Range(s)
    BY <1>2, <2>2, SwapKeeps
  <2> HIDE DEF t
  <2>4. u \in Seq(P) /\ Len(u) = 3 /\ Range(u) = Range(s)
    BY <2>2, <2>3, SwapKeeps
  <2> HIDE DEF u
  <2>5. v \in Seq(P) /\ Range(v) = Range(s)
    <3>1. 2 \in 1..Len(u) /\ 3 \in 1..Len(u)
      BY <2>4
    <3> QED
      BY <2>4, <3>1, SwapKeeps
  <2> QED
    BY <2>1, <2>5
<1>3. CASE Len(s) # 2 /\ Len(s) # 3
  BY <1>3 DEF SortByWeight
<1> QED
  BY <1>1, <1>2, <1>3

\* What Initialize computes, as tables of more and more entries.
Tables(t, es) ==
  /\ t[0] = [k \in Key |-> <<>>]
  /\ \A n \in 1..Len(es) : t[n] = AddRouter(t[n - 1], es[n].key, es[n].cfg)

\* Points of an entry.
PointsOf(cfg) == [i \in DOMAIN cfg.remotes |-> Remote(cfg.remotes[i], cfg.weight)]

LEMMA PointsOfEntry ==
  ASSUME NEW cfg, IsList(cfg.remotes)
  PROVE  /\ PointsOf(cfg) \in Seq(Range(PointsOf(cfg)))
         /\ \A x : x \in Range(PointsOf(cfg)) <=>
              \E a \in Range(cfg.remotes) : x = Remote(a, cfg.weight)
<1> DEFINE s == cfg.remotes
           n == Len(s)
           p == PointsOf(cfg)
<1>1. s \in Seq(Range(s))
  BY DEF IsList
<1>2. n \in Nat /\ DOMAIN s = 1..n
  BY <1>1, LenProperties
<1>3. p = [i \in 1..n |-> Remote(s[i], cfg.weight)]
  BY <1>2 DEF PointsOf
<1> HIDE DEF n, s, p
<1>4. DOMAIN p = 1..n /\ \A i \in 1..n : p[i] = Remote(s[i], cfg.weight)
  BY <1>3, Zenon
<1>5. p \in [1..n -> Range(p)]
  BY <1>3, <1>4 DEF Range
<1>6. p \in Seq(Range(p))
  BY <1>2, <1>5
<1>7. ASSUME NEW x
      PROVE  x \in Range(p) <=> \E a \in Range(s) : x = Remote(a, cfg.weight)
  <2>1. x \in Range(p) <=> \E i \in 1..n : x = Remote(s[i], cfg.weight)
    BY <1>4, Zenon DEF Range
  <2>2. ASSUME NEW a PROVE a \in Range(s) <=> \E i \in 1..n : a = s[i]
    BY <1>2, Zenon DEF Range
  <2> QED
    BY <2>1, <2>2, Zenon
<1> QED
  BY <1>6, <1>7 DEF p, s

\* One more entry: its points are with those of the same key.
Added(P, t, u, key, cfg) ==
  /\ u \in [Key -> Seq(P)]
  /\ \A k \in Key \ {key} : u[k] = t[k]
  /\ key \in Key => Range(u[key]) = Range(t[key]) \cup Range(PointsOf(cfg))

\* AddRouter adds the points of an entry to those that its key has.
LEMMA EntryAdded ==
  ASSUME NEW P, NEW t \in [Key -> Seq(P)], NEW key, NEW cfg,
         IsList(cfg.remotes), Range(PointsOf(cfg)) \subseteq P
  PROVE  Added(P, t, AddRouter(t, key, cfg), key, cfg)
<1> DEFINE u == AddRouter(t, key, cfg)
           s == SortByWeight(t[key] \o PointsOf(cfg))
<1>1. u = [t EXCEPT ![key] = s]
  BY DEF AddRouter, PointsOf
<1>2. ASSUME key \in Key
      PROVE  /\ s \in Seq(P)
             /\ Range(s) = Range(t[key]) \cup Range(PointsOf(cfg))
  <2> DEFINE a == t[key]
             b == PointsOf(cfg)
  <2>1. a \in Seq(P)
    BY <1>2
  <2>2. b \in Seq(P)
    <3>1. b \in Seq(Range(b)) /\ Range(b) \subseteq P
      BY PointsOfEntry
    <3> HIDE DEF b
    <3> QED
      BY <3>1, SeqMonotonic
  <2> HIDE DEF a, b
  <2>3. a \o b \in Seq(P)
    BY <2>1, <2>2, ConcatProperties
  <2>4. Range(a \o b) = Range(a) \cup Range(b)
    BY <2>1, <2>2, RangeConcatenation
  <2> QED
    BY <2>3, <2>4, SortKeeps DEF a, b
<1> HIDE DEF s, u
<1>3. u \in [Key -> Seq(P)]
  BY <1>1, <1>2
<1>4. /\ \A k \in Key \ {key} : u[k] = t[k]
      /\ key \in Key => u[key] = s
  BY <1>1
<1>5. Added(P, t, u, key, cfg)
  BY <1>2, <1>3, <1>4 DEF Added
<1> QED
  BY <1>5 DEF u

\* The points of a key are those of the entries with that key, so far.
Holds(t, es, n) ==
  \A k \in Key : \A x :
    x \in Range(t[k]) <=>
      \E i \in 1..n : es[i].key = k /\ x \in Range(PointsOf(es[i].cfg))

AllPoints(es) == UNION {Range(PointsOf(es[i].cfg)) : i \in 1..Len(es)}

LEMMA TablesHold ==
  ASSUME NEW es, Len(es) \in Nat, NEW t, Tables(t, es),
         \A i \in 1..Len(es) : IsList(es[i].cfg.remotes)
  PROVE  t[Len(es)] \in [Key -> Seq(AllPoints(es))] /\ Holds(t[Len(es)], es, Len(es))
<1> DEFINE m == Len(es)
           P == AllPoints(es)
           S == {n \in 0..m : t[n] \in [Key -> Seq(P)] /\ Holds(t[n], es, n)}
<1>1. 0 \in S
  <2> DEFINE none == [k \in Key |-> <<>>]
  <2>1. none \in [Key -> Seq(P)]
    <3>1. <<>> \in Seq(P)
      BY EmptySeq
    <3> QED
      BY <3>1
  <2>2. Range(<<>>) = {}
    BY DEF Range
  <2>3. Holds(none, es, 0)
    BY <2>2 DEF Holds
  <2>4. t[0] = none /\ 0 \in 0..m
    BY DEF Tables
  <2> QED
    BY <2>1, <2>3, <2>4
<1>2. ASSUME NEW n \in 0..m, n < m, n \in S PROVE n + 1 \in S
  <2> DEFINE e == es[n + 1]
             u == t[n + 1]
  <2>1. n + 1 \in 1..m /\ n + 1 \in 0..m /\ (n + 1) - 1 = n
    BY <1>2
  <2>2. u = AddRouter(t[n], e.key, e.cfg)
    BY <2>1 DEF Tables
  <2>3. IsList(e.cfg.remotes)
    BY <2>1
  <2>4. Range(PointsOf(e.cfg)) \subseteq P
    BY <2>1 DEF AllPoints
  <2>5. t[n] \in [Key -> Seq(P)] /\ Holds(t[n], es, n)
    BY <1>2
  <2> DEFINE key == e.key
             cfg == e.cfg
             points == Range(PointsOf(cfg))
  <2>6. /\ u \in [Key -> Seq(P)]
        /\ \A k \in Key \ {key} : u[k] = t[n][k]
        /\ key \in Key => Range(u[key]) = Range(t[n][key]) \cup points
    <3> HIDE DEF P, key, cfg, u
    <3> DEFINE s == t[n]
    <3>1. s \in [Key -> Seq(P)]
      BY <2>5
    <3>2. u = AddRouter(s, key, cfg) /\ IsList(cfg.remotes)
          /\ Range(PointsOf(cfg)) \subseteq P
      BY <2>2, <2>3, <2>4 DEF key, cfg
    <3> HIDE DEF s
    <3>3. Added(P, s, AddRouter(s, key, cfg), key, cfg)
      BY <3>1, <3>2, EntryAdded
    <3>4. Added(P, s, u, key, cfg)
      BY <3>2, <3>3
    <3> QED
      BY <3>4 DEF s, Added
  <2> HIDE DEF u, P
  <2>7. Holds(u, es, n + 1)
    <3> SUFFICES ASSUME NEW k \in Key, NEW x
        PROVE  x \in Range(u[k]) <=>
                 \E i \in 1..(n + 1) : es[i].key = k /\ x \in Range(PointsOf(es[i].cfg))
      BY DEF Holds
    <3> DEFINE Of(i) == es[i].key = k /\ x \in Range(PointsOf(es[i].cfg))
    <3>1. x \in Range(t[n][k]) <=> \E i \in 1..n : Of(i)
      BY <2>5, Zenon DEF Holds
    <3>2. x \in Range(u[k]) <=> (x \in Range(t[n][k]) \/ Of(n + 1))
      <4>1. CASE k = key
        BY <4>1, <2>6
      <4>2. CASE k # key
        BY <4>2, <2>6
      <4> QED
        BY <4>1, <4>2
    <3>3. 1..(n + 1) = 1..n \cup {n + 1}
      BY <1>2
    <3> HIDE DEF Of
    <3>4. (\E i \in 1..(n + 1) : Of(i)) <=> ((\E i \in 1..n : Of(i)) \/ Of(n + 1))
      BY <3>3, Zenon
    <3>5. x \in Range(u[k]) <=> \E i \in 1..(n + 1) : Of(i)
      BY <3>1, <3>2, <3>4, Zenon
    <3> QED
      BY <3>5, Zenon DEF Of
  <2> QED
    BY <2>1, <2>6, <2>7 DEF u
<1> HIDE DEF S
<1>3. 0..m \subseteq S
  BY <1>1, <1>2, IntervalInduction
<1>4. m \in S
  BY <1>3
<1> QED
  BY <1>4 DEF S

\* A function over the indices of a list is a list of the same length.
LEMMA ListOver ==
  ASSUME NEW s, IsList(s), NEW f, DOMAIN f = DOMAIN s, f = [i \in DOMAIN f |-> f[i]]
  PROVE  f \in Seq(Range(f)) /\ Len(f) \in Nat /\ DOMAIN f = 1..Len(f)
<1>1. s \in Seq(Range(s))
  BY DEF IsList
<1> DEFINE n == Len(s)
<1>2. n \in Nat /\ DOMAIN s = 1..n
  BY <1>1, LenProperties
<1> HIDE DEF n
<1>3. f \in [1..n -> Range(f)]
  <2>1. \A i \in 1..n : f[i] \in Range(f)
    BY <1>2 DEF Range
  <2> QED
    BY <1>2, <2>1
<1>4. f \in Seq(Range(f))
  BY <1>2, <1>3
<1> QED
  BY <1>4, LenProperties

\* What Entries lists.
IsEntry(e, o) ==
  \/ \E c \in Range(o.messages) : e = Entry(<<c.service, c.message>>, c)
  \/ \E c \in Range(o.services) : e = Entry(<<c.service, "0">>, c)
  \/ \E c \in Range(o.categories) : e = Entry(c.group, c)

LEMMA EntriesOf ==
  ASSUME NEW o \in Options
  PROVE  /\ Len(Entries(o)) \in Nat
         /\ DOMAIN Entries(o) = 1..Len(Entries(o))
         /\ \A e : e \in Range(Entries(o)) <=> IsEntry(e, o)
         /\ \A i \in 1..Len(Entries(o)) : IsList(Entries(o)[i].cfg.remotes)
<1> DEFINE ms == o.messages
           ss == o.services
           cs == o.categories
           m == [i \in DOMAIN ms |-> Entry(<<ms[i].service, ms[i].message>>, ms[i])]
           s == [i \in DOMAIN ss |-> Entry(<<ss[i].service, "0">>, ss[i])]
           c == [i \in DOMAIN cs |-> Entry(cs[i].group, cs[i])]
           es == Entries(o)
<1>1. es = m \o s \o c
  BY DEF Entries
<1>2. IsList(ms) /\ IsList(ss) /\ IsList(cs)
  BY OptionsAssumption
<1>3. \A l \in {ms, ss, cs} : \A x \in Range(l) : IsList(x.remotes)
  BY OptionsAssumption
<1> HIDE DEF ms, ss, cs
<1>4. /\ DOMAIN m = DOMAIN ms
      /\ \A i \in DOMAIN ms : m[i] = Entry(<<ms[i].service, ms[i].message>>, ms[i])
      /\ m = [i \in DOMAIN m |-> m[i]]
  OBVIOUS
<1>5. /\ DOMAIN s = DOMAIN ss
      /\ \A i \in DOMAIN ss : s[i] = Entry(<<ss[i].service, "0">>, ss[i])
      /\ s = [i \in DOMAIN s |-> s[i]]
  OBVIOUS
<1>6. /\ DOMAIN c = DOMAIN cs
      /\ \A i \in DOMAIN cs : c[i] = Entry(cs[i].group, cs[i])
      /\ c = [i \in DOMAIN c |-> c[i]]
  OBVIOUS
<1> HIDE DEF m, s, c, es
<1>7. m \in Seq(Range(m)) /\ s \in Seq(Range(s)) /\ c \in Seq(Range(c))
  BY <1>2, <1>4, <1>5, <1>6, ListOver
<1> DEFINE E == Range(m) \cup Range(s) \cup Range(c)
<1>8. m \in Seq(E) /\ s \in Seq(E) /\ c \in Seq(E)
  BY <1>7, SeqMonotonic
<1>9. m \o s \in Seq(E) /\ Range(m \o s) = Range(m) \cup Range(s)
  <2> HIDE DEF E
  <2> QED
    BY <1>8, ConcatProperties, RangeConcatenation
<1>10. es \in Seq(E) /\ Range(es) = E
  <2>1. es \in Seq(E) /\ Range(es) = Range(m \o s) \cup Range(c)
    <3> DEFINE b == m \o s
    <3>1. b \in Seq(E) /\ es = b \o c /\ c \in Seq(E)
      BY <1>1, <1>8, <1>9
    <3> HIDE DEF E, b
    <3>2. es \in Seq(E) /\ Range(es) = Range(b) \cup Range(c)
      BY <3>1, ConcatProperties, RangeConcatenation
    <3> QED
      BY <3>2 DEF b
  <2> QED
    BY <1>9, <2>1
<1> HIDE DEF E
<1>11. Len(es) \in Nat /\ DOMAIN es = 1..Len(es)
  BY <1>10, LenProperties
<1>12. ASSUME NEW e
       PROVE  /\ e \in Range(m) <=>
                   \E x \in Range(ms) : e = Entry(<<x.service, x.message>>, x)
              /\ e \in Range(s) <=> \E x \in Range(ss) : e = Entry(<<x.service, "0">>, x)
              /\ e \in Range(c) <=> \E x \in Range(cs) : e = Entry(x.group, x)
  <2>1. e \in Range(m) <=> \E x \in Range(ms) : e = Entry(<<x.service, x.message>>, x)
    BY <1>4, Zenon DEF Range
  <2>2. e \in Range(s) <=> \E x \in Range(ss) : e = Entry(<<x.service, "0">>, x)
    BY <1>5, Zenon DEF Range
  <2>3. e \in Range(c) <=> \E x \in Range(cs) : e = Entry(x.group, x)
    BY <1>6, Zenon DEF Range
  <2> QED
    BY <2>1, <2>2, <2>3
<1>13. ASSUME NEW e PROVE e \in Range(es) <=> IsEntry(e, o)
  BY <1>10, <1>12 DEF E, IsEntry, ms, ss, cs
<1>14. ASSUME NEW i \in 1..Len(es) PROVE IsList(es[i].cfg.remotes)
  <2>1. es[i] \in Range(es)
    BY <1>11 DEF Range
  <2>2. CASE es[i] \in Range(m)
    <3>1. PICK x \in Range(ms) : es[i] = Entry(<<x.service, x.message>>, x)
      BY <1>12, <2>2
    <3> QED
      BY <1>3, <3>1 DEF Entry
  <2>3. CASE es[i] \in Range(s)
    <3>1. PICK x \in Range(ss) : es[i] = Entry(<<x.service, "0">>, x)
      BY <1>12, <2>3
    <3> QED
      BY <1>3, <3>1 DEF Entry
  <2>4. CASE es[i] \in Range(c)
    <3>1. PICK x \in Range(cs) : es[i] = Entry(x.group, x)
      BY <1>12, <2>4
    <3> QED
      BY <1>3, <3>1 DEF Entry
  <2> QED
    BY <1>10, <2>1, <2>2, <2>3, <2>4 DEF E
<1> QED
  BY <1>11, <1>13, <1>14 DEF es

\* Initialize computes the last of the tables.
LEMMA InitializeTable ==
  ASSUME NEW o \in Options
  PROVE  \E t : Tables(t, Entries(o)) /\ Initialize(o) = t[Len(Entries(o))]
<1> DEFINE es == Entries(o)
           n == Len(es)
           P == AllPoints(es)
           V == [Key -> Seq(P)]
           none == [k \in Key |-> <<>>]
           step == [i \in 1..n |-> [v \in V |-> AddRouter(v, es[i].key, es[i].cfg)]]
<1>1. n \in Nat /\ \A i \in 1..n : IsList(es[i].cfg.remotes)
  BY EntriesOf
<1>2. none \in V
  <2>1. <<>> \in Seq(P)
    BY EmptySeq
  <2> QED
    BY <2>1
<1>3. Stepping(step, n, V)
  <2>1. ASSUME NEW i \in 1..n, NEW v \in V PROVE AddRouter(v, es[i].key, es[i].cfg) \in V
    <3>1. Range(PointsOf(es[i].cfg)) \subseteq P /\ IsList(es[i].cfg.remotes)
      BY <1>1 DEF AllPoints
    <3> HIDE DEF P
    <3> QED
      BY <3>1, EntryAdded DEF Added
  <2> HIDE DEF V, es, n
  <2> QED
    BY <2>1 DEF Stepping
<1>4. \A i \in 1..n : \A v \in V : step[i][v] = AddRouter(v, es[i].key, es[i].cfg)
  <2> HIDE DEF V, es, n
  <2> QED
    OBVIOUS
<1> HIDE DEF es, n, V, none, step
<1>5. PICK h \in [0..n -> V] : h[0] = none /\ \A i \in 1..n : h[i] = step[i][h[i - 1]]
  BY <1>1, <1>2, <1>3, RecursionExists
<1>6. \A i \in 1..n : h[i] = AddRouter(h[i - 1], es[i].key, es[i].cfg)
  <2> SUFFICES ASSUME NEW i \in 1..n
      PROVE  h[i] = AddRouter(h[i - 1], es[i].key, es[i].cfg)
    OBVIOUS
  <2>1. i - 1 \in 0..n
    BY <1>1
  <2>2. h[i - 1] \in V
    BY <1>5, <2>1
  <2> QED
    BY <1>4, <1>5, <2>2
<1> DEFINE Grows(f) == f = [i \in 0..n |-> IF i = 0 THEN [k \in Key |-> <<>>]
                             ELSE AddRouter(f[i - 1], es[i].key, es[i].cfg)]
<1>7. Grows(h)
  <2>1. ASSUME NEW i \in 0..n
        PROVE  h[i] = IF i = 0 THEN none
                      ELSE AddRouter(h[i - 1], es[i].key, es[i].cfg)
    <3>1. i = 0 \/ i \in 1..n
      BY <1>1
    <3> QED
      BY <1>5, <1>6, <3>1
  <2>2. h = [i \in 0..n |-> IF i = 0 THEN none
                             ELSE AddRouter(h[i - 1], es[i].key, es[i].cfg)]
    BY <1>5, <2>1
  <2> QED
    BY <2>2 DEF none
<1> DEFINE f == CHOOSE f : Grows(f)
<1>8. Grows(f)
  <2> HIDE DEF Grows
  <2> QED
    BY <1>7
<1>9. Initialize(o) = f[n]
  BY Zenon DEF Initialize, n, es
<1> HIDE DEF f
<1>10. Tables(f, es)
  <2>1. f[0] = none
    BY <1>1, <1>8 DEF none
  <2>2. ASSUME NEW i \in 1..n PROVE f[i] = AddRouter(f[i - 1], es[i].key, es[i].cfg)
    <3>1. i \in 0..n /\ i # 0
      BY <1>1
    <3> QED
      BY <1>8, <3>1, Zenon
  <2> QED
    BY <2>1, <2>2, Zenon DEF Tables, none, n
<1> QED
  BY <1>9, <1>10 DEF es, n

\* A point that an entry gives to a key.
IsPoint(x, k, o) ==
  \E e : /\ IsEntry(e, o)
        /\ e.key = k
        /\ \E a \in Range(e.cfg.remotes) : x = Remote(a, e.cfg.weight)

\* The points of a key in the routing table are those of the entries with that key.
LEMMA TableHolds ==
  ASSUME NEW o \in Options, NEW k \in Key
  PROVE  /\ Initialize(o)[k] \in Seq(AllPoints(Entries(o)))
         /\ \A x : x \in Range(Initialize(o)[k]) <=> IsPoint(x, k, o)
<1> DEFINE es == Entries(o)
           n == Len(es)
<1>1. /\ n \in Nat
      /\ DOMAIN es = 1..n
      /\ \A e : e \in Range(es) <=> IsEntry(e, o)
      /\ \A i \in 1..n : IsList(es[i].cfg.remotes)
  BY EntriesOf
<1>2. PICK t : Tables(t, es) /\ Initialize(o) = t[n]
  BY InitializeTable
<1> HIDE DEF es
<1>3. Initialize(o) \in [Key -> Seq(AllPoints(es))] /\ Holds(Initialize(o), es, n)
  BY <1>1, <1>2, TablesHold
<1>4. ASSUME NEW x
      PROVE  x \in Range(Initialize(o)[k]) <=> IsPoint(x, k, o)
  <2>1. x \in Range(Initialize(o)[k]) <=>
          \E i \in 1..n : es[i].key = k /\ x \in Range(PointsOf(es[i].cfg))
    BY <1>3, Zenon DEF Holds
  <2>2. ASSUME NEW i \in 1..n
        PROVE  x \in Range(PointsOf(es[i].cfg)) <=>
                 \E a \in Range(es[i].cfg.remotes) : x = Remote(a, es[i].cfg.weight)
    BY <1>1, PointsOfEntry
  <2>3. \A e : IsEntry(e, o) <=> \E i \in 1..n : e = es[i]
    BY <1>1, Zenon DEF Range
  <2> DEFINE Fits(e) == /\ e.key = k
                          /\ \E a \in Range(e.cfg.remotes) : x = Remote(a, e.cfg.weight)
  <2>4. x \in Range(Initialize(o)[k]) <=> \E i \in 1..n : Fits(es[i])
    BY <2>1, <2>2
  <2> HIDE DEF Fits
  <2>5. x \in Range(Initialize(o)[k]) <=> \E e : IsEntry(e, o) /\ Fits(e)
    BY <2>3, <2>4, Zenon
  <2> QED
    BY <2>5, Zenon DEF Fits, IsPoint
<1> QED
  BY <1>3, <1>4 DEF es

----------------------------------------------------------------------------
(***************************************************************************)
(* Where a request goes.  The invariant ties the key a caller selects for  *)
(* to its request and to what the table lacks: that the message's key has  *)
(* no points is what makes the category's points the right ones.           *)
(***************************************************************************)
OnTheWay(p) ==
  LET r == request[p] IN
  /\ at[p] = "message" => Routed(KeyMessage(r)) /\ serviceKey[p] = KeyMessage(r)
  /\ at[p] \in {"service", "toCategory", "category"} => ~Routed(KeyMessage(r))
  /\ at[p] = "service" => Routed(KeyService(r)) /\ serviceKey[p] = KeyService(r)
  /\ at[p] = "category" => Routed(KeyCategory(r)) /\ serviceKey[p] = KeyCategory(r)

Arrived(p) ==
  LET r == request[p] IN
  at[p] = "found" =>
    \/ point[p] = Thrown /\ Overflowed(r)
    \/ point[p] \in Range(_routeCache[KeyMessage(r)])
    \/ /\ ~Routed(KeyMessage(r))
       /\ \/ point[p] \in Range(_routeCache[KeyCategory(r)])
          \/ point[p] = Local /\ ~Routed(KeyCategory(r))

Made == options \in Options /\ _routeCache = Initialize(options)

Route ==
  /\ Made
  /\ DOMAIN point = Caller
  /\ \A p \in Caller : OnTheWay(p) /\ Arrived(p)

\* A key that is routed has points, in a list.
LEMMA RoutedPoints ==
  ASSUME Made, NEW k \in Key
  PROVE  /\ IsList(_routeCache[k])
         /\ Routed(k) <=> Range(_routeCache[k]) # {}
<1> DEFINE s == _routeCache[k]
           P == AllPoints(Entries(options))
<1>1. s \in Seq(P)
  BY TableHolds DEF Made
<1> HIDE DEF P
<1>2. Len(s) \in Nat /\ DOMAIN s = 1..Len(s) /\ s \in [1..Len(s) -> P]
  BY <1>1, LenProperties
<1>3. s \in Seq(Range(s))
  <2>1. s \in [1..Len(s) -> Range(s)]
    <3> HIDE DEF s
    <3> QED
      BY <1>2 DEF Range
  <2> HIDE DEF s
  <2> QED
    BY <1>2, <2>1
<1>4. s # <<>> <=> Range(s) # {}
  <2>1. CASE Len(s) = 0
    <3>1. DOMAIN s = {} /\ s = <<>>
      BY <1>1, <1>2, <2>1, EmptySeq
    <3> QED
      BY <3>1 DEF Range
  <2>2. CASE Len(s) # 0
    <3>1. 1 \in DOMAIN s
      BY <1>2, <2>2
    <3>2. s # <<>>
      BY <2>2
    <3> QED
      BY <3>1, <3>2 DEF Range
  <2> QED
    BY <2>1, <2>2
<1> QED
  BY <1>3, <1>4 DEF IsList, Routed

\* An address is given to a key by an entry of the options.
Gives(k, a) ==
  \E e : IsEntry(e, options) /\ e.key = k /\ a \in Range(e.cfg.remotes)

\* The points of a key are remote, and their addresses those that are given to it.
LEMMA PointsGiven ==
  ASSUME Made, NEW k \in Key
  PROVE  /\ \A x \in Range(_routeCache[k]) : x.type = "remote" /\ Gives(k, x.address)
         /\ \A a : Gives(k, a) => \E x \in Range(_routeCache[k]) : x.address = a
         /\ Routed(k) <=> \E a : Gives(k, a)
<1> DEFINE T == Range(_routeCache[k])
<1>1. ASSUME NEW x PROVE x \in T <=> IsPoint(x, k, options)
  BY TableHolds DEF Made
<1> HIDE DEF T
<1>2. ASSUME NEW x \in T PROVE x.type = "remote" /\ Gives(k, x.address)
  <2>1. PICK e : /\ IsEntry(e, options)
                 /\ e.key = k
                 /\ \E a \in Range(e.cfg.remotes) : x = Remote(a, e.cfg.weight)
    BY <1>1 DEF IsPoint
  <2>2. PICK a \in Range(e.cfg.remotes) : x = Remote(a, e.cfg.weight)
    BY <2>1
  <2>3. x.type = "remote" /\ x.address = a
    BY <2>2 DEF Remote
  <2> QED
    BY <2>1, <2>3 DEF Gives
<1>3. ASSUME NEW a, Gives(k, a) PROVE \E x \in T : x.address = a
  <2>1. PICK e : IsEntry(e, options) /\ e.key = k /\ a \in Range(e.cfg.remotes)
    BY <1>3 DEF Gives
  <2> DEFINE x == Remote(a, e.cfg.weight)
  <2>2. x.address = a
    BY DEF Remote
  <2>3. x \in T
    BY <1>1, <2>1 DEF IsPoint
  <2> QED
    BY <2>2, <2>3
<1>4. Routed(k) <=> T # {}
  BY RoutedPoints DEF T
<1> QED
  BY <1>2, <1>3, <1>4 DEF T

\* What Select returns is a point of its key, unless it throws.
LEMMA SelectedPoint ==
  ASSUME Made, NEW p \in Caller, serviceKey[p] \in Key, Routed(serviceKey[p]),
         index[p] \in Index
  PROVE  IF Selected(p) = Thrown
           THEN index[p] < 0
           ELSE Selected(p) \in Range(_routeCache[serviceKey[p]])
<1> DEFINE s == _routeCache[serviceKey[p]]
           n == Len(s)
           i == Position(index[p], n)
<1>1. s \in Seq(Range(s)) /\ s # <<>>
  BY RoutedPoints DEF IsList, Routed
<1>2. Selected(p) = IF i < 0 THEN Thrown ELSE s[i + 1]
  BY DEF Selected
<1> HIDE DEF s
<1>3. n \in Nat \ {0} /\ DOMAIN s = 1..n
  BY <1>1, EmptySeq, LenProperties
<1>4. index[p] \in Int
  BY RoundRobinAssumption DEF Index, MinIndex
<1> HIDE DEF n
<1>5. i \in Int /\ ((i < 0 /\ index[p] < 0) \/ i + 1 \in 1..n)
  BY <1>3, <1>4 DEF Position
<1>6. i + 1 \in 1..n => s[i + 1] \in Range(s)
  BY <1>3 DEF Range
<1> HIDE DEF i
<1>7. \A x \in Range(s) : x # Thrown
  BY PointsGiven DEF s, Thrown
<1> QED
  BY <1>2, <1>3, <1>5, <1>6, <1>7 DEF s

\* The initial states satisfy the invariant.
LEMMA RouteInit == RouterInit => Route
BY DEF RouterInit, Route, Made, OnTheWay, Arrived

\* What was drawn stays drawn.
LEMMA DrawnGrows ==
  ASSUME IInv, RouterIInv, [RouterNext]_allVars, NEW k \in Key
  PROVE  drawn[k] \subseteq drawn'[k]
<1>1. [Next]_vars
  BY RouterStepIsPolicyStep
<1>2. \/ drawn' = drawn
      \/ \E p \in Caller : \E i : drawn' = [drawn EXCEPT ![serviceKey[p]] = @ \cup {i}]
  BY <1>1 DEF Next, vars, TryGetValue, TryAdd, TryUpdate, Draw, Return
<1> QED
  BY <1>2 DEF IInv, TypeOK

\* A caller that a step does not concern is where it was.
LEMMA RouteKept ==
  ASSUME NEW q \in Caller, OnTheWay(q), Arrived(q), _routeCache' = _routeCache,
         at[q] = "found" => request[q] \in Request,
         \A k \in Key : drawn[k] \subseteq drawn'[k],
         at'[q] = at[q], request'[q] = request[q], point'[q] = point[q],
         serviceKey'[q] = serviceKey[q]
  PROVE  OnTheWay(q)' /\ Arrived(q)'
<1>1. OnTheWay(q)'
  BY DEF OnTheWay, Routed
<1>2. ASSUME request[q] \in Request, Overflowed(request[q]) PROVE Overflowed(request[q])'
  <2>1. PICK k \in {KeyMessage(request[q]), KeyService(request[q]), KeyCategory(request[q])} :
          MaxIndex \in drawn[k]
    BY <1>2 DEF Overflowed
  <2>2. k \in Key
    BY <1>2, <2>1, RequestKeys
  <2>3. MaxIndex \in drawn'[k]
    BY <2>1, <2>2
  <2> QED
    BY <2>1, <2>3 DEF Overflowed
<1>3. Arrived(q)'
  BY <1>2 DEF Arrived, Routed
<1> QED
  BY <1>1, <1>3

\* The router's steps keep the invariant.
LEMMA RouteStep ==
  RouterIInv /\ IInv /\ Route /\ [RouterNext]_allVars => Route'
<1> SUFFICES ASSUME RouterIInv, IInv, Route, [RouterNext]_allVars PROVE Route'
  OBVIOUS
<1>1. /\ at \in [Caller -> {"idle", "message", "service", "toCategory", "category",
                             "found"}]
      /\ request \in [Caller -> Request \cup {NoRequest}]
      /\ pc \in [Caller -> {"idle", "read", "drawn"}]
      /\ \A q \in Caller : at[q] # "idle" => request[q] \in Request
      /\ \A q \in Caller : pc[q] # "idle" => at[q] \in {"message", "service", "category"}
      /\ serviceKey \in [Caller -> Key \cup {NoKey}]
      /\ DOMAIN point = Caller
  BY DEF RouterIInv, IInv, TypeOK, Route
<1>2. /\ \A q \in Caller : OnTheWay(q) /\ Arrived(q)
      /\ \A k \in Key : drawn[k] \subseteq drawn'[k]
  BY DrawnGrows DEF Route
<1>3. ASSUME NEW p \in Caller, NEW r \in Request, FindRouterPoint(p, r) PROVE Route'
  <2>1. /\ at[p] = "idle"
        /\ request' = [request EXCEPT ![p] = r]
        /\ UNCHANGED <<options, _routeCache, point>>
        /\ pc[p] = "idle"
    BY <1>1, <1>3 DEF FindRouterPoint
  <2>2. \/ /\ Routed(KeyMessage(r))
           /\ serviceKey' = [serviceKey EXCEPT ![p] = KeyMessage(r)]
           /\ at' = [at EXCEPT ![p] = "message"]
        \/ /\ ~Routed(KeyMessage(r))
           /\ Routed(KeyService(r))
           /\ serviceKey' = [serviceKey EXCEPT ![p] = KeyService(r)]
           /\ at' = [at EXCEPT ![p] = "service"]
        \/ /\ ~Routed(KeyMessage(r))
           /\ at' = [at EXCEPT ![p] = "toCategory"]
           /\ UNCHANGED serviceKey
    BY <1>3 DEF FindRouterPoint, TryGetValue, vars
  <2>3. OnTheWay(p)' /\ Arrived(p)'
    BY <1>1, <2>1, <2>2 DEF OnTheWay, Arrived, Routed
  <2>4. ASSUME NEW q \in Caller, q # p PROVE OnTheWay(q)' /\ Arrived(q)'
    BY <1>1, <1>2, <2>1, <2>2, <2>4, RouteKept
  <2>. QED
    BY <1>1, <2>1, <2>3, <2>4 DEF Route, Made
<1>4. ASSUME NEW p \in Caller, SelectEndPoint(p) PROVE Route'
  <2>1. UNCHANGED <<options, _routeCache, at, request, point, serviceKey>>
    BY <1>4 DEF SelectEndPoint, TryAdd, TryUpdate, Draw, routing
  <2>. QED
    BY <2>1, <1>1, <1>2, RouteKept DEF Route, Made
<1>5. ASSUME NEW p \in Caller, SelectReturns(p) PROVE Route'
  <2>1. /\ pc[p] = "drawn"
        /\ serviceKey' = [serviceKey EXCEPT ![p] = NoKey]
        /\ UNCHANGED <<options, _routeCache, request, drawn>>
        /\ at[p] \in {"message", "service", "category"}
    BY <1>1, <1>5 DEF SelectReturns, Return
  <2>2. \/ /\ at[p] = "service"
           /\ at' = [at EXCEPT ![p] = "toCategory"]
           /\ UNCHANGED point
        \/ /\ at[p] # "service" \/ Selected(p) = Thrown
           /\ at' = [at EXCEPT ![p] = "found"]
           /\ point' = [point EXCEPT ![p] = Selected(p)]
    BY <1>5, <2>1 DEF SelectReturns
  <2> DEFINE r == request[p]
  <2>3. r \in Request /\ index[p] \in Index
    BY <1>1, <2>1 DEF IInv, TypeOK, Drawing
  <2>4. /\ serviceKey[p] \in Key
        /\ Routed(serviceKey[p])
        /\ at[p] = "message" => serviceKey[p] = KeyMessage(r)
        /\ at[p] # "message" => ~Routed(KeyMessage(r))
        /\ at[p] = "category" => serviceKey[p] = KeyCategory(r)
    BY <1>2, <2>1, <2>3, RequestKeys DEF OnTheWay
  <2>5. IF Selected(p) = Thrown
          THEN Overflowed(r)
          ELSE Selected(p) \in Range(_routeCache[serviceKey[p]])
    <3>1. IF Selected(p) = Thrown
            THEN index[p] < 0
            ELSE Selected(p) \in Range(_routeCache[serviceKey[p]])
      BY <2>3, <2>4, SelectedPoint DEF Route
    <3>2. index[p] < 0 => MaxIndex \in drawn[serviceKey[p]]
      BY <2>1, NegativeAfterLargest DEF NegativeOnlyAfterOverflow
    <3>3. serviceKey[p] \in {KeyMessage(r), KeyService(r), KeyCategory(r)}
      BY <1>2, <2>1 DEF OnTheWay
    <3> QED
      BY <3>1, <3>2, <3>3 DEF Overflowed
  <2>6. OnTheWay(p)' /\ Arrived(p)'
    <3>1. CASE at'[p] = "toCategory"
      BY <1>1, <2>1, <2>2, <2>4, <3>1 DEF OnTheWay, Arrived, Routed
    <3>2. CASE at'[p] # "toCategory"
      <4>1. at'[p] = "found" /\ point'[p] = Selected(p) /\ request'[p] = r
        BY <1>1, <2>1, <2>2, <3>2
      <4>2. Overflowed(r) => Overflowed(request[p])'
        BY <2>1 DEF Overflowed
      <4>3. Selected(p) # Thrown => at[p] # "service"
        BY <1>1, <2>1, <2>2, <3>2
      <4>4. \/ point'[p] = Thrown /\ Overflowed(request[p])'
            \/ point'[p] \in Range(_routeCache[KeyMessage(r)])
            \/ /\ ~Routed(KeyMessage(r))
               /\ point'[p] \in Range(_routeCache[KeyCategory(r)])
        BY <2>1, <2>4, <2>5, <4>1, <4>2, <4>3
      <4> QED
        BY <2>1, <4>1, <4>4 DEF OnTheWay, Arrived, Routed
    <3> QED
      BY <3>1, <3>2
  <2>7. ASSUME NEW q \in Caller, q # p PROVE OnTheWay(q)' /\ Arrived(q)'
    BY <1>1, <1>2, <2>1, <2>2, <2>7, RouteKept
  <2>. QED
    BY <1>1, <2>1, <2>2, <2>6, <2>7 DEF Route, Made
<1>6. ASSUME NEW p \in Caller, FindCategory(p) PROVE Route'
  <2> DEFINE r == request[p]
  <2>1. /\ at[p] = "toCategory"
        /\ UNCHANGED <<options, _routeCache, request>>
    BY <1>6 DEF FindCategory
  <2>2. \/ /\ Routed(KeyCategory(r))
           /\ serviceKey' = [serviceKey EXCEPT ![p] = KeyCategory(r)]
           /\ at' = [at EXCEPT ![p] = "category"]
           /\ UNCHANGED point
        \/ /\ ~Routed(KeyCategory(r))
           /\ at' = [at EXCEPT ![p] = "found"]
           /\ point' = [point EXCEPT ![p] = Local]
           /\ UNCHANGED serviceKey
    BY <1>6 DEF FindCategory, TryGetValue, vars
  <2>3. ~Routed(KeyMessage(r))
    BY <1>2, <2>1 DEF OnTheWay
  <2>4. OnTheWay(p)' /\ Arrived(p)'
    BY <1>1, <2>1, <2>2, <2>3 DEF OnTheWay, Arrived, Routed
  <2>5. ASSUME NEW q \in Caller, q # p PROVE OnTheWay(q)' /\ Arrived(q)'
    BY <1>1, <1>2, <2>1, <2>2, <2>5, RouteKept
  <2>. QED
    BY <1>1, <2>1, <2>2, <2>4, <2>5 DEF Route, Made
<1>7. ASSUME NEW p \in Caller, Found(p) PROVE Route'
  <2>1. /\ at' = [at EXCEPT ![p] = "idle"]
        /\ request' = [request EXCEPT ![p] = NoRequest]
        /\ point' = [point EXCEPT ![p] = Nothing]
        /\ UNCHANGED <<options, _routeCache, serviceKey>>
    BY <1>7 DEF Found, vars
  <2>2. OnTheWay(p)' /\ Arrived(p)'
    BY <1>1, <2>1 DEF OnTheWay, Arrived
  <2>3. ASSUME NEW q \in Caller, q # p PROVE OnTheWay(q)' /\ Arrived(q)'
    BY <1>1, <1>2, <2>1, <2>3, RouteKept
  <2>. QED
    BY <1>1, <2>1, <2>2, <2>3 DEF Route, Made
<1>8. CASE UNCHANGED allVars
  <2>1. UNCHANGED <<options, _routeCache, at, request, point, serviceKey>>
    BY <1>8 DEF allVars, vars, routing
  <2>. QED
    BY <2>1, <1>1, <1>2, RouteKept DEF Route, Made
<1>. QED
  BY <1>3, <1>4, <1>5, <1>6, <1>7, <1>8 DEF RouterNext

\* The invariant, of the table and of every caller: the two theorems that follow are
\* read off it.
THEOREM RouteInvariant == RouterSpec => []Route
<1>1. RouterSpec => []RouterIInv
  BY RouterInitInv, RouterStepInv, PTL DEF RouterSpec
<1>2. RouterSpec => []IInv
  BY RouterImplementsPolicy, Invariance, PTL
<1>. QED
  BY <1>1, <1>2, RouteInit, RouteStep, PTL DEF RouterSpec

\* The entries that give an address to a key, kind by kind.
LEMMA GivesIs ==
  ASSUME NEW k, NEW a
  PROVE  Gives(k, a) <=>
           \/ \E c \in Range(options.messages) :
                <<c.service, c.message>> = k /\ a \in Range(c.remotes)
           \/ \E c \in Range(options.services) :
                <<c.service, "0">> = k /\ a \in Range(c.remotes)
           \/ \E c \in Range(options.categories) :
                c.group = k /\ a \in Range(c.remotes)
<1> DEFINE InMessages == \E c \in Range(options.messages) :
             <<c.service, c.message>> = k /\ a \in Range(c.remotes)
           InServices == \E c \in Range(options.services) :
             <<c.service, "0">> = k /\ a \in Range(c.remotes)
           InCategories == \E c \in Range(options.categories) :
             c.group = k /\ a \in Range(c.remotes)
<1>1. \A x, c : Entry(x, c).key = x /\ Entry(x, c).cfg = c
  BY DEF Entry
<1>2. ASSUME Gives(k, a) PROVE InMessages \/ InServices \/ InCategories
  <2>1. PICK e : IsEntry(e, options) /\ e.key = k /\ a \in Range(e.cfg.remotes)
    BY <1>2 DEF Gives
  <2>2. CASE \E c \in Range(options.messages) : e = Entry(<<c.service, c.message>>, c)
    <3>1. PICK c \in Range(options.messages) : e = Entry(<<c.service, c.message>>, c)
      BY <2>2
    <3>2. e.key = <<c.service, c.message>> /\ e.cfg = c
      BY <1>1, <3>1
    <3> QED
      BY <2>1, <3>1, <3>2
  <2>3. CASE \E c \in Range(options.services) : e = Entry(<<c.service, "0">>, c)
    <3>1. PICK c \in Range(options.services) : e = Entry(<<c.service, "0">>, c)
      BY <2>3
    <3>2. e.key = <<c.service, "0">> /\ e.cfg = c
      BY <1>1, <3>1
    <3> QED
      BY <2>1, <3>1, <3>2
  <2>4. CASE \E c \in Range(options.categories) : e = Entry(c.group, c)
    <3>1. PICK c \in Range(options.categories) : e = Entry(c.group, c)
      BY <2>4
    <3>2. e.key = c.group /\ e.cfg = c
      BY <1>1, <3>1
    <3> QED
      BY <2>1, <3>1, <3>2
  <2> QED
    BY <2>1, <2>2, <2>3, <2>4, Zenon DEF IsEntry
<1>3. ASSUME InMessages PROVE Gives(k, a)
  <2>1. PICK c \in Range(options.messages) :
          <<c.service, c.message>> = k /\ a \in Range(c.remotes)
    BY <1>3
  <2> DEFINE e == Entry(k, c)
  <2>2. IsEntry(e, options)
    BY <2>1, Zenon DEF IsEntry
  <2>3. e.key = k /\ e.cfg = c
    BY <1>1
  <2> HIDE DEF e
  <2>4. a \in Range(e.cfg.remotes)
    BY <2>1, <2>3
  <2> QED
    BY <2>2, <2>3, <2>4, Zenon DEF Gives
<1>4. ASSUME InServices PROVE Gives(k, a)
  <2>1. PICK c \in Range(options.services) :
          <<c.service, "0">> = k /\ a \in Range(c.remotes)
    BY <1>4
  <2> DEFINE e == Entry(k, c)
  <2>2. IsEntry(e, options)
    BY <2>1, Zenon DEF IsEntry
  <2>3. e.key = k /\ e.cfg = c
    BY <1>1
  <2> HIDE DEF e
  <2>4. a \in Range(e.cfg.remotes)
    BY <2>1, <2>3
  <2> QED
    BY <2>2, <2>3, <2>4, Zenon DEF Gives
<1>5. ASSUME InCategories PROVE Gives(k, a)
  <2>1. PICK c \in Range(options.categories) : c.group = k /\ a \in Range(c.remotes)
    BY <1>5
  <2> DEFINE e == Entry(k, c)
  <2>2. IsEntry(e, options)
    BY <2>1, Zenon DEF IsEntry
  <2>3. e.key = k /\ e.cfg = c
    BY <1>1
  <2> HIDE DEF e
  <2>4. a \in Range(e.cfg.remotes)
    BY <2>1, <2>3
  <2> QED
    BY <2>2, <2>3, <2>4, Zenon DEF Gives
<1> QED
  BY <1>2, <1>3, <1>4, <1>5

\* The addresses of a message's key are those the options have for the message.
LEMMA MessageGiven ==
  ASSUME NEW r, NEW a
  PROVE  a \in OfMessage(r) <=> Gives(<<r.service, r.message>>, a)
<1> DEFINE k == <<r.service, r.message>>
<1>1. a \in OfMessage(r) <=>
        \/ \E c \in Range(options.messages) :
             /\ c.service = r.service /\ c.message = r.message
             /\ a \in Range(c.remotes)
        \/ \E c \in Range(options.services) :
             /\ r.message = "0" /\ c.service = r.service
             /\ a \in Range(c.remotes)
        \/ \E c \in Range(options.categories) : c.group = k /\ a \in Range(c.remotes)
  BY DEF OfMessage, Addresses
<1>2. Gives(k, a) <=>
        \/ \E c \in Range(options.messages) :
             <<c.service, c.message>> = k /\ a \in Range(c.remotes)
        \/ \E c \in Range(options.services) :
             <<c.service, "0">> = k /\ a \in Range(c.remotes)
        \/ \E c \in Range(options.categories) : c.group = k /\ a \in Range(c.remotes)
  BY GivesIs
<1>3. \A x, y : <<x, y>> = k <=> x = r.service /\ y = r.message
  OBVIOUS
<1> QED
  BY <1>1, <1>2, <1>3

\* The keys of a request whose group's name has no dot.
LEMMA PlainKeys ==
  ASSUME NEW r \in Request, Len(r.group) = 1
  PROVE  /\ KeyMessage(r) = <<r.service, r.message>>
         /\ KeyCategory(r) = IF r.group = <<"">> THEN <<"default">> ELSE r.group
<1> DEFINE g == r.group
           t == <<r.service, r.message>>
<1>1. g \in Seq(Range(g))
  BY RequestKeysAssumption DEF IsList
<1> DEFINE P == Range(g) \cup {r.service, r.message}
<1>2. g \in Seq(P) /\ t \in Seq(P) /\ Len(t) = 2 /\ t[1] = r.service /\ t[2] = r.message
  BY <1>1
<1> HIDE DEF P, t
<1>3. Parts(r) = g \o t
  BY DEF Parts, t
<1> HIDE DEF g
<1>4. Len(g) = 1
  BY DEF g
<1>5. (g \o t)[1] = g[1] /\ (g \o t)[2] = t[1] /\ (g \o t)[3] = t[2]
  <2> DEFINE j == g \o t
  <2>1. \A i \in 1..Len(g) + Len(t) :
          j[i] = IF i <= Len(g) THEN g[i] ELSE t[i - Len(g)]
    BY <1>2, ConcatProperties, Zenon
  <2> HIDE DEF j
  <2>2. j[1] = g[1] /\ j[2] = t[1] /\ j[3] = t[2]
    BY <1>2, <1>4, <2>1
  <2> QED
    BY <2>2 DEF j
<1>6. g = <<g[1]>>
  BY <1>2, <1>4
<1>7. KeyMessage(r) = <<r.service, r.message>>
  BY <1>2, <1>3, <1>5 DEF KeyMessage
<1>8. KeyCategory(r) = IF g[1] = "" THEN <<"default">> ELSE <<g[1]>>
  BY <1>3, <1>5 DEF KeyCategory
<1>9. g = <<"">> <=> g[1] = ""
  <2>1. g[1] = "" => g = <<"">>
    BY <1>6, Zenon
  <2>2. \A x : <<x>>[1] = x
    OBVIOUS
  <2>3. g = <<"">> => g[1] = ""
    BY <2>2, Zenon
  <2> QED
    BY <2>1, <2>3
<1> QED
  BY <1>6, <1>7, <1>8, <1>9 DEF g

\* The addresses of a group's key are those the options have for the group.
LEMMA GroupGiven ==
  ASSUME NEW r \in Request, Len(r.group) = 1, NEW a
  PROVE  a \in OfGroup(r) <=> Gives(KeyCategory(r), a)
<1> DEFINE k == KeyCategory(r)
<1>1. a \in OfGroup(r) <=>
        \E c \in Range(options.categories) : c.group = k /\ a \in Range(c.remotes)
  BY PlainKeys DEF OfGroup, Addresses
<1>2. \A x, y : <<x, y>> # k
  BY DEF KeyCategory
<1>3. Gives(k, a) <=>
        \/ \E c \in Range(options.messages) :
             <<c.service, c.message>> = k /\ a \in Range(c.remotes)
        \/ \E c \in Range(options.services) :
             <<c.service, "0">> = k /\ a \in Range(c.remotes)
        \/ \E c \in Range(options.categories) : c.group = k /\ a \in Range(c.remotes)
  BY GivesIs
<1> QED
  BY <1>1, <1>2, <1>3

\* Initialize loses nothing: whatever options the router is made with, every address
\* they have for a message or for a group is in the list that its key goes round.
THEOREM TableLosesNothing == RouterSpec => []NothingConfiguredIsLost
<1>1. Made => NothingConfiguredIsLost
  <2> SUFFICES ASSUME Made, NEW r \in Request
      PROVE  /\ OfMessage(r) \subseteq
                  {_routeCache[<<r.service, r.message>>][i].address :
                     i \in DOMAIN _routeCache[<<r.service, r.message>>]}
             /\ Len(r.group) = 1 => OfGroup(r) \subseteq
                  {_routeCache[KeyCategory(r)][i].address :
                     i \in DOMAIN _routeCache[KeyCategory(r)]}
    BY DEF NothingConfiguredIsLost
  <2>1. ASSUME NEW k \in Key, NEW a, Gives(k, a)
        PROVE  a \in {_routeCache[k][i].address : i \in DOMAIN _routeCache[k]}
    BY <2>1, PointsGiven DEF Range
  <2>2. <<r.service, r.message>> \in Key /\ KeyCategory(r) \in Key
    BY RequestKeysAssumption
  <2>3. \A a \in OfMessage(r) : Gives(<<r.service, r.message>>, a)
    BY MessageGiven
  <2>4. Len(r.group) = 1 => \A a \in OfGroup(r) : Gives(KeyCategory(r), a)
    BY GroupGiven
  <2> QED
    BY <2>1, <2>2, <2>3, <2>4
<1>2. Route => Made
  BY DEF Route
<1> QED
  BY <1>1, <1>2, RouteInvariant, PTL

\* FindRouterPoint finds the right point: whatever the other callers do to the
\* counters, a request of a group with a plain name goes to an address configured for
\* its message, else to one configured for its group, else it is local.
THEOREM RoutesRight == RouterSpec => []RightRoute
<1>1. RouterIInv /\ Route => RightRoute
  <2> SUFFICES ASSUME RouterIInv, Route, NEW p \in Caller,
                      at[p] = "found", Len(request[p].group) = 1
      PROVE  LET r == request[p] IN
             IF point[p] = Thrown THEN Overflowed(r)
             ELSE IF OfMessage(r) # {}
               THEN point[p].type = "remote" /\ point[p].address \in OfMessage(r)
               ELSE IF OfGroup(r) # {}
                 THEN point[p].type = "remote" /\ point[p].address \in OfGroup(r)
                 ELSE point[p] = Local
    BY DEF RightRoute
  <2> DEFINE r == request[p]
             x == point[p]
  <2>1. r \in Request /\ Len(r.group) = 1
    BY DEF RouterIInv
  <2>2. Made /\ Arrived(p)
    BY DEF Route
  <2>3. \/ x = Thrown /\ Overflowed(r)
        \/ x \in Range(_routeCache[KeyMessage(r)])
        \/ /\ ~Routed(KeyMessage(r))
           /\ \/ x \in Range(_routeCache[KeyCategory(r)])
              \/ x = Local /\ ~Routed(KeyCategory(r))
    BY <2>2 DEF Arrived
  <2> HIDE DEF r, x
  <2>4. /\ KeyMessage(r) \in Key /\ KeyCategory(r) \in Key
        /\ KeyMessage(r) = <<r.service, r.message>>
    BY <2>1, RequestKeys, PlainKeys
  <2>5. /\ \A a : a \in OfMessage(r) <=> Gives(KeyMessage(r), a)
        /\ \A a : a \in OfGroup(r) <=> Gives(KeyCategory(r), a)
    BY <2>1, <2>4, MessageGiven, GroupGiven
  <2>6. \A k \in {KeyMessage(r), KeyCategory(r)} :
          /\ \A y \in Range(_routeCache[k]) : y.type = "remote" /\ Gives(k, y.address)
          /\ Routed(k) <=> \E a : Gives(k, a)
    BY <2>2, <2>4, PointsGiven
  <2>7. /\ Routed(KeyMessage(r)) <=> OfMessage(r) # {}
        /\ Routed(KeyCategory(r)) <=> OfGroup(r) # {}
    BY <2>5, <2>6
  <2>8. CASE x \in Range(_routeCache[KeyMessage(r)])
    BY <2>5, <2>6, <2>8 DEF r, x, Thrown
  <2>9. CASE ~Routed(KeyMessage(r)) /\ x \in Range(_routeCache[KeyCategory(r)])
    BY <2>5, <2>6, <2>7, <2>9 DEF r, x, Thrown
  <2>10. CASE ~Routed(KeyMessage(r)) /\ x = Local /\ ~Routed(KeyCategory(r))
    BY <2>7, <2>10 DEF r, x, Thrown, Local
  <2>11. CASE x = Thrown /\ Overflowed(r)
    BY <2>11 DEF r, x
  <2> QED
    BY <2>3, <2>8, <2>9, <2>10, <2>11
<1>2. RouterSpec => []RouterIInv
  BY RouterInitInv, RouterStepInv, PTL DEF RouterSpec
<1> QED
  BY <1>1, <1>2, RouteInvariant, PTL
=============================================================================
