-------------------------- MODULE CallContextProofs --------------------------
(***************************************************************************)
(* Proofs about CallContext, for any finite set of calls and any keys.     *)
(***************************************************************************)
EXTENDS CallContext, FiniteSetTheorems, TLAPS

Quiet(x) == "counter" \notin overlapped[x]

Counted(x) == {c \in Call : context[c] = x /\ pc[c] \in Inside}

\* A call has a context as soon as it has begun.
Placed == \A c \in Call : pc[c] # "idle" => context[c] \in Call

\* Two calls in the middle of AddDef or CloseDef have been noted.
OneCounts ==
  \A c, d \in Call :
    c # d /\ context[c] = context[d] /\ pc[c] \in Counting /\ pc[d] \in Counting
    => ~Quiet(context[c])

\* What a call has read, or written, is what the counter still is.
ReadRight ==
  \A c \in Call : pc[c] \in {"entering", "leaving", "testing"} /\ Quiet(context[c])
    => read[c] = _refCount[context[c]]

\* The counter counts the calls inside.
CountRight ==
  \A x \in Call : Quiet(x) => _refCount[x] = Cardinality(Counted(x))

\* A call that disposes of its context is the last one there.
LastDisposes ==
  \A c \in Call : pc[c] = "disposing" /\ Quiet(context[c])
    => Counted(context[c]) = {}

\* A context without calls is empty, once the last call has looked.
EmptyWhenUnused ==
  \A x \in Call :
    Quiet(x) /\ Counted(x) = {} /\ _items[x] # {} =>
      \E c \in Call : context[c] = x /\ pc[c] \in {"testing", "disposing"}

CounterInv == ReadRight /\ CountRight /\ LastDisposes /\ EmptyWhenUnused

\* Two calls in the middle of a use of the items have been noted.
OneUses ==
  \A c, d \in Call :
    c # d /\ context[c] = context[d] /\ pc[c] = "accessing" /\ pc[d] \in Using
    => "items" \in overlapped[context[c]]

\* What ContainsKey has said is still so.
KeyAsSeen ==
  \A c \in Call :
    pc[c] = "accessing" /\ "items" \notin overlapped[context[c]] =>
      /\ access[c].present <=> access[c].key \in _items[context[c]]
      /\ access[c].op # "AddOrUpdate" => access[c].present

FailedBegan == \A c \in failed : pc[c] # "idle"

ItemsInv == OneUses /\ KeyAsSeen /\ FailedBegan /\ ThrowsOnlyInARace

----------------------------------------------------------------------------
LEMMA NoteEffect ==
  ASSUME TypeOK, NEW c \in Call, NEW x \in Call,
         NEW what \in {"counter", "items"}, NEW places, Note(c, x, what, places)
  PROVE  /\ overlapped' \in [Call -> SUBSET {"counter", "items"}]
         /\ \A y \in Call : overlapped[y] \subseteq overlapped'[y]
         /\ \A y \in Call : \A w \in {"counter", "items"} :
              w # what => (w \in overlapped'[y] <=> w \in overlapped[y])
         /\ Others(c, x, places) # {} => what \in overlapped'[x]
BY DEF Note, TypeOK

LEMMA CountedFinite ==
  ASSUME NEW x
  PROVE  IsFiniteSet(Counted(x)) /\ Cardinality(Counted(x)) \in Nat
<1>1. Counted(x) \in SUBSET Call
  BY DEF Counted
<1>2. IsFiniteSet(Counted(x))
  BY <1>1, CallAssumption, FS_Subset
<1> QED
  BY <1>2, FS_CardinalityType

LEMMA InitTyped == Init => TypeOK
BY DEF Init, TypeOK, NoAccess, Operation, Counting

LEMMA StepTyped == TypeOK /\ Placed /\ [Next]_vars => TypeOK' /\ Placed'
<1> SUFFICES ASSUME TypeOK, Placed, [Next]_vars
             PROVE  TypeOK' /\ Placed'
  OBVIOUS
<1> USE DEF TypeOK, Placed, Counting
<1>1. ASSUME NEW c \in Call, NEW x \in Call, AddDef(c, x)
      PROVE  TypeOK' /\ Placed'
  <2>1. overlapped' \in [Call -> SUBSET {"counter", "items"}]
    BY <1>1, NoteEffect DEF AddDef
  <2> QED
    BY <1>1, <2>1 DEF AddDef
<1>2. ASSUME NEW c \in Call, Enter(c)
      PROVE  TypeOK' /\ Placed'
  BY <1>2 DEF Enter
<1>3. ASSUME NEW c \in Call, NEW op \in Operation, NEW k \in Key, Ask(c, op, k)
      PROVE  TypeOK' /\ Placed'
  <2>1. context[c] \in Call
    BY <1>3 DEF Ask
  <2>2. overlapped' \in [Call -> SUBSET {"counter", "items"}]
    BY <1>3, <2>1, NoteEffect DEF Ask
  <2>3. access' \in [Call -> [op : Operation, key : Key \cup {NoContext},
                              present : BOOLEAN]]
    <3>1. [op |-> op, key |-> k, present |-> k \in _items[context[c]]]
            \in [op : Operation, key : Key \cup {NoContext}, present : BOOLEAN]
      OBVIOUS
    <3> QED
      BY <1>3, <3>1 DEF Ask
  <2> QED
    BY <1>3, <2>2, <2>3 DEF Ask
<1>4. ASSUME NEW c \in Call, Use(c)
      PROVE  TypeOK' /\ Placed'
  <2>1. context[c] \in Call
    BY <1>4 DEF Use
  <2>2. _items' \in [Call -> SUBSET Key]
    BY <1>4, <2>1 DEF Use, Operation
  <2> QED
    BY <1>4, <2>2 DEF Use, NoAccess, Operation
<1>5. ASSUME NEW c \in Call, CloseDef(c)
      PROVE  TypeOK' /\ Placed'
  <2>1. overlapped' \in [Call -> SUBSET {"counter", "items"}]
    BY <1>5, NoteEffect DEF CloseDef
  <2> QED
    BY <1>5, <2>1 DEF CloseDef
<1>6. ASSUME NEW c \in Call, Leave(c)
      PROVE  TypeOK' /\ Placed'
  BY <1>6 DEF Leave
<1>7. ASSUME NEW c \in Call, Test(c)
      PROVE  TypeOK' /\ Placed'
  <2>1. overlapped' \in [Call -> SUBSET {"counter", "items"}]
    BY <1>7, NoteEffect DEF Test
  <2> QED
    BY <1>7, <2>1 DEF Test
<1>8. ASSUME NEW c \in Call, Dispose(c)
      PROVE  TypeOK' /\ Placed'
  BY <1>8 DEF Dispose
<1>9. CASE UNCHANGED vars
  BY <1>9 DEF vars
<1> QED
  BY <1>1, <1>2, <1>3, <1>4, <1>5, <1>6, <1>7, <1>8, <1>9 DEF Next

\* The variables of a context keep their types.
THEOREM TypeCorrect == Spec => []TypeOK
<1>1. Init => TypeOK /\ Placed
  BY InitTyped DEF Init, Placed
<1> QED
  BY <1>1, StepTyped, PTL DEF Spec

----------------------------------------------------------------------------
(***************************************************************************)
(* The counter.                                                            *)
(***************************************************************************)

\* An operation that begins notes the others, or there are none.
LEMMA BeginsCounting ==
  ASSUME TypeOK, Placed, OneCounts, NEW c \in Call, NEW x \in Call,
         Note(c, x, "counter", Counting),
         pc[c] \notin Counting,
         pc' = [pc EXCEPT ![c] = "entering"] \/ pc' = [pc EXCEPT ![c] = "leaving"],
         context' = [context EXCEPT ![c] = x]
  PROVE  OneCounts'
<1> SUFFICES ASSUME NEW a \in Call, NEW b \in Call, a # b,
                    context'[a] = context'[b],
                    pc'[a] \in Counting, pc'[b] \in Counting
             PROVE  "counter" \in overlapped'[context'[a]]
  BY DEF OneCounts, Quiet
<1>1. \A y \in Call : overlapped[y] \subseteq overlapped'[y]
  BY NoteEffect
<1>2. CASE a = c \/ b = c
  <2>1. PICK d \in Call : d # c /\ d \in {a, b}
    BY <1>2
  <2>2. d \in Others(c, x, Counting) /\ context'[a] = x
    BY <1>2, <2>1 DEF Others, TypeOK, Counting
  <2> QED
    BY <2>2, NoteEffect
<1>3. CASE a # c /\ b # c
  <2>1. pc[a] \in Counting /\ pc[b] \in Counting /\ context[a] = context[b]
        /\ context'[a] = context[a]
    BY <1>3 DEF TypeOK, Counting
  <2>2. "counter" \in overlapped[context[a]]
    BY <2>1 DEF OneCounts, Quiet
  <2> QED
    BY <1>1, <2>1, <2>2 DEF Placed, Counting
<1> QED
  BY <1>2, <1>3

\* AddDef and CloseDef begin: the counter stays, and so do the calls it counts.
LEMMA BeginKeeps ==
  ASSUME TypeOK, Placed, OneCounts, CounterInv, NEW c \in Call, NEW x \in Call,
         Note(c, x, "counter", Counting),
         \/ pc[c] = "idle" /\ pc' = [pc EXCEPT ![c] = "entering"]
         \/ pc[c] = "inside" /\ context[c] = x
            /\ pc' = [pc EXCEPT ![c] = "leaving"],
         context' = [context EXCEPT ![c] = x],
         read' = [read EXCEPT ![c] = _refCount[x]],
         UNCHANGED <<_refCount, _items>>
  PROVE  CounterInv'
<1>1. \A y \in Call : Quiet(y)' => Quiet(y)
  BY NoteEffect DEF Quiet
<1>2. \A y : y \in Call => Counted(y)' = Counted(y)
  BY DEF TypeOK, Counted, Inside, Placed
<1>3. \A d \in Call \ {c} : pc'[d] = pc[d] /\ context'[d] = context[d]
                            /\ read'[d] = read[d]
  BY DEF TypeOK
<1>4. pc'[c] \in {"entering", "leaving"} /\ context'[c] = x /\ read'[c] = _refCount[x]
  BY DEF TypeOK
<1>5. ReadRight'
  <2> SUFFICES ASSUME NEW d \in Call, pc'[d] \in {"entering", "leaving", "testing"},
                      Quiet(context[d])'
               PROVE  read'[d] = _refCount'[context'[d]]
    BY DEF ReadRight
  <2>1. CASE d = c
    BY <2>1, <1>4
  <2>2. CASE d # c
    BY <2>2, <1>1, <1>3 DEF CounterInv, ReadRight, Placed
  <2> QED
    BY <2>1, <2>2
<1>6. CountRight'
  BY <1>1, <1>2 DEF CounterInv, CountRight
<1>7. LastDisposes'
  BY <1>1, <1>2, <1>3, <1>4 DEF CounterInv, LastDisposes, Placed
<1>8. EmptyWhenUnused'
  BY <1>1, <1>2, <1>3, <1>4 DEF CounterInv, EmptyWhenUnused, TypeOK
<1> QED
  BY <1>5, <1>6, <1>7, <1>8 DEF CounterInv

\* AddDef writes the counter.
LEMMA EnterCounts ==
  ASSUME TypeOK, Placed, OneCounts, CounterInv, NEW c \in Call, Enter(c)
  PROVE  CounterInv'
<1> DEFINE x == context[c]
<1>1. x \in Call /\ context' = context /\ overlapped' = overlapped
      /\ _items' = _items /\ read' = read /\ pc[c] = "entering"
      /\ pc' = [pc EXCEPT ![c] = "inside"]
      /\ _refCount' = [_refCount EXCEPT ![x] = read[c] + 1]
  BY DEF Enter, Placed
<1>2. \A y : Quiet(y)' <=> Quiet(y)
  BY <1>1 DEF Quiet
<1>3. Counted(x)' = Counted(x) \cup {c} /\ c \notin Counted(x)
      /\ \A y : y # x => Counted(y)' = Counted(y)
  BY <1>1 DEF Counted, Inside, TypeOK
<1>4. \A d \in Call : d # c /\ context[d] = x /\ pc[d] \in Counting => ~Quiet(x)
  BY <1>1 DEF OneCounts, Counting
<1>5. ReadRight'
  BY <1>1, <1>2, <1>4 DEF CounterInv, ReadRight, TypeOK, Counting, Placed
<1>6. CountRight'
  <2> SUFFICES ASSUME Quiet(x)
               PROVE  _refCount'[x] = Cardinality(Counted(x)')
    BY <1>1, <1>2, <1>3 DEF CounterInv, CountRight, TypeOK
  <2>1. read[c] = Cardinality(Counted(x))
    BY <1>1 DEF CounterInv, ReadRight, CountRight
  <2>2. Cardinality(Counted(x)') = Cardinality(Counted(x)) + 1
    BY <1>3, CountedFinite, FS_AddElement
  <2> QED
    BY <1>1, <2>1, <2>2 DEF TypeOK
<1>7. LastDisposes'
  BY <1>1, <1>2, <1>3, <1>4 DEF CounterInv, LastDisposes, TypeOK, Counting
<1>8. EmptyWhenUnused'
  <2> SUFFICES ASSUME NEW y \in Call, Quiet(y), Counted(y)' = {}, _items[y] # {}
               PROVE  \E d \in Call : context[d] = y
                                      /\ pc'[d] \in {"testing", "disposing"}
    BY <1>1, <1>2 DEF EmptyWhenUnused
  <2>1. y # x
    BY <1>1 DEF Counted, Inside, TypeOK
  <2>2. Counted(y) = {}
    BY <1>3, <2>1
  <2>3. PICK d \in Call : context[d] = y /\ pc[d] \in {"testing", "disposing"}
    BY <2>2 DEF CounterInv, EmptyWhenUnused
  <2>4. pc'[d] = pc[d]
    BY <1>1, <2>1, <2>3 DEF TypeOK
  <2> QED
    BY <2>3, <2>4
<1> QED
  BY <1>5, <1>6, <1>7, <1>8 DEF CounterInv

\* CloseDef writes the counter.
LEMMA LeaveCounts ==
  ASSUME TypeOK, Placed, OneCounts, CounterInv, NEW c \in Call, Leave(c)
  PROVE  CounterInv'
<1> DEFINE x == context[c]
<1>1. x \in Call /\ context' = context /\ overlapped' = overlapped
      /\ _items' = _items /\ read' = [read EXCEPT ![c] = @ - 1]
      /\ pc[c] = "leaving" /\ pc' = [pc EXCEPT ![c] = "testing"]
      /\ _refCount' = [_refCount EXCEPT ![x] = read[c] - 1]
  BY DEF Leave, Placed
<1>2. \A y : Quiet(y)' <=> Quiet(y)
  BY <1>1 DEF Quiet
<1>3. Counted(x)' = Counted(x) \ {c} /\ c \in Counted(x)
      /\ \A y : y # x => Counted(y)' = Counted(y)
  BY <1>1 DEF Counted, Inside, TypeOK
<1>4. \A d \in Call : d # c /\ context[d] = x /\ pc[d] \in Counting => ~Quiet(x)
  BY <1>1 DEF OneCounts, Counting
<1>5. ReadRight'
  BY <1>1, <1>2, <1>4 DEF CounterInv, ReadRight, TypeOK, Counting, Placed
<1>6. CountRight'
  <2> SUFFICES ASSUME Quiet(x)
               PROVE  _refCount'[x] = Cardinality(Counted(x)')
    BY <1>1, <1>2, <1>3 DEF CounterInv, CountRight, TypeOK
  <2>1. read[c] = Cardinality(Counted(x))
    BY <1>1 DEF CounterInv, ReadRight, CountRight
  <2>2. Cardinality(Counted(x)') = Cardinality(Counted(x)) - 1
    BY <1>3, CountedFinite, FS_RemoveElement
  <2> QED
    BY <1>1, <2>1, <2>2 DEF TypeOK
<1>7. LastDisposes'
  BY <1>1, <1>2, <1>3, <1>4 DEF CounterInv, LastDisposes, TypeOK, Counting
<1>8. EmptyWhenUnused'
  <2> SUFFICES ASSUME NEW y \in Call, Quiet(y), Counted(y)' = {}, _items[y] # {}
               PROVE  \E d \in Call : context[d] = y
                                      /\ pc'[d] \in {"testing", "disposing"}
    BY <1>1, <1>2 DEF EmptyWhenUnused
  <2>1. CASE y = x
    BY <1>1, <2>1 DEF TypeOK
  <2>2. CASE y # x
    <3>1. PICK d \in Call : context[d] = y /\ pc[d] \in {"testing", "disposing"}
      BY <1>3, <2>2 DEF CounterInv, EmptyWhenUnused
    <3> QED
      BY <1>1, <3>1 DEF TypeOK
  <2> QED
    BY <2>1, <2>2
<1> QED
  BY <1>5, <1>6, <1>7, <1>8 DEF CounterInv

\* CloseDef tests what it has written; both ways to read it give the number of
\* calls inside.
LEMMA TestTells ==
  ASSUME TypeOK, Placed, OneCounts, CounterInv, NEW c \in Call, Test(c)
  PROVE  CounterInv'
<1> DEFINE x == context[c]
<1>1. x \in Call /\ context' = context /\ read' = read /\ _refCount' = _refCount
      /\ _items' = _items /\ pc[c] = "testing"
      /\ pc' \in {[pc EXCEPT ![c] = "disposing"], [pc EXCEPT ![c] = "over"]}
  BY DEF Test, Placed
<1>2. \A y \in Call : Quiet(y)' <=> Quiet(y)
  BY <1>1, NoteEffect DEF Quiet, Test
<1>3. \A y : Counted(y)' = Counted(y)
  BY <1>1 DEF Counted, Inside, TypeOK
<1>4. ReadRight'
  BY <1>1, <1>2 DEF CounterInv, ReadRight, TypeOK, Placed
<1>5. CountRight'
  BY <1>1, <1>2, <1>3 DEF CounterInv, CountRight
<1>6. Quiet(x) => read[c] = Cardinality(Counted(x)) /\ _refCount[x] = read[c]
  BY <1>1 DEF CounterInv, ReadRight, CountRight
<1>7. Quiet(x) => (Cardinality(Counted(x)) <= 0 <=> Counted(x) = {})
  BY CountedFinite, FS_EmptySet
<1>8. Quiet(x) => IF Counted(x) = {} THEN pc' = [pc EXCEPT ![c] = "disposing"]
                                     ELSE pc' = [pc EXCEPT ![c] = "over"]
  BY <1>6, <1>7 DEF Test
<1>9. LastDisposes'
  <2> SUFFICES ASSUME NEW d \in Call, pc'[d] = "disposing", Quiet(context[d]),
                      NEW e \in Call, context[e] = context[d], pc[e] \in Inside
               PROVE  FALSE
    <3>1. \A e \in Call : pc'[e] \in Inside => pc[e] \in Inside
      BY <1>1 DEF Inside, TypeOK
    <3>2. \A d \in Call : pc'[d] = "disposing" => context[d] \in Call
      BY <1>1 DEF Placed, TypeOK
    <3> QED
      BY <1>1, <1>2, <3>1, <3>2 DEF LastDisposes, Counted
  <2>1. Counted(context[d]) # {}
    BY DEF Counted
  <2>2. CASE d = c
    BY <1>8, <2>1, <2>2 DEF TypeOK
  <2>3. CASE d # c
    BY <1>1, <2>1, <2>3 DEF CounterInv, LastDisposes, TypeOK
  <2> QED
    BY <2>2, <2>3
<1>10. EmptyWhenUnused'
  <2> SUFFICES ASSUME NEW y \in Call, Quiet(y), Counted(y) = {}, _items[y] # {}
               PROVE  \E d \in Call : context[d] = y
                                      /\ pc'[d] \in {"testing", "disposing"}
    BY <1>1, <1>2, <1>3 DEF EmptyWhenUnused
  <2>1. PICK d \in Call : context[d] = y /\ pc[d] \in {"testing", "disposing"}
    BY DEF CounterInv, EmptyWhenUnused
  <2>2. CASE d = c
    BY <1>8, <2>1, <2>2 DEF TypeOK
  <2>3. CASE d # c
    BY <1>1, <2>1, <2>3 DEF TypeOK
  <2> QED
    BY <2>2, <2>3
<1> QED
  BY <1>4, <1>5, <1>9, <1>10 DEF CounterInv

LEMMA DisposeEmpties ==
  ASSUME TypeOK, Placed, OneCounts, CounterInv, NEW c \in Call, Dispose(c)
  PROVE  CounterInv'
<1> DEFINE x == context[c]
<1>1. x \in Call /\ context' = context /\ read' = read /\ _refCount' = _refCount
      /\ overlapped' = overlapped /\ pc[c] = "disposing"
      /\ pc' = [pc EXCEPT ![c] = "over"] /\ _items' = [_items EXCEPT ![x] = {}]
  BY DEF Dispose, Placed
<1>2. \A y : Quiet(y)' <=> Quiet(y)
  BY <1>1 DEF Quiet
<1>3. \A y : Counted(y)' = Counted(y)
  BY <1>1 DEF Counted, Inside, TypeOK
<1>4. ReadRight' /\ CountRight'
  BY <1>1, <1>2, <1>3 DEF CounterInv, ReadRight, CountRight, TypeOK
<1>5. LastDisposes'
  BY <1>1, <1>2, <1>3 DEF CounterInv, LastDisposes, TypeOK
<1>6. EmptyWhenUnused'
  BY <1>1, <1>2, <1>3 DEF CounterInv, EmptyWhenUnused, TypeOK
<1> QED
  BY <1>4, <1>5, <1>6 DEF CounterInv

\* A use of the items needs somebody inside.
LEMMA UseCounts ==
  ASSUME TypeOK, Placed, OneCounts, CounterInv, NEW c \in Call,
         Use(c) \/ \E op \in Operation, k \in Key : Ask(c, op, k)
  PROVE  CounterInv'
<1> DEFINE x == context[c]
<1>1. x \in Call /\ context' = context /\ read' = read /\ _refCount' = _refCount
      /\ {pc[c], pc'[c]} \subseteq {"inside", "accessing"}
      /\ pc' = [pc EXCEPT ![c] = pc'[c]]
      /\ \A y \in Call : y # x => _items'[y] = _items[y]
  BY DEF Use, Ask, Placed, TypeOK
<1>2. \A y \in Call : Quiet(y)' <=> Quiet(y)
  BY <1>1, NoteEffect DEF Quiet, Use, Ask
<1>3. (\A y : Counted(y)' = Counted(y)) /\ c \in Counted(x)
  BY <1>1 DEF Counted, Inside, TypeOK
<1>4. ReadRight' /\ CountRight'
  BY <1>1, <1>2, <1>3 DEF CounterInv, ReadRight, CountRight, TypeOK, Placed
<1>5. LastDisposes'
  BY <1>1, <1>2, <1>3 DEF CounterInv, LastDisposes, TypeOK, Placed
<1>6. EmptyWhenUnused'
  BY <1>1, <1>2, <1>3 DEF CounterInv, EmptyWhenUnused, TypeOK
<1> QED
  BY <1>4, <1>5, <1>6 DEF CounterInv

\* Steps that begin no operation on the counter.
LEMMA OneCountsKept ==
  ASSUME TypeOK, Placed, OneCounts, NEW c \in Call,
         \/ Enter(c) \/ Leave(c) \/ Test(c) \/ Dispose(c) \/ Use(c)
         \/ \E op \in Operation, k \in Key : Ask(c, op, k)
  PROVE  OneCounts'
<1>1. /\ context' = context
      /\ \A y \in Call : overlapped[y] \subseteq overlapped'[y]
      /\ \A d \in Call : pc'[d] \in Counting => pc[d] \in Counting
  <2>1. context[c] \in Call
    BY DEF Enter, Leave, Test, Dispose, Use, Ask, Placed
  <2>2. \A y \in Call : overlapped[y] \subseteq overlapped'[y]
    BY <2>1, NoteEffect DEF Enter, Leave, Test, Dispose, Use, Ask
  <2> QED
    BY <2>2 DEF Enter, Leave, Test, Dispose, Use, Ask, TypeOK, Counting
<1> QED
  BY <1>1 DEF OneCounts, Quiet, Placed, Counting

LEMMA StepCounts ==
  TypeOK /\ Placed /\ OneCounts /\ CounterInv /\ [Next]_vars
    => OneCounts' /\ CounterInv'
<1> SUFFICES ASSUME TypeOK, Placed, OneCounts, CounterInv, [Next]_vars
             PROVE  OneCounts' /\ CounterInv'
  OBVIOUS
<1>1. ASSUME NEW c \in Call, NEW x \in Call, AddDef(c, x)
      PROVE  OneCounts' /\ CounterInv'
  <2>1. OneCounts'
    BY <1>1, BeginsCounting DEF AddDef, Counting
  <2>2. CounterInv'
    BY <1>1, BeginKeeps DEF AddDef
  <2> QED
    BY <2>1, <2>2
<1>2. ASSUME NEW c \in Call, CloseDef(c)
      PROVE  OneCounts' /\ CounterInv'
  <2>1. context' = [context EXCEPT ![c] = context[c]] /\ context[c] \in Call
    BY <1>2 DEF CloseDef, TypeOK, Placed
  <2>2. OneCounts'
    BY <1>2, <2>1, BeginsCounting DEF CloseDef, Counting
  <2>3. CounterInv'
    BY <1>2, <2>1, BeginKeeps DEF CloseDef
  <2> QED
    BY <2>2, <2>3
<1>3. ASSUME NEW c \in Call, Enter(c)
      PROVE  OneCounts' /\ CounterInv'
  BY <1>3, OneCountsKept, EnterCounts
<1>4. ASSUME NEW c \in Call, Leave(c)
      PROVE  OneCounts' /\ CounterInv'
  BY <1>4, OneCountsKept, LeaveCounts
<1>5. ASSUME NEW c \in Call, Test(c)
      PROVE  OneCounts' /\ CounterInv'
  BY <1>5, OneCountsKept, TestTells
<1>6. ASSUME NEW c \in Call, Dispose(c)
      PROVE  OneCounts' /\ CounterInv'
  BY <1>6, OneCountsKept, DisposeEmpties
<1>7. ASSUME NEW c \in Call,
             Use(c) \/ \E op \in Operation, k \in Key : Ask(c, op, k)
      PROVE  OneCounts' /\ CounterInv'
  BY <1>7, OneCountsKept, UseCounts
<1>8. CASE UNCHANGED vars
  <2>1. \A y : Counted(y)' = Counted(y)
    BY <1>8 DEF Counted, vars
  <2> QED
    BY <1>8, <2>1 DEF vars, OneCounts, Quiet, CounterInv, ReadRight, CountRight,
                      LastDisposes, EmptyWhenUnused
<1> QED
  BY <1>1, <1>2, <1>3, <1>4, <1>5, <1>6, <1>7, <1>8 DEF Next

LEMMA InitCounts == Init => Placed /\ OneCounts /\ CounterInv
<1> SUFFICES ASSUME Init
             PROVE  Placed /\ OneCounts /\ CounterInv
  OBVIOUS
<1>1. \A x \in Call : Counted(x) = {} /\ _refCount[x] = 0 /\ _items[x] = {}
  BY DEF Init, Counted, Inside
<1> QED
  BY <1>1, FS_EmptySet DEF Init, Placed, OneCounts, CounterInv, ReadRight,
       CountRight, LastDisposes, EmptyWhenUnused, Counting

LEMMA IInvHolds == Spec => [](TypeOK /\ Placed /\ OneCounts /\ CounterInv)
BY InitTyped, InitCounts, StepTyped, StepCounts, PTL DEF Spec

\* No call's items are taken from it by another call, unless their counts met.
THEOREM DisposedAlone == Spec => []DisposedOnlyWhenAlone
<1>1. CounterInv => DisposedOnlyWhenAlone
  BY DEF CounterInv, LastDisposes, DisposedOnlyWhenAlone, Others, Counted, Quiet
<1> QED
  BY <1>1, IInvHolds, PTL

\* A context is empty when its calls are over, unless their counts met.
THEOREM NothingIsLeft == Spec => []NothingLeftBehind
<1>1. CounterInv => NothingLeftBehind
  <2> SUFFICES ASSUME CounterInv, NEW x \in Call, Quiet(x),
                      \A c \in Call : context[c] = x => pc[c] = "over"
               PROVE  _items[x] = {} /\ _refCount[x] = 0
    BY DEF NothingLeftBehind, Quiet
  <2>1. Counted(x) = {}
    BY DEF Counted, Inside
  <2>2. _refCount[x] = 0
    BY <2>1, FS_EmptySet DEF CounterInv, CountRight
  <2>3. _items[x] = {}
    BY <2>1 DEF CounterInv, EmptyWhenUnused
  <2> QED
    BY <2>2, <2>3
<1> QED
  BY <1>1, IInvHolds, PTL

----------------------------------------------------------------------------
(***************************************************************************)
(* The items.                                                              *)
(***************************************************************************)

\* Steps on the counter leave the items, and what is known of them, alone.
LEMMA CountingLeavesItems ==
  ASSUME TypeOK, Placed, ItemsInv, NEW c \in Call,
         \/ \E x \in Call : AddDef(c, x)
         \/ Enter(c) \/ CloseDef(c) \/ Leave(c)
  PROVE  ItemsInv'
<1>1. /\ _items' = _items /\ access' = access /\ failed' = failed
      /\ \A d \in Call : pc[d] # "idle" => /\ context'[d] = context[d]
                                           /\ pc'[d] # "idle"
      /\ \A d \in Call : pc'[d] \in Using => pc[d] = pc'[d]
  BY DEF AddDef, Enter, CloseDef, Leave, TypeOK, Using
<1>2. \A y \in Call : "items" \in overlapped'[y] <=> "items" \in overlapped[y]
  <2>1. ASSUME NEW x \in Call, Note(c, x, "counter", Counting), NEW y \in Call
        PROVE  "items" \in overlapped'[y] <=> "items" \in overlapped[y]
    BY <2>1, NoteEffect
  <2>2. context[c] \in Call \/ pc[c] = "idle"
    BY DEF Placed
  <2> QED
    BY <2>1, <2>2 DEF AddDef, Enter, CloseDef, Leave
<1>3. failed \subseteq Call
  BY DEF TypeOK
<1> QED
  BY <1>1, <1>2, <1>3 DEF ItemsInv, OneUses, KeyAsSeen, FailedBegan,
       ThrowsOnlyInARace, Placed, Using

\* ContainsKey is asked: another use that is going on is noted.
LEMMA AskSees ==
  ASSUME TypeOK, Placed, ItemsInv, NEW c \in Call,
         NEW op \in Operation, NEW k \in Key, Ask(c, op, k)
  PROVE  ItemsInv'
<1> DEFINE x == context[c]
<1>1. /\ x \in Call /\ context' = context /\ _items' = _items /\ failed' = failed
      /\ pc[c] = "inside" /\ pc' = [pc EXCEPT ![c] = "accessing"]
      /\ access' = [access EXCEPT ![c] =
           [op |-> op, key |-> k, present |-> k \in _items[x]]]
      /\ op = "AddOrUpdate" \/ k \in _items[x]
  BY DEF Ask, Placed
<1>2. /\ \A y \in Call : overlapped[y] \subseteq overlapped'[y]
      /\ Others(c, x, Using) # {} => "items" \in overlapped'[x]
  BY <1>1, NoteEffect DEF Ask
<1>3. OneUses'
  BY <1>1, <1>2 DEF ItemsInv, OneUses, Others, Using, TypeOK, Placed
<1>4. KeyAsSeen'
  BY <1>1, <1>2 DEF ItemsInv, KeyAsSeen, TypeOK, Placed
<1>5. FailedBegan' /\ ThrowsOnlyInARace'
  BY <1>1, <1>2 DEF ItemsInv, FailedBegan, ThrowsOnlyInARace, TypeOK, Placed
<1> QED
  BY <1>3, <1>4, <1>5 DEF ItemsInv

\* The items are used, or disposed of: other uses of them were noted before.
LEMMA UseAsSeen ==
  ASSUME TypeOK, Placed, ItemsInv, NEW c \in Call, Use(c) \/ Dispose(c)
  PROVE  ItemsInv'
<1> DEFINE x == context[c]
<1>1. /\ x \in Call /\ context' = context /\ overlapped' = overlapped
      /\ pc[c] \in Using /\ pc'[c] \in {"inside", "over"}
      /\ pc' = [pc EXCEPT ![c] = pc'[c]]
      /\ \A y \in Call : y # x => _items'[y] = _items[y]
      /\ \A d \in Call : d # c => access'[d] = access[d]
  BY DEF Use, Dispose, Placed, TypeOK, Using
<1>2. OneUses'
  BY <1>1 DEF ItemsInv, OneUses, Using, TypeOK
<1>3. KeyAsSeen'
  BY <1>1 DEF ItemsInv, KeyAsSeen, OneUses, TypeOK, Placed
<1>4. \A d \in failed' : d \in failed \/ (d = c /\ pc[c] = "accessing" /\ Throws(c))
  BY DEF Use, Dispose
<1>5. pc[c] = "accessing" /\ Throws(c) => "items" \in overlapped[x]
  BY DEF ItemsInv, KeyAsSeen, Throws
<1>6. FailedBegan' /\ ThrowsOnlyInARace'
  BY <1>1, <1>4, <1>5 DEF ItemsInv, FailedBegan, ThrowsOnlyInARace, TypeOK, Using
<1> QED
  BY <1>2, <1>3, <1>6 DEF ItemsInv

LEMMA TestNotes ==
  ASSUME TypeOK, Placed, ItemsInv, NEW c \in Call, Test(c)
  PROVE  ItemsInv'
<1> DEFINE x == context[c]
<1>1. /\ x \in Call /\ context' = context /\ _items' = _items /\ access' = access
      /\ failed' = failed /\ pc[c] = "testing"
      /\ pc' \in {[pc EXCEPT ![c] = "disposing"], [pc EXCEPT ![c] = "over"]}
  BY DEF Test, Placed
<1>2. \A y \in Call : overlapped[y] \subseteq overlapped'[y]
  BY <1>1, NoteEffect DEF Test
<1>3. pc' = [pc EXCEPT ![c] = "disposing"] /\ Others(c, x, {"accessing"}) # {}
        => "items" \in overlapped'[x]
  <2> SUFFICES ASSUME pc' = [pc EXCEPT ![c] = "disposing"]
               PROVE  Others(c, x, {"accessing"}) # {} => "items" \in overlapped'[x]
    OBVIOUS
  <2>1. pc'[c] # "over"
    BY DEF TypeOK
  <2>2. Note(c, x, "items", {"accessing"})
    BY <2>1 DEF Test, TypeOK
  <2> QED
    BY <1>1, <2>2, NoteEffect
<1>4. OneUses'
  BY <1>1, <1>2, <1>3 DEF ItemsInv, OneUses, Others, Using, TypeOK, Placed
<1>5. KeyAsSeen'
  BY <1>1, <1>2 DEF ItemsInv, KeyAsSeen, TypeOK, Placed
<1>6. FailedBegan' /\ ThrowsOnlyInARace'
  BY <1>1, <1>2 DEF ItemsInv, FailedBegan, ThrowsOnlyInARace, TypeOK, Placed
<1> QED
  BY <1>4, <1>5, <1>6 DEF ItemsInv

LEMMA StepItems == TypeOK /\ Placed /\ ItemsInv /\ [Next]_vars => ItemsInv'
<1> SUFFICES ASSUME TypeOK, Placed, ItemsInv, [Next]_vars
             PROVE  ItemsInv'
  OBVIOUS
<1>1. CASE UNCHANGED vars
  BY <1>1 DEF vars, ItemsInv, OneUses, KeyAsSeen, FailedBegan, ThrowsOnlyInARace
<1> QED
  BY <1>1, CountingLeavesItems, AskSees, UseAsSeen, TestNotes DEF Next

\* ContainsKey can be relied on by calls that do not use the items at once.
THEOREM ThrowsInRacesOnly == Spec => []ThrowsOnlyInARace
<1>1. Init => Placed /\ ItemsInv
  BY DEF Init, Placed, ItemsInv, OneUses, KeyAsSeen, FailedBegan, ThrowsOnlyInARace
<1>2. ItemsInv => ThrowsOnlyInARace
  BY DEF ItemsInv
<1> QED
  BY <1>1, <1>2, InitTyped, StepTyped, StepItems, PTL DEF Spec
=============================================================================
