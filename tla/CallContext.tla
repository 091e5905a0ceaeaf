----------------------------- MODULE CallContext -----------------------------
(***************************************************************************)
(* CallContext (src/DotBPE.Rpc/Server/ICallContext.cs) and the interceptor *)
(* around every call of a service that enters and leaves it                *)
(* (src/DotBPE.Extra.Castle/CallContextServiceActorInterceptor.cs).        *)
(*                                                                         *)
(* The context is in an AsyncLocal: a call that finds none makes one, and  *)
(* the calls made from it find that one, those of Task.WhenAll and of      *)
(* tasks that outlive it too.  A context has the name of the call that     *)
(* made it.  Its counter is read and written without a lock, and its       *)
(* dictionary is asked for a key before it is used.                        *)
(***************************************************************************)
EXTENDS Integers, FiniteSets

CONSTANTS Call,       \* calls of services, each made once
          NoContext,  \* the AsyncLocal is null
          Key         \* keys of items

ASSUME CallAssumption == IsFiniteSet(Call) /\ NoContext \notin Call

VARIABLES
  pc,         \* where a call is in ServiceHandle and the method inside it
  context,    \* the value of the AsyncLocal
  read,       \* the counter as AddDef or CloseDef has read, then written it
  access,     \* the operation on the items that has asked for its key
  _refCount,  \* of each context
  _items,     \* the keys of each context's dictionary
  overlapped, \* history: what two calls of a context were in the middle of
  failed      \* history: the calls whose operation on the items has thrown

vars == <<pc, context, read, access, _refCount, _items, overlapped, failed>>

Operation == {"Get", "Remove", "AddOrUpdate"}
NoAccess == [op |-> "Get", key |-> NoContext, present |-> FALSE]

\* In the middle of AddDef or CloseDef; in the middle of a use of the items.
Counting == {"entering", "leaving", "testing", "disposing"}
Using == {"accessing", "disposing"}

\* Counted by the counter: AddDef has written, CloseDef has not.
Inside == {"inside", "accessing", "leaving"}

\* The other calls of c's context x that are at one of these places.
Others(c, x, places) == {d \in Call \ {c} : context[d] = x /\ pc[d] \in places}

TypeOK ==
  /\ pc \in [Call -> {"idle", "inside", "accessing", "over"} \cup Counting]
  /\ context \in [Call -> Call \cup {NoContext}]
  /\ read \in [Call -> Int]
  /\ access \in [Call -> [op : Operation, key : Key \cup {NoContext},
                          present : BOOLEAN]]
  /\ \A c \in Call : pc[c] = "accessing" => access[c].key \in Key
  /\ _refCount \in [Call -> Int]
  /\ _items \in [Call -> SUBSET Key]
  /\ overlapped \in [Call -> SUBSET {"counter", "items"}]
  /\ failed \subseteq Call

Init ==
  /\ pc = [c \in Call |-> "idle"]
  /\ context = [c \in Call |-> NoContext]
  /\ read = [c \in Call |-> 0]
  /\ access = [c \in Call |-> NoAccess]
  /\ _refCount = [c \in Call |-> 0]
  /\ _items = [c \in Call |-> {}]
  /\ overlapped = [c \in Call |-> {}]
  /\ failed = {}

Note(c, x, what, places) ==
  overlapped' = IF Others(c, x, places) = {} THEN overlapped
                ELSE [overlapped EXCEPT ![x] = @ \cup {what}]

\* The contexts that c may find: its own, new one, or that of a call whose
\* method has been running (a task started there keeps it for good).
Reachable(c) ==
  {c} \cup {context[d] : d \in {e \in Call : pc[e] \notin {"idle", "entering"}}}

\* The call is made, in the context x; AddDef reads the counter.
AddDef(c, x) ==
  /\ pc[c] = "idle"
  /\ x \in Reachable(c)
  /\ pc' = [pc EXCEPT ![c] = "entering"]
  /\ context' = [context EXCEPT ![c] = x]
  /\ read' = [read EXCEPT ![c] = _refCount[x]]
  /\ Note(c, x, "counter", Counting)
  /\ UNCHANGED <<access, _refCount, _items, failed>>

\* ... and writes it; the method begins.
Enter(c) ==
  /\ pc[c] = "entering"
  /\ pc' = [pc EXCEPT ![c] = "inside"]
  /\ _refCount' = [_refCount EXCEPT ![context[c]] = read[c] + 1]
  /\ UNCHANGED <<context, read, access, _items, overlapped, failed>>

\* Wrong: AddOrUpdate adds without asking.
AskNot(c, op, k) ==
  /\ pc[c] = "inside"
  /\ op = "AddOrUpdate" \/ k \in _items[context[c]]
  /\ pc' = [pc EXCEPT ![c] = "accessing"]
  /\ access' = [access EXCEPT ![c] =
       [op |-> op, key |-> k, present |-> op # "AddOrUpdate"]]
  /\ Note(c, context[c], "items", Using)
  /\ UNCHANGED <<context, read, _refCount, _items, failed>>

\* The method uses an item: ContainsKey first.  Without the key there is nothing
\* to get and nothing to remove.
Ask(c, op, k) ==
  /\ pc[c] = "inside"
  /\ op = "AddOrUpdate" \/ k \in _items[context[c]]
  /\ pc' = [pc EXCEPT ![c] = "accessing"]
  /\ access' = [access EXCEPT ![c] =
       [op |-> op, key |-> k, present |-> k \in _items[context[c]]]]
  /\ Note(c, context[c], "items", Using)
  /\ UNCHANGED <<context, read, _refCount, _items, failed>>

\* Get throws when the key has gone, Add when it has come; the method may catch
\* the exception or end with it.
Throws(c) ==
  LET a == access[c] IN
    \/ a.op = "Get" /\ a.key \notin _items[context[c]]
    \/ a.op = "AddOrUpdate" /\ ~a.present /\ a.key \in _items[context[c]]

Use(c) ==
  /\ pc[c] = "accessing"
  /\ pc' = [pc EXCEPT ![c] = "inside"]
  /\ _items' = [_items EXCEPT ![context[c]] =
       IF access[c].op = "Remove" THEN @ \ {access[c].key}
       ELSE IF access[c].op = "AddOrUpdate" THEN @ \cup {access[c].key}
       ELSE @]
  /\ failed' = IF Throws(c) THEN failed \cup {c} ELSE failed
  /\ access' = [access EXCEPT ![c] = NoAccess]
  /\ UNCHANGED <<context, read, _refCount, overlapped>>

\* The method has ended, with a result or an exception: CloseDef, in the finally
\* block, reads the counter ...
CloseDef(c) ==
  /\ pc[c] = "inside"
  /\ pc' = [pc EXCEPT ![c] = "leaving"]
  /\ read' = [read EXCEPT ![c] = _refCount[context[c]]]
  /\ Note(c, context[c], "counter", Counting)
  /\ UNCHANGED <<context, access, _refCount, _items, failed>>

\* ... writes it ...
Leave(c) ==
  /\ pc[c] = "leaving"
  /\ pc' = [pc EXCEPT ![c] = "testing"]
  /\ _refCount' = [_refCount EXCEPT ![context[c]] = read[c] - 1]
  /\ read' = [read EXCEPT ![c] = @ - 1]
  /\ UNCHANGED <<context, access, _items, overlapped, failed>>

\* Wrong: the call takes itself for the last one while there is another.
TestTooEarly(c) ==
  /\ pc[c] = "testing"
  /\ \E count \in {read[c], _refCount[context[c]]} :
       IF count <= 1
         THEN /\ pc' = [pc EXCEPT ![c] = "disposing"]
              /\ Note(c, context[c], "items", {"accessing"})
         ELSE pc' = [pc EXCEPT ![c] = "over"] /\ UNCHANGED overlapped
  /\ UNCHANGED <<context, read, access, _refCount, _items, failed>>

\* Wrong: the last call leaves the items.
TestTooLate(c) ==
  /\ pc[c] = "testing"
  /\ \E count \in {read[c], _refCount[context[c]]} :
       IF count < 0
         THEN /\ pc' = [pc EXCEPT ![c] = "disposing"]
              /\ Note(c, context[c], "items", {"accessing"})
         ELSE pc' = [pc EXCEPT ![c] = "over"] /\ UNCHANGED overlapped
  /\ UNCHANGED <<context, read, access, _refCount, _items, failed>>

\* ... and tests it: the value it wrote, kept in a register, or the field again.
Test(c) ==
  /\ pc[c] = "testing"
  /\ \E count \in {read[c], _refCount[context[c]]} :
       IF count <= 0
         THEN /\ pc' = [pc EXCEPT ![c] = "disposing"]
              /\ Note(c, context[c], "items", {"accessing"})
         ELSE pc' = [pc EXCEPT ![c] = "over"] /\ UNCHANGED overlapped
  /\ UNCHANGED <<context, read, access, _refCount, _items, failed>>

Dispose(c) ==
  /\ pc[c] = "disposing"
  /\ pc' = [pc EXCEPT ![c] = "over"]
  /\ _items' = [_items EXCEPT ![context[c]] = {}]
  /\ UNCHANGED <<context, read, access, _refCount, overlapped, failed>>

Next ==
  \E c \in Call :
    \/ \E x \in Call : AddDef(c, x)
    \/ \E op \in Operation, k \in Key : Ask(c, op, k)
    \/ Enter(c) \/ Use(c) \/ CloseDef(c) \/ Leave(c) \/ Test(c) \/ Dispose(c)

Spec == Init /\ [][Next]_vars

----------------------------------------------------------------------------
(***************************************************************************)
(* Properties.                                                             *)
(***************************************************************************)

\* The items are not taken from a call that is still running: a call disposes of
\* its context only when every other call there has left, unless two of them have
\* been in the middle of AddDef or CloseDef at once, and one count was lost.
DisposedOnlyWhenAlone ==
  \A c \in Call :
    pc[c] = "disposing" /\ "counter" \notin overlapped[context[c]] =>
      Others(c, context[c], Inside) = {}

\* A context that nobody is in any more holds no items and counts nobody, under
\* the same condition: what a lost count leaves behind stays for good.
NothingLeftBehind ==
  \A x \in Call :
    /\ "counter" \notin overlapped[x]
    /\ \A c \in Call : context[c] = x => pc[c] = "over"
    => _items[x] = {} /\ _refCount[x] = 0

\* ContainsKey is a sufficient check for calls that do not use the items at once:
\* only then can Get miss the key, or Add find it, that the check has seen.
ThrowsOnlyInARace ==
  \A c \in failed : "items" \in overlapped[context[c]]
=============================================================================
