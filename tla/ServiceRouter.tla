---------------------------- MODULE ServiceRouter ----------------------------
(***************************************************************************)
(* DefaultServiceRouter: the routing table made of RouterPointOptions, and *)
(* FindRouterPoint, which looks a request's path up in it and lets the     *)
(* round robin policy select a point.  Callers share the counters of the   *)
(* policy (module RoundRobin); the table never changes once it is made.    *)
(*                                                                         *)
(* A name is the sequence of its parts between dots, because both the      *)
(* table's keys and the parsing of a path go by the dots.                  *)
(***************************************************************************)
EXTENDS RoundRobin, Sequences, SequencesExt

CONSTANTS Options,   \* configurations: records [messages, services, categories]
          Request    \* records [group, service, message], each a part or a name

(***************************************************************************)
(* An entry of options.messages has the fields service, message, remotes   *)
(* and weight; one of options.services has no message; one of              *)
(* options.categories has the name group.  remotes is a nonempty sequence  *)
(* (ParseEndPointListFromString throws on an empty address).               *)
(***************************************************************************)
IsList(s) == s \in Seq(Range(s))

ASSUME OptionsAssumption ==
  \A o \in Options : \A list \in {o.messages, o.services, o.categories} :
    IsList(list) /\ \A cfg \in Range(list) : IsList(cfg.remotes) /\ cfg.remotes # <<>>

Local  == [type |-> "local"]
Thrown == [type |-> "thrown"]
Nothing == [type |-> "none"]
Remote(address, weight) ==
  [type |-> "remote", address |-> address, weight |-> weight]

----------------------------------------------------------------------------
\* The routing table.  The definitions marked "Wrong:" are variants of the
\* definition that follows, each with a bug that one of the properties below
\* rules out; the specification does not use them.

SwapIfGreater(s, i, j) ==
  IF s[i].weight > s[j].weight THEN [s EXCEPT ![i] = s[j], ![j] = s[i]] ELSE s

\* List.Sort with the comparison x.Weight > y.Weight ? 1 : 0, for at most 16
\* elements: two or three are compared for "greater" and swapped, more go
\* through an insertion sort that moves an element only when it compares as
\* less, which this comparison never says.
SortByWeight(s) ==
  CASE Len(s) = 2 -> SwapIfGreater(s, 1, 2)
    [] Len(s) = 3 ->
         SwapIfGreater(SwapIfGreater(SwapIfGreater(s, 1, 2), 1, 3), 2, 3)
    [] OTHER      -> s

\* Wrong: a second entry for a key replaces the first.
AddRouterReplaces(table, key, cfg) ==
  [table EXCEPT ![key] = SortByWeight(
     [i \in DOMAIN cfg.remotes |-> Remote(cfg.remotes[i], cfg.weight)])]

\* A key that is in the table already gets more points.
AddRouter(table, key, cfg) ==
  [table EXCEPT ![key] = SortByWeight(
     @ \o [i \in DOMAIN cfg.remotes |-> Remote(cfg.remotes[i], cfg.weight)])]

\* The key that an entry adds its points to.
Entry(key, cfg) == [key |-> key, cfg |-> cfg]

\* Messages, then services, then categories.
Entries(o) ==
  [i \in DOMAIN o.messages |->
     Entry(<<o.messages[i].service, o.messages[i].message>>, o.messages[i])]
  \o [i \in DOMAIN o.services |-> Entry(<<o.services[i].service, "0">>, o.services[i])]
  \o [i \in DOMAIN o.categories |-> Entry(o.categories[i].group, o.categories[i])]

\* table[n]: the table after n entries; no points means no entry.
Initialize(o) ==
  LET entries == Entries(o)
      table[n \in 0..Len(entries)] ==
        IF n = 0 THEN [k \in Key |-> <<>>]
        ELSE AddRouter(table[n - 1], entries[n].key, entries[n].cfg)
  IN table[Len(entries)]

----------------------------------------------------------------------------
\* The keys of a request.  RoutePath is "group.service.message", and the parts
\* are counted from its beginning, wherever the dots come from.
Parts(r)      == r.group \o <<r.service, r.message>>
KeyService(r) == <<Parts(r)[2], "0">>

KeyMessage(r) == <<Parts(r)[2], Parts(r)[3]>>

\* Wrong: a request without a group has the empty name for a key.
KeyCategoryRaw(r) == <<Parts(r)[1]>>

KeyCategory(r) ==
  IF Parts(r)[1] = "" THEN <<"default">> ELSE <<Parts(r)[1]>>

\* Every key that is added, looked up, or the key of a request's message is one of
\* Key.
ASSUME RequestKeysAssumption ==
  /\ \A o \in Options : \A e \in Range(Entries(o)) : e.key \in Key
  /\ \A r \in Request :
       /\ IsList(r.group)
       /\ {KeyService(r), KeyMessage(r), KeyCategory(r), <<r.service, r.message>>}
            \subseteq Key

VARIABLES
  options,      \* the configuration the router was made with
  _routeCache,  \* the routing table
  at,           \* where a caller is in FindRouterPoint
  request,      \* the request it routes
  point         \* the point it found

routing  == <<options, _routeCache, at, request, point>>
allVars  == <<vars, routing>>
NoRequest == [service |-> "none"]

RouterInit ==
  /\ Init
  /\ options \in Options
  /\ _routeCache = Initialize(options)
  /\ at = [p \in Caller |-> "idle"]
  /\ request = [p \in Caller |-> NoRequest]
  /\ point = [p \in Caller |-> Nothing]

----------------------------------------------------------------------------
\* _routeCache.TryGetValue
Routed(k) == _routeCache[k] # <<>>

\* The message's own key first, then the service's.
FindRouterPoint(p, r) ==
  /\ at[p] = "idle"
  /\ request' = [request EXCEPT ![p] = r]
  /\ \/ /\ Routed(KeyMessage(r))
        /\ TryGetValue(p, KeyMessage(r))
        /\ at' = [at EXCEPT ![p] = "message"]
     \/ /\ ~Routed(KeyMessage(r))
        /\ Routed(KeyService(r))
        /\ TryGetValue(p, KeyService(r))
        /\ at' = [at EXCEPT ![p] = "service"]
     \/ /\ ~Routed(KeyMessage(r))
        /\ ~Routed(KeyService(r))
        /\ at' = [at EXCEPT ![p] = "toCategory"]
        /\ UNCHANGED vars
  /\ UNCHANGED <<options, _routeCache, point>>

\* The rest of the policy's Select.
SelectEndPoint(p) ==
  /\ TryAdd(p) \/ TryUpdate(p)
  /\ UNCHANGED routing

\* remoteAddresses[index], which throws for a negative index.
Selected(p) ==
  LET points == _routeCache[serviceKey[p]]
      i      == Position(index[p], Len(points))
  IN IF i < 0 THEN Thrown ELSE points[i + 1]

\* Select returns.  What it selected for the service's key is not returned from
\* FindRouterPoint: the method goes on with the category.  An exception ends
\* FindRouterPoint in every branch.
SelectReturns(p) ==
  /\ Return(p)
  /\ IF at[p] = "service" /\ Selected(p) # Thrown
       THEN /\ at' = [at EXCEPT ![p] = "toCategory"]
            /\ UNCHANGED point
       ELSE /\ at' = [at EXCEPT ![p] = "found"]
            /\ point' = [point EXCEPT ![p] = Selected(p)]
  /\ UNCHANGED <<options, _routeCache, request>>

FindCategory(p) ==
  /\ at[p] = "toCategory"
  /\ LET k == KeyCategory(request[p]) IN
       \/ /\ Routed(k)
          /\ TryGetValue(p, k)
          /\ at' = [at EXCEPT ![p] = "category"]
          /\ UNCHANGED point
       \/ /\ ~Routed(k)
          /\ at' = [at EXCEPT ![p] = "found"]
          /\ point' = [point EXCEPT ![p] = Local]
          /\ UNCHANGED vars
  /\ UNCHANGED <<options, _routeCache, request>>

\* The caller (SendAsync, or IsLocalCall of a client proxy) takes the point.
Found(p) ==
  /\ at[p] = "found"
  /\ at' = [at EXCEPT ![p] = "idle"]
  /\ request' = [request EXCEPT ![p] = NoRequest]
  /\ point' = [point EXCEPT ![p] = Nothing]
  /\ UNCHANGED <<vars, options, _routeCache>>

RouterNext ==
  \E p \in Caller :
    \/ \E r \in Request : FindRouterPoint(p, r)
    \/ SelectEndPoint(p) \/ SelectReturns(p)
    \/ FindCategory(p) \/ Found(p)

RouterSpec == RouterInit /\ [][RouterNext]_allVars

----------------------------------------------------------------------------
(***************************************************************************)
(* Properties, stated about the options and not about the table.           *)
(***************************************************************************)

Addresses(cfgs) == UNION {Range(cfg.remotes) : cfg \in cfgs}

\* What is configured for the request itself; a service's entry has the key of
\* that service's message 0, and so may a group have a message's ("100.1").
OfMessage(r) ==
  Addresses({c \in Range(options.messages) :
               c.service = r.service /\ c.message = r.message}
            \cup {c \in Range(options.services) :
                    r.message = "0" /\ c.service = r.service}
            \cup {c \in Range(options.categories) : c.group = <<r.service, r.message>>})

OfGroup(r) ==
  Addresses({c \in Range(options.categories) :
               c.group = IF r.group = <<"">> THEN <<"default">> ELSE r.group})

\* The counter of one of the request's keys has reached the largest int.
Overflowed(r) ==
  \E k \in {KeyMessage(r), KeyService(r), KeyCategory(r)} : MaxIndex \in drawn[k]

\* A request of a group whose name has no dot goes to an address configured for
\* that message, else to one configured for its group, else it is local; this
\* holds whatever the other callers do to the counters, and routing fails only
\* for a request one of whose own counters has overflowed.
RightRoute ==
  \A p \in Caller : LET r == request[p] IN
    at[p] = "found" /\ Len(r.group) = 1 =>
      IF point[p] = Thrown THEN Overflowed(r)
      ELSE IF OfMessage(r) # {}
        THEN point[p].type = "remote" /\ point[p].address \in OfMessage(r)
        ELSE IF OfGroup(r) # {}
          THEN point[p].type = "remote" /\ point[p].address \in OfGroup(r)
          ELSE point[p] = Local

\* Every configured address of a message or a group can be selected: all of them
\* are in the list that the key's counter goes round (AddRouter adds to a key
\* that is there already).
NothingConfiguredIsLost ==
  \A r \in Request :
    /\ OfMessage(r) \subseteq
         {_routeCache[<<r.service, r.message>>][i].address :
            i \in DOMAIN _routeCache[<<r.service, r.message>>]}
    /\ Len(r.group) = 1 => OfGroup(r) \subseteq
         {_routeCache[KeyCategory(r)][i].address :
            i \in DOMAIN _routeCache[KeyCategory(r)]}

\* "order by weight" (the comment in AddRouter): the points of a key are in the
\* order of their weights.  The comparison given to Sort does not order lists of
\* four and more.
OrderedByWeight ==
  \A k \in Key : \A i, j \in DOMAIN _routeCache[k] :
    i < j => _routeCache[k][i].weight <= _routeCache[k][j].weight
=============================================================================
