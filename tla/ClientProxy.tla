----------------------------- MODULE ClientProxy -----------------------------
(***************************************************************************)
(* DynamicClientProxy (src/DotBPE.Extra.Castle): how a caller gets the     *)
(* proxy of a service, and where its call then goes.                       *)
(*                                                                         *)
(* The proxy is chosen once, for the service and a special message id: the *)
(* actor itself when the router says local, a generated proxy that sends   *)
(* when it says remote.  The choice is cached.  A generated proxy asks the *)
(* router again, for the message of each call (DefaultRpcClient.SendAsync).*)
(*                                                                         *)
(* One service: others have other keys in all of the tables.  What a route *)
(* selects, and how it may fail after an overflow, is in ServiceRouter.    *)
(***************************************************************************)
EXTENDS Naturals

CONSTANTS Caller,
          Message,  \* the numbers of the service's methods, and 0
          Group,    \* stands for the service's group in routes
          Deployment \* the tables that are tried: records of routes and hosted

ASSUME ClientProxyAssumption ==
  /\ 0 \in Message /\ Group \notin Message
  /\ Deployment \subseteq [routes : SUBSET (Message \cup {Group}),
                           hosted : [Message -> {"none", "service", "other"}]]

VARIABLES
  routes,      \* what has a route: messages, the service (0), its group
  hosted,      \* hosted[m]: the actor registered here under the id "service.m"
  _typeCache,  \* _typeCache[special]: the proxy made for that special id
  at,          \* where a caller is
  special,     \* the special message id it asks the proxy with
  message,     \* the message it calls
  proxy,       \* the proxy it got
  outcome      \* where its call went

proxyVars == <<routes, hosted, _typeCache, at, special, message, proxy, outcome>>

Init ==
  /\ \E d \in Deployment : routes = d.routes /\ hosted = d.hosted
  /\ _typeCache = [s \in Message |-> "none"]
  /\ at = [c \in Caller |-> "idle"]
  /\ special = [c \in Caller |-> 0]
  /\ message = [c \in Caller |-> 0]
  /\ proxy = [c \in Caller |-> "none"]
  /\ outcome = [c \in Caller |-> "none"]

\* FindRouterPoint: the route of the message, else that of the group; the
\* service's route is found and not returned.
RoutedAway(m) == m \in routes \/ Group \in routes

\* LocateServiceActor: the actor of the message, else that of the service.
LocateServiceActor(m) == IF hosted[m] # "none" THEN hosted[m] ELSE hosted[0]

----------------------------------------------------------------------------
\* Wrong: the proxies of all special ids share an entry.
TryGetValueOfService(c, s, m) ==
  /\ at[c] = "idle"
  /\ at' = [at EXCEPT ![c] = IF _typeCache[0] = "none" THEN "missed" ELSE "got"]
  /\ proxy' = [proxy EXCEPT ![c] = _typeCache[0]]
  /\ special' = [special EXCEPT ![c] = s]
  /\ message' = [message EXCEPT ![c] = m]
  /\ UNCHANGED <<routes, hosted, _typeCache, outcome>>

\* A caller asks for the proxy with special id s, to call message m.
TryGetValue(c, s, m) ==
  /\ at[c] = "idle"
  /\ at' = [at EXCEPT ![c] = IF _typeCache[s] = "none" THEN "missed" ELSE "got"]
  /\ proxy' = [proxy EXCEPT ![c] = _typeCache[s]]
  /\ special' = [special EXCEPT ![c] = s]
  /\ message' = [message EXCEPT ![c] = m]
  /\ UNCHANGED <<routes, hosted, _typeCache, outcome>>

\* The rest of CreateAsync.  The routes and actors do not change, so it does not
\* matter who else creates a proxy meanwhile: TryAdd keeps the first, the caller
\* has its own.
Create(c) ==
  LET kind == IF RoutedAway(special[c]) THEN "remote" ELSE "local" IN
    /\ at[c] = "missed"
    /\ kind = "local" => LocateServiceActor(special[c]) = "service"
    /\ _typeCache' = [_typeCache EXCEPT
         ![special[c]] = IF @ = "none" THEN kind ELSE @]
    /\ proxy' = [proxy EXCEPT ![c] = kind]
    /\ at' = [at EXCEPT ![c] = "got"]
    /\ UNCHANGED <<routes, hosted, special, message, outcome>>

\* Local, but no actor implements the interface: InvalidOperationException.
CreateThrows(c) ==
  /\ at[c] = "missed"
  /\ ~RoutedAway(special[c])
  /\ LocateServiceActor(special[c]) # "service"
  /\ at' = [at EXCEPT ![c] = "over"]
  /\ outcome' = [outcome EXCEPT ![c] = "missing"]
  /\ UNCHANGED <<routes, hosted, _typeCache, special, message, proxy>>

\* The method is called: by the actor, or by a message, which is refused by this
\* client when the router has no remote point for it (RaiseErrorResponse).
Call(c) ==
  /\ at[c] = "got"
  /\ at' = [at EXCEPT ![c] = "over"]
  /\ outcome' = [outcome EXCEPT ![c] =
       IF proxy[c] = "local" THEN "local"
       ELSE IF RoutedAway(message[c]) THEN "remote" ELSE "refused"]
  /\ UNCHANGED <<routes, hosted, _typeCache, special, message, proxy>>

CallerStep(c) == Create(c) \/ CreateThrows(c) \/ Call(c)

ProxyNext ==
  \E c \in Caller :
    \/ \E s \in Message, m \in Message \ {0} : TryGetValue(c, s, m)
    \/ CallerStep(c)

ProxySpec == Init /\ [][ProxyNext]_proxyVars

----------------------------------------------------------------------------
(***************************************************************************)
(* Properties.                                                             *)
(***************************************************************************)

\* When the router says the same of the special id and of the message, a call goes
\* where it says, whoever filled the cache; when it does not, the special id
\* decides, and a proxy that sends has nowhere to send to.
CallGoesAsRouted ==
  \A c \in Caller : at[c] = "over" =>
    LET here == ~RoutedAway(special[c]) /\ LocateServiceActor(special[c]) = "service"
    IN outcome[c] = IF ~RoutedAway(special[c]) THEN IF here THEN "local" ELSE "missing"
                    ELSE IF RoutedAway(message[c]) THEN "remote" ELSE "refused"

\* "Local and remote services are dispatched automatically" (readme.md): a client
\* does not refuse the calls of its own proxy.
CallsAreDispatched == \A c \in Caller : outcome[c] # "refused"
=============================================================================
