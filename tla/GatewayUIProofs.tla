--------------------------- MODULE GatewayUIProofs ----------------------------
(***************************************************************************)
(* What GatewayUI's run checks of two requests and two methods, for any    *)
(* number of requests, callers, methods, tables and configurations:        *)
(* ShownBelongs, OneResponse, CallGoesAsRouted and ShownTogether.          *)
(*                                                                         *)
(* Four invariants, kept together: of the page, of a request in the        *)
(* gateway, of the cache of proxies, of what the page shows of it.         *)
(***************************************************************************)
EXTENDS GatewayUI, TLAPS

PanelInv ==
  /\ method \in Method
  /\ asked \in [PanelRequest -> Method]
  /\ sends \in 0 .. MaxSends
  /\ loading \in BOOLEAN
  /\ loading <=> pending # 0
  /\ pending \in {0, sends}
  /\ shownStatus \in 0 .. sends /\ shownBody \in 0 .. sends
  /\ shownBody <= shownStatus
  /\ pending # 0 => shownStatus < pending
  /\ pending # 0 => asked[pending] = method \/ pending \in late
  /\ late \subseteq 1 .. sends
  /\ ShownBelongs

Part == {"custom", "result", "partial", "error"}

HttpType ==
  /\ conf \in [Message \ {0} -> SUBSET Configurable]
  /\ api \in [Request -> Message]
  /\ stage \in [Request -> {"idle", "received", "parsed", "ready", "calling",
                            "refusing", "responding", "reporting", "escaped", "complete",
                            "broken"}]
  /\ code \in [Request -> Status \cup {"none"}]
  /\ response \in [Request -> [status : Status, parts : Seq(Part)]]

Parts(r) == Len(response[r].parts)

\* OneResponse, of one request.
OneBody(r) ==
  /\ Parts(r) > 1 =>
       /\ at[r] = "idle"
       /\ \/ "errorProcess" \in Has(r)
          \/ "process" \in Has(r) /\ Has(r) \cap {"output", "outputProcess"} # {}
  /\ Parts(r) > 2 => "process" \in Has(r)
  /\ Parts(r) <= 3

\* Before its first answer nothing is written, nor before the answer of a service;
\* what is reported behind a part is so without the service having been asked.
Progress(r) ==
  /\ stage[r] \in {"refusing", "reporting"} => code[r] # "none"
  /\ stage[r] \in {"idle", "received", "parsed", "ready", "refusing"} => at[r] = "idle"
  /\ stage[r] \in {"parsed", "ready", "calling", "refusing"} => "process" \notin Has(r)
  /\ "process" \in Has(r) => at[r] = "idle"
  /\ stage[r] \in {"idle", "received", "parsed", "ready", "calling", "refusing"}
       => Parts(r) = 0
  /\ stage[r] = "responding" => Parts(r) <= IF "process" \in Has(r) THEN 1 ELSE 0
  /\ stage[r] = "reporting" =>
       /\ Parts(r) <= IF "process" \in Has(r) THEN 2 ELSE 1
       /\ Parts(r) > 0 => at[r] = "idle"

RequestInv(r) == Progress(r) /\ OneBody(r)

HttpInv == HttpType /\ \A r \in Request : RequestInv(r)

Chosen(s) == IF RoutedAway(s) THEN "remote" ELSE "local"
Usable(s) == RoutedAway(s) \/ LocateServiceActor(s) = "service"

ProxyInv ==
  /\ _typeCache \in [Message -> {"none", "local", "remote"}]
  /\ special \in [Caller -> Message]
  /\ message \in [Caller -> Message]
  /\ proxy \in [Caller -> {"none", "local", "remote"}]
  /\ at \in [Caller -> {"idle", "missed", "got", "over"}]
  /\ outcome \in [Caller -> {"none", "local", "remote", "refused", "missing"}]
  /\ \A s \in Message : _typeCache[s] # "none" => _typeCache[s] = Chosen(s) /\ Usable(s)
  /\ \A c \in Caller : at[c] = "got" =>
       proxy[c] = Chosen(special[c]) /\ Usable(special[c])
  /\ CallGoesAsRouted

\* The answer whose status is shown without its body is complete: it will not change.
Together == ShownTogether /\ (shownStatus # shownBody => Over(shownStatus))

----------------------------------------------------------------------------
(***************************************************************************)
(* The page.                                                               *)
(***************************************************************************)

LEMMA PanelStarts == GatewayInit => PanelInv
<1> SUFFICES ASSUME PanelInit PROVE PanelInv
  BY DEF GatewayInit
<1>1. /\ loading = FALSE /\ pending = 0 /\ sends = 0 /\ shownStatus = 0 /\ shownBody = 0
      /\ late = {} /\ method = 1
  BY DEF PanelInit
<1>2. asked \in [PanelRequest -> Method]
  BY DebugPanelAssumption DEF PanelInit
<1>3. ShownBelongs
  BY <1>1 DEF ShownBelongs
<1>4. sends \in 0 .. MaxSends /\ shownStatus \in 0 .. sends /\ shownBody \in 0 .. sends
  BY <1>1, DebugPanelAssumption
<1>5. loading \in BOOLEAN /\ (loading <=> pending # 0)
  BY <1>1, Zenon
<1>7. shownBody <= shownStatus
  BY <1>1
<1>6. method \in Method /\ late \subseteq 1 .. sends /\ pending \in {0, sends} /\ ~(pending # 0)
  BY <1>1, DebugPanelAssumption
<1> QED BY <1>2, <1>3, <1>4, <1>5, <1>6, <1>7 DEF PanelInv

LEMMA PanelSelect ==
  ASSUME PanelInv, NEW m \in Method, Select(m)
  PROVE  PanelInv'
BY DebugPanelAssumption DEF PanelInv, Select, PanelRequest, ShownBelongs

LEMMA PanelSend ==
  ASSUME PanelInv, Send
  PROVE  PanelInv'
<1>1. /\ pending = 0 /\ sends' = sends + 1 /\ sends' \in PanelRequest
      /\ sends' \in 0 .. MaxSends /\ pending' = sends' /\ pending' # 0 /\ loading' = TRUE
      /\ \A r \in 0 .. sends : r # sends' /\ r < sends' /\ r \in 0 .. sends'
  BY DebugPanelAssumption DEF PanelInv, Send, PanelRequest
<1>2. /\ asked' \in [PanelRequest -> Method]
      /\ asked'[sends'] = method
      /\ \A r \in 1 .. sends : asked'[r] = asked[r]
  BY <1>1, DebugPanelAssumption DEF PanelInv, Send, PanelRequest
<1>3. UNCHANGED <<method, shownStatus, shownBody, late>>
  BY DEF Send
<1>4. ShownBelongs'
  <2> SUFFICES ASSUME NEW r \in {shownStatus, shownBody} \ {0}
               PROVE  asked'[r] = method \/ r \in late
    BY <1>3 DEF ShownBelongs
  <2>1. r \in 1 .. sends
    BY DEF PanelInv
  <2> QED BY <2>1, <1>2 DEF PanelInv, ShownBelongs
<1>5. late' \subseteq 1 .. sends'
  BY <1>1, <1>3 DEF PanelInv
<1> QED BY <1>1, <1>2, <1>3, <1>4, <1>5 DEF PanelInv

LEMMA PanelAnswer ==
  ASSUME PanelInv, NEW kind, Answer(kind)
  PROVE  PanelInv'
<1>1. pending # 0 /\ pending = sends /\ sends \in Nat
  BY DebugPanelAssumption DEF PanelInv, Answer
<1>2. shownBody' \in {shownBody, pending} /\ shownStatus' = pending
  BY DEF Answer
<1>3. UNCHANGED <<method, asked, sends, late>> /\ pending' = 0 /\ loading' = FALSE
  BY DEF Answer
<1>4. ShownBelongs'
  BY <1>1, <1>2, <1>3 DEF PanelInv, ShownBelongs
<1>5. /\ sends' \in 0 .. MaxSends /\ shownStatus' \in 0 .. sends' /\ shownBody' \in 0 .. sends'
      /\ shownBody' <= shownStatus'
  BY <1>1, <1>2, <1>3 DEF PanelInv
<1>6. /\ method' \in Method /\ asked' \in [PanelRequest -> Method]
      /\ late' \subseteq 1 .. sends'
  BY <1>3 DEF PanelInv
<1> QED BY <1>3, <1>4, <1>5, <1>6 DEF PanelInv

LEMMA PanelStep == PanelInv /\ [Next]_vars => PanelInv'
<1> SUFFICES ASSUME PanelInv, [Next]_vars PROVE PanelInv'
  OBVIOUS
<1>1. CASE SelectMethod
  BY <1>1, PanelSelect DEF SelectMethod
<1>2. CASE SendRequest
  BY <1>2, PanelSend DEF SendRequest
<1>3. CASE Answered
  BY <1>3, PanelAnswer DEF Answered
<1>4. CASE GiveUp
  BY <1>4, PanelAnswer DEF GiveUp
<1>5. CASE UNCHANGED panelVars
  BY <1>5 DEF PanelInv, panelVars, ShownBelongs
<1>6. ASSUME NEW r \in Request, Handle(r) PROVE UNCHANGED panelVars
  BY <1>6 DEF Handle
<1>7. ASSUME NEW c \in Caller, Calling(c) \/ AppCalls(c) PROVE UNCHANGED panelVars
  BY <1>7 DEF Calling, AppCalls, panelVars
<1> QED BY <1>1, <1>2, <1>3, <1>4, <1>5, <1>6, <1>7 DEF Next, vars

----------------------------------------------------------------------------
(***************************************************************************)
(* A request in the gateway.                                               *)
(***************************************************************************)

LEMMA HttpStarts == GatewayInit => HttpInv
<1> SUFFICES ASSUME GatewayInit, HttpInit PROVE HttpInv
  BY DEF GatewayInit
<1>1. HttpType
  <2>1. conf \in [Message \ {0} -> SUBSET Configurable]
    BY HttpApiCallAssumption DEF HttpInit
  <2>2. [status |-> "ok", parts |-> <<>>] \in [status : Status, parts : Seq(Part)]
    BY DEF Status
  <2>3. response \in [Request -> [status : Status, parts : Seq(Part)]]
    BY <2>2 DEF HttpInit
  <2> QED BY <2>1, <2>3, ClientProxyAssumption DEF HttpInit, HttpType
<1>2. ASSUME NEW r \in Request PROVE RequestInv(r)
  <2>1. stage[r] = "idle" /\ Parts(r) = 0 /\ Has(r) = {}
    BY DEF HttpInit, Parts, Has
  <2>2. at[r] = "idle"
    BY HttpApiCallAssumption DEF GatewayInit, Init
  <2> QED BY <2>1, <2>2 DEF RequestInv, Progress, OneBody
<1> QED BY <1>1, <1>2 DEF HttpInv

\* What a request does leaves the others where they are.
LEMMA HttpFrame ==
  ASSUME HttpInv, NEW r \in Request, HttpType',
         UNCHANGED conf,
         \A q \in Request \ {r} : api'[q] = api[q] /\ stage'[q] = stage[q] /\ at'[q] = at[q]
                              /\ code'[q] = code[q] /\ response'[q] = response[q],
         RequestInv(r)'
  PROVE  HttpInv'
<1> SUFFICES ASSUME NEW q \in Request, q # r PROVE RequestInv(q)'
  BY DEF HttpInv
<1>1. /\ api'[q] = api[q] /\ stage'[q] = stage[q] /\ at'[q] = at[q]
      /\ code'[q] = code[q] /\ response'[q] = response[q] /\ conf' = conf
  OBVIOUS
<1>2. RequestInv(q)
  BY DEF HttpInv
<1>3. Has(q)' = Has(q) /\ Parts(q)' = Parts(q)
  BY <1>1 DEF Has, Parts
<1> QED BY <1>1, <1>2, <1>3 DEF RequestInv, Progress, OneBody

\* Written appends one part to the response of r.
LEMMA WritesOne ==
  ASSUME HttpType, NEW r \in Request, NEW s \in Status, NEW part \in Part, Written(r, s, part)
  PROVE  /\ response' \in [Request -> [status : Status, parts : Seq(Part)]]
         /\ \A q \in Request \ {r} : response'[q] = response[q]
         /\ Parts(r) \in Nat /\ Parts(r)' = Parts(r) + 1
<1> DEFINE new == [status |-> IF Started(r) THEN response[r].status ELSE s,
                   parts |-> Append(response[r].parts, part)]
<1>1. response[r] \in [status : Status, parts : Seq(Part)]
  BY DEF HttpType
<1>2. new \in [status : Status, parts : Seq(Part)]
      /\ Len(new.parts) = Len(response[r].parts) + 1 /\ Len(response[r].parts) \in Nat
  BY <1>1
<1>3. response' = [response EXCEPT ![r] = new]
  BY DEF Written
<1>4. response'[r] = new
  BY <1>3 DEF HttpType
<1> HIDE DEF new
<1>5. /\ response' \in [Request -> [status : Status, parts : Seq(Part)]]
      /\ \A q \in Request \ {r} : response'[q] = response[q]
  BY <1>2, <1>3 DEF HttpType
<1>6. Parts(r) \in Nat /\ Parts(r)' = Parts(r) + 1
  BY <1>2, <1>4 DEF Parts
<1> QED BY <1>5, <1>6

LEMMA PartsIsNat == ASSUME HttpType, NEW r \in Request
                    PROVE  Parts(r) \in Nat /\ (response[r].parts = <<>> <=> Parts(r) = 0)
<1>1. response[r].parts \in Seq(Part)
  BY DEF HttpType
<1> QED BY <1>1 DEF Parts

\* What Written(r, ...), under a condition C on the response before it, does.
Writes(r, C) ==
  /\ response' \in [Request -> [status : Status, parts : Seq(Part)]]
  /\ \A q \in Request \ {r} : response'[q] = response[q]
  /\ \/ response' = response /\ Parts(r)' = Parts(r)
     \/ C /\ Parts(r)' = Parts(r) + 1

\* A processor writes, or the handler where there was nothing.
LEMMA HttpWrite ==
  ASSUME HttpType, NEW r \in Request, NEW STATE C,
         \/ UNCHANGED response
         \/ C /\ \E s \in CustomStatus : Written(r, s, "custom")
         \/ \E s \in Status, part \in Part : OwnWritten(r, s, part)
  PROVE  Writes(r, C \/ Parts(r) = 0)
<1>1. CASE UNCHANGED response
  BY <1>1 DEF HttpType, Writes, Parts
<1>2. CASE C /\ \E s \in CustomStatus : Written(r, s, "custom")
  <2>1. PICK s \in CustomStatus : Written(r, s, "custom")
    BY <1>2
  <2>2. s \in Status /\ "custom" \in Part
    BY DEF Status, CustomStatus, Part
  <2> QED BY <1>2, <2>1, <2>2, WritesOne DEF Writes
<1>3. CASE \E s \in Status, part \in Part : OwnWritten(r, s, part)
  <2>1. PICK s \in Status, part \in Part : OwnWritten(r, s, part)
    BY <1>3
  <2>2. Written(r, s, part) /\ Parts(r) = 0
    BY <2>1, PartsIsNat DEF OwnWritten, Started
  <2> QED BY <2>2, WritesOne DEF Writes
<1> QED BY <1>1, <1>2, <1>3

LEMMA HttpReceive ==
  ASSUME HttpInv, NEW r \in Request, NEW m \in Message \ {0}, Receive(r, m)
  PROVE  HttpInv'
<1> HttpType /\ RequestInv(r)
  BY DEF HttpInv
<1>1. HttpType'
  BY DEF HttpType, Receive, Goto
<1>2. RequestInv(r)'
  <2>1. /\ stage[r] = "idle" /\ stage'[r] \in {"received", "escaped"}
        /\ UNCHANGED <<at, response>>
    BY DEF HttpType, Receive, Goto, proxyVars
  <2>2. Parts(r)' = 0 /\ at'[r] = "idle"
    BY <2>1 DEF Parts, RequestInv, Progress
  <2> QED BY <2>1, <2>2 DEF RequestInv, Progress, OneBody
<1>3. \A q \in Request \ {r} : api'[q] = api[q] /\ stage'[q] = stage[q] /\ at'[q] = at[q]
                           /\ code'[q] = code[q] /\ response'[q] = response[q]
  BY DEF HttpType, Receive, Goto, proxyVars
<1> QED BY <1>1, <1>2, <1>3, HttpFrame DEF Receive

LEMMA HttpHandle ==
  ASSUME HttpInv, ProxyInv, NEW r \in Request, HandleStep(r)
  PROVE  HttpInv'
<1> HttpType /\ RequestInv(r)
  BY DEF HttpInv
<1> DEFINE Later == {"parsed", "ready", "calling", "refusing", "responding", "reporting",
                     "escaped", "complete", "broken"}
<1> Parts(r) \in Nat /\ (response[r].parts = <<>> <=> Parts(r) = 0)
  BY PartsIsNat
<1>1. UNCHANGED <<conf, api>>
  <2>1. ASSUME Process(r) \/ Parse(r) \/ ParsePost(r) \/ Invoke(r) \/ Returned(r)
        PROVE  UNCHANGED <<conf, api>>
    BY <2>1 DEF Process, Parse, ParsePost, Invoke, Returned
  <2>2. ASSUME SendResponse(r) \/ SendResponseFails(r) \/ SendErrorResponse(r)
                 \/ SendErrorResponseFails(r) \/ Escape(r)
        PROVE  UNCHANGED <<conf, api>>
    BY <2>2 DEF SendResponse, SendResponseFails, SendErrorResponse,
                SendErrorResponseFails, Escape
  <2> QED BY <2>1, <2>2 DEF HandleStep
<1>2. Has(r)' = Has(r)
  BY <1>1 DEF Has
<1>3. ASSUME stage' = [stage EXCEPT ![r] = stage'[r]], code' = [code EXCEPT ![r] = code'[r]],
             stage'[r] \in Later, code'[r] \in Status \cup {"none"},
             response' \in [Request -> [status : Status, parts : Seq(Part)]],
             \A q \in Request \ {r} : response'[q] = response[q] /\ at'[q] = at[q],
             RequestInv(r)'
      PROVE  HttpInv'
  <2>1. stage' \in [Request -> Later \cup {"idle", "received"}]
    BY <1>3 DEF HttpType
  <2>2. code' \in [Request -> Status \cup {"none"}]
    BY <1>3 DEF HttpType
  <2>3. HttpType'
    BY <2>1, <2>2, <1>1, <1>3 DEF HttpType
  <2>4. \A q \in Request \ {r} : stage'[q] = stage[q] /\ code'[q] = code[q]
    BY <1>3 DEF HttpType
  <2> QED BY <1>1, <1>3, <2>3, <2>4, HttpFrame
<1>4. CASE Parse(r)
  <2>1. /\ stage' = [stage EXCEPT ![r] = stage'[r]] /\ code' = [code EXCEPT ![r] = code'[r]]
        /\ stage[r] = "received" /\ stage'[r] \in {"parsed", "refusing", "reporting"}
        /\ code'[r] \in Status \cup {"none"}
        /\ stage'[r] # "parsed" => code'[r] # "none"
    BY <1>4 DEF Parse, HttpType, Goto, Refuse, Report, Status
  <2>2. response' = response /\ at' = at /\ "process" \notin Has(r)
    BY <1>4 DEF Parse, proxyVars
  <2>3. RequestInv(r)'
    BY <1>2, <2>1, <2>2 DEF RequestInv, Progress, OneBody, Parts
  <2> QED BY <1>3, <2>1, <2>2, <2>3 DEF HttpType
<1>5. CASE ParsePost(r)
  <2>1. /\ stage' = [stage EXCEPT ![r] = stage'[r]] /\ code' = [code EXCEPT ![r] = code'[r]]
        /\ stage[r] = "parsed" /\ stage'[r] \in {"ready", "refusing", "reporting"}
        /\ code'[r] \in Status \cup {"none"}
        /\ stage'[r] # "ready" => code'[r] # "none"
    BY <1>5 DEF ParsePost, HttpType, Goto, Refuse, Report, Thrown, Status
  <2>2. response' = response /\ at' = at
    BY <1>5 DEF ParsePost, proxyVars
  <2>3. RequestInv(r)'
    BY <1>2, <2>1, <2>2 DEF RequestInv, Progress, OneBody, Parts
  <2> QED BY <1>3, <2>1, <2>2, <2>3 DEF HttpType
<1>6. CASE Invoke(r)
  <2>1. /\ stage' = [stage EXCEPT ![r] = stage'[r]] /\ code' = [code EXCEPT ![r] = code'[r]]
        /\ stage[r] \in {"parsed", "ready"} /\ stage'[r] = "calling"
        /\ code'[r] \in Status \cup {"none"}
    BY <1>6 DEF Invoke, HttpType, Goto
  <2>2. response' = response /\ \A q \in Request \ {r} : at'[q] = at[q]
    BY <1>6, HttpApiCallAssumption DEF Invoke, TryGetValue, ProxyInv
  <2>3. RequestInv(r)'
    BY <1>2, <2>1, <2>2 DEF RequestInv, Progress, OneBody, Parts
  <2> QED BY <1>3, <2>1, <2>2, <2>3 DEF HttpType
<1>7. CASE Returned(r)
  <2>1. /\ stage' = [stage EXCEPT ![r] = stage'[r]] /\ code' = [code EXCEPT ![r] = code'[r]]
        /\ stage[r] = "calling" /\ stage'[r] \in {"responding", "reporting"}
        /\ code'[r] \in Status \cup {"none"}
        /\ stage'[r] = "reporting" => code'[r] # "none"
    BY <1>7 DEF Returned, HttpType, Goto, Report, Status
  <2>2. response' = response /\ at' = at
    BY <1>7 DEF Returned, proxyVars
  <2>3. RequestInv(r)'
    BY <1>2, <2>1, <2>2 DEF RequestInv, Progress, OneBody, Parts
  <2> QED BY <1>3, <2>1, <2>2, <2>3 DEF HttpType
<1>8. CASE Process(r)
  <2>1. /\ stage' = [stage EXCEPT ![r] = stage'[r]] /\ code' = [code EXCEPT ![r] = code'[r]]
        /\ stage[r] = "received" /\ stage'[r] \in {"complete", "responding", "reporting"}
        /\ code'[r] \in Status \cup {"none"}
        /\ stage'[r] = "reporting" => code'[r] # "none"
    BY <1>8 DEF Process, HttpType, Goto, Report, Thrown, Status
  <2>2. at' = at /\ "process" \in Has(r)
    BY <1>8 DEF Process, proxyVars
  <2>3. Writes(r, TRUE)
    BY <1>8, HttpWrite DEF Process, Writes
  <2>4. RequestInv(r)'
    BY <1>2, <2>1, <2>2, <2>3 DEF RequestInv, Progress, OneBody, Writes
  <2> QED BY <1>3, <2>1, <2>2, <2>3, <2>4 DEF Writes
<1>9. CASE SendResponse(r)
  <2> DEFINE Proc == Has(r) \cap {"output", "outputProcess"} # {}
  <2>1. /\ stage' = [stage EXCEPT ![r] = stage'[r]] /\ code' = [code EXCEPT ![r] = code'[r]]
        /\ stage[r] = "responding" /\ stage'[r] = "complete"
        /\ code'[r] \in Status \cup {"none"}
    BY <1>9 DEF SendResponse, HttpType, Goto
  <2>2. at' = at
    BY <1>9 DEF SendResponse, proxyVars
  <2>3. Writes(r, Proc \/ Parts(r) = 0)
    <3>1. \/ Proc /\ \E s \in CustomStatus : Written(r, s, "custom")
          \/ \E s \in Status, part \in Part : OwnWritten(r, s, part)
      BY <1>9 DEF SendResponse, Status, Part
    <3> QED BY <3>1, HttpWrite
  <2>4. RequestInv(r)'
    BY <1>2, <2>1, <2>2, <2>3 DEF RequestInv, Progress, OneBody, Writes
  <2> QED BY <1>3, <2>1, <2>2, <2>3, <2>4 DEF Writes
<1>10. CASE SendResponseFails(r)
  <2> DEFINE Proc == Has(r) \cap {"output", "outputProcess"} # {}
  <2>1. /\ stage' = [stage EXCEPT ![r] = stage'[r]] /\ code' = [code EXCEPT ![r] = code'[r]]
        /\ stage[r] = "responding"
        /\ \/ stage'[r] = "escaped"
           \/ stage'[r] = "reporting" /\ "process" \in Has(r) /\ code'[r] # "none"
        /\ code'[r] \in Status \cup {"none"}
    BY <1>10 DEF SendResponseFails, ResponseBreaks, HttpType, Goto, Report, Thrown, Status
  <2>2. at' = at
    BY <1>10 DEF SendResponseFails, proxyVars
  <2>3. Writes(r, Proc \/ Parts(r) = 0)
    <3>1. \/ UNCHANGED response
          \/ Proc /\ \E s \in CustomStatus : Written(r, s, "custom")
          \/ \E s \in Status, part \in Part : OwnWritten(r, s, part)
      BY <1>10 DEF SendResponseFails, ResponseBreaks, Status, Part
    <3> QED BY <3>1, HttpWrite
  <2>4. RequestInv(r)'
    BY <1>2, <2>1, <2>2, <2>3 DEF RequestInv, Progress, OneBody, Writes
  <2> QED BY <1>3, <2>1, <2>2, <2>3, <2>4 DEF Writes
<1>11. CASE SendErrorResponse(r)
  <2> DEFINE Proc == "errorProcess" \in Has(r)
  <2>1. /\ stage' = [stage EXCEPT ![r] = stage'[r]] /\ code' = [code EXCEPT ![r] = code'[r]]
        /\ stage[r] \in {"refusing", "reporting"} /\ stage'[r] = "complete"
        /\ code'[r] \in Status \cup {"none"}
    BY <1>11 DEF SendErrorResponse, HttpType, Goto
  <2>2. at' = at
    BY <1>11 DEF SendErrorResponse, proxyVars
  <2>3. Writes(r, Proc \/ Parts(r) = 0)
    <3>1. code[r] \in Status
      BY <2>1 DEF RequestInv, Progress, HttpType
    <3>2. \/ Proc /\ \E s \in CustomStatus : Written(r, s, "custom")
          \/ \E s \in Status, part \in Part : OwnWritten(r, s, part)
      BY <1>11, <3>1 DEF SendErrorResponse, Part
    <3> QED BY <3>2, HttpWrite
  <2>4. RequestInv(r)'
    BY <1>2, <2>1, <2>2, <2>3 DEF RequestInv, Progress, OneBody, Writes
  <2> QED BY <1>3, <2>1, <2>2, <2>3, <2>4 DEF Writes
<1>12. CASE SendErrorResponseFails(r)
  <2> DEFINE Proc == "errorProcess" \in Has(r)
  <2>1. /\ stage' = [stage EXCEPT ![r] = stage'[r]] /\ code' = [code EXCEPT ![r] = code'[r]]
        /\ \/ stage[r] = "refusing" /\ stage'[r] = "reporting" /\ code'[r] # "none"
           \/ stage[r] = "reporting" /\ stage'[r] = "escaped"
        /\ code'[r] \in Status \cup {"none"}
    BY <1>12 DEF SendErrorResponseFails, HttpType, Goto, Report, Thrown, Status
  <2>2. at' = at
    BY <1>12 DEF SendErrorResponseFails, proxyVars
  <2>3. Writes(r, Proc \/ Parts(r) = 0)
    <3>1. code[r] \in Status
      BY <2>1 DEF RequestInv, Progress, HttpType
    <3>2. \/ UNCHANGED response
          \/ Proc /\ \E s \in CustomStatus : Written(r, s, "custom")
          \/ \E s \in Status, part \in Part : OwnWritten(r, s, part)
      BY <1>12, <3>1 DEF SendErrorResponseFails, Part
    <3> QED BY <3>2, HttpWrite
  <2>4. RequestInv(r)'
    BY <1>2, <2>1, <2>2, <2>3 DEF RequestInv, Progress, OneBody, Writes
  <2> QED BY <1>3, <2>1, <2>2, <2>3, <2>4 DEF Writes
<1>13. CASE Escape(r)
  <2>1. /\ stage' = [stage EXCEPT ![r] = stage'[r]] /\ code' = [code EXCEPT ![r] = code'[r]]
        /\ stage'[r] \in {"complete", "broken"}
        /\ code'[r] \in Status \cup {"none"}
    BY <1>13 DEF Escape, HttpType, Goto
  <2>2. at' = at
    BY <1>13 DEF Escape, proxyVars
  <2>3. /\ response' \in [Request -> [status : Status, parts : Seq(Part)]]
        /\ \A q \in Request \ {r} : response'[q] = response[q]
        /\ response'[r].parts = response[r].parts
    <3> DEFINE new == [response[r] EXCEPT !.status = "error"]
    <3>1. response[r] \in [status : Status, parts : Seq(Part)] /\ "error" \in Status
      BY DEF HttpType, Status
    <3>2. new \in [status : Status, parts : Seq(Part)] /\ new.parts = response[r].parts
      BY <3>1
    <3>3. CASE response' = response
      BY <3>3 DEF HttpType
    <3>4. CASE response' = [response EXCEPT ![r] = new]
      <4>1. response'[r] = new
        BY <3>4 DEF HttpType
      <4> HIDE DEF new
      <4> QED BY <3>2, <3>4, <4>1 DEF HttpType
    <3> QED BY <1>13, <3>3, <3>4 DEF Escape
  <2>4. RequestInv(r)'
    BY <1>2, <2>1, <2>2, <2>3 DEF RequestInv, Progress, OneBody, Parts
  <2> QED BY <1>3, <2>1, <2>2, <2>3, <2>4
<1> QED BY <1>4, <1>5, <1>6, <1>7, <1>8, <1>9, <1>10, <1>11, <1>12, <1>13 DEF HandleStep

\* The call of a request, or of other code, starts no request of the gateway.
LEMMA HttpCalls ==
  ASSUME HttpInv, ProxyInv, NEW c \in Caller, Calling(c) \/ (c \notin Request /\ AppCalls(c))
  PROVE  HttpInv'
<1>1. UNCHANGED httpVars
  BY DEF Calling, AppCalls
<1>2. ASSUME NEW r \in Request PROVE at'[r] = "idle" <=> at[r] = "idle"
  <2>1. r \in Caller
    BY HttpApiCallAssumption
  <2>2. CASE Calling(c)
    BY <2>1, <2>2 DEF Calling, CallerStep, Create, CreateThrows, Call, ProxyInv
  <2>3. CASE c \notin Request /\ AppCalls(c)
    BY <2>1, <2>3 DEF AppCalls, TryGetValue, ProxyInv
  <2> QED BY <2>2, <2>3
<1>3. ASSUME NEW r \in Request PROVE RequestInv(r)'
  <2>1. /\ stage' = stage /\ code' = code /\ Has(r)' = Has(r) /\ Parts(r)' = Parts(r)
        /\ at'[r] = "idle" <=> at[r] = "idle"
    BY <1>1, <1>2 DEF httpVars, Has, Parts
  <2> QED BY <2>1 DEF HttpInv, RequestInv, Progress, OneBody
<1> QED BY <1>1, <1>3 DEF HttpInv, HttpType, httpVars

\* Only the handler of a request and its coming change its state there.
LEMMA HttpStep == PanelInv /\ HttpInv /\ ProxyInv /\ [Next]_vars => HttpInv'
<1> SUFFICES ASSUME PanelInv, HttpInv, ProxyInv, [Next]_vars PROVE HttpInv'
  OBVIOUS
<1>1. CASE SendRequest
  <2>1. sends' \in PanelRequest
    BY <1>1, DebugPanelAssumption DEF SendRequest, Send, PanelInv, PanelRequest
  <2>2. sends' \in Request /\ method \in Message \ {0}
    BY <2>1, GatewayUIAssumption DEF PanelInv
  <2> QED BY <1>1, <2>2, HttpReceive DEF SendRequest
<1>2. ASSUME NEW r \in Request, Handle(r) PROVE HttpInv'
  BY <1>2, HttpHandle DEF Handle
<1>3. CASE UNCHANGED gatewayVars
  BY <1>3 DEF gatewayVars, httpVars, proxyVars, HttpInv, HttpType, RequestInv, Progress,
     OneBody, Parts, Has
<1>4. CASE SelectMethod \/ Answered \/ GiveUp
  BY <1>4, <1>3 DEF SelectMethod, Answered, GiveUp
<1>5. ASSUME NEW c \in Caller, Calling(c) \/ (c \notin Request /\ AppCalls(c)) PROVE HttpInv'
  BY <1>5, HttpCalls
<1> QED BY <1>1, <1>2, <1>3, <1>4, <1>5 DEF Next, vars

----------------------------------------------------------------------------
(***************************************************************************)
(* The cache of proxies.                                                   *)
(***************************************************************************)

LEMMA ProxyStarts == GatewayInit => ProxyInv
BY ClientProxyAssumption DEF GatewayInit, Init, ProxyInv, CallGoesAsRouted

LEMMA ProxyGet ==
  ASSUME ProxyInv, NEW c \in Caller, NEW s \in Message, NEW m \in Message,
         TryGetValue(c, s, m)
  PROVE  ProxyInv'
<1>1. UNCHANGED <<routes, hosted, _typeCache, outcome>>
  BY DEF TryGetValue
<1>2. /\ special' \in [Caller -> Message] /\ message' \in [Caller -> Message]
      /\ proxy' \in [Caller -> {"none", "local", "remote"}]
      /\ at' \in [Caller -> {"idle", "missed", "got", "over"}]
  BY DEF ProxyInv, TryGetValue
<1>3. /\ at'[c] \in {"missed", "got"} /\ special'[c] = s /\ proxy'[c] = _typeCache[s]
      /\ at'[c] = "got" => _typeCache[s] # "none"
  BY DEF ProxyInv, TryGetValue
<1>4. \A d \in Caller \ {c} : /\ at'[d] = at[d] /\ special'[d] = special[d]
                             /\ message'[d] = message[d] /\ proxy'[d] = proxy[d]
  BY DEF ProxyInv, TryGetValue
<1>5. \A d \in Caller : at'[d] = "got" =>
        proxy'[d] = Chosen(special'[d]) /\ Usable(special'[d])
  BY <1>3, <1>4 DEF ProxyInv
<1>6. CallGoesAsRouted'
  BY <1>1, <1>3, <1>4 DEF ProxyInv, CallGoesAsRouted, RoutedAway, LocateServiceActor
<1> QED BY <1>1, <1>2, <1>5, <1>6
        DEF ProxyInv, Chosen, Usable, RoutedAway, LocateServiceActor

LEMMA ProxyCaller ==
  ASSUME ProxyInv, NEW c \in Caller, CallerStep(c)
  PROVE  ProxyInv'
<1>1. CASE Create(c)
  BY <1>1 DEF Create, ProxyInv, CallGoesAsRouted, Chosen, Usable, RoutedAway, LocateServiceActor
<1>2. CASE CreateThrows(c)
  BY <1>2 DEF CreateThrows, ProxyInv, CallGoesAsRouted, Chosen, Usable, RoutedAway,
     LocateServiceActor
<1>3. CASE Call(c)
  BY <1>3 DEF Call, ProxyInv, CallGoesAsRouted, Chosen, Usable, RoutedAway, LocateServiceActor
<1> QED BY <1>1, <1>2, <1>3 DEF CallerStep

LEMMA ProxyStep == PanelInv /\ HttpInv /\ ProxyInv /\ [Next]_vars => ProxyInv'
<1> SUFFICES ASSUME PanelInv, HttpInv, ProxyInv, [Next]_vars PROVE ProxyInv'
  OBVIOUS
<1>1. CASE UNCHANGED proxyVars
  BY <1>1 DEF proxyVars, ProxyInv, CallGoesAsRouted, Chosen, Usable, RoutedAway,
     LocateServiceActor
<1>2. CASE SendRequest
  BY <1>2, <1>1 DEF SendRequest, Receive
<1>3. CASE SelectMethod \/ Answered \/ GiveUp
  BY <1>3, <1>1 DEF SelectMethod, Answered, GiveUp, gatewayVars
<1>4. ASSUME NEW r \in Request, Handle(r) PROVE ProxyInv'
  <2>1. CASE Invoke(r)
    <3>1. TryGetValue(r, 0, api[r])
      BY <2>1 DEF Invoke
    <3>2. r \in Caller /\ 0 \in Message /\ api[r] \in Message
      BY ClientProxyAssumption, HttpApiCallAssumption DEF HttpInv, HttpType
    <3> QED BY <3>1, <3>2, ProxyGet
  <2>2. ASSUME Process(r) \/ Parse(r) \/ ParsePost(r) \/ Returned(r) PROVE UNCHANGED proxyVars
    BY <2>2 DEF Process, Parse, ParsePost, Returned
  <2>3. ASSUME SendResponse(r) \/ SendResponseFails(r) \/ SendErrorResponse(r)
                 \/ SendErrorResponseFails(r) \/ Escape(r)
        PROVE  UNCHANGED proxyVars
    BY <2>3 DEF SendResponse, SendResponseFails, SendErrorResponse,
                SendErrorResponseFails, Escape
  <2> QED BY <1>1, <1>4, <2>1, <2>2, <2>3 DEF Handle, HandleStep
<1>5. ASSUME NEW c \in Caller, Calling(c) PROVE ProxyInv'
  BY <1>5, ProxyCaller DEF Calling
<1>6. ASSUME NEW c \in Caller, AppCalls(c) PROVE ProxyInv'
  <2>1. PICK ask \in Asks : TryGetValue(c, ask[1], ask[2])
    BY <1>6 DEF AppCalls
  <2>2. ask[1] \in Message /\ ask[2] \in Message
    BY GatewayUIAssumption
  <2> QED BY <2>1, <2>2, ProxyGet
<1> QED BY <1>1, <1>2, <1>3, <1>4, <1>5, <1>6 DEF Next, vars, gatewayVars

----------------------------------------------------------------------------
(***************************************************************************)
(* What the page shows of the gateway's answers.                           *)
(***************************************************************************)

LEMMA TogetherStarts == GatewayInit => Together
BY DEF GatewayInit, PanelInit, Together, ShownTogether

\* The body of an answer that is over stays.
LEMMA OverStays ==
  ASSUME HttpInv, NEW q \in Request, Over(q), NEW r \in Request, HandleStep(r)
  PROVE  response'[q] = response[q] /\ stage'[q] = stage[q]
<1>1. r # q
  <2>1. ASSUME r = q, Process(r) \/ Parse(r) \/ ParsePost(r) \/ Invoke(r) \/ Returned(r)
        PROVE  FALSE
    BY <2>1 DEF Over, Process, Parse, ParsePost, Invoke, Returned
  <2>2. ASSUME r = q, SendResponse(r) \/ SendResponseFails(r) \/ SendErrorResponse(r)
                 \/ SendErrorResponseFails(r) \/ Escape(r)
        PROVE  FALSE
    BY <2>2 DEF Over, SendResponse, SendResponseFails, ResponseBreaks, SendErrorResponse,
                SendErrorResponseFails, Escape
  <2> QED BY <2>1, <2>2 DEF HandleStep
<1>2. response \in [Request -> [status : Status, parts : Seq(Part)]]
      /\ DOMAIN stage = Request
  BY DEF HttpInv, HttpType
<1>3. ASSUME Process(r) \/ Parse(r) \/ ParsePost(r) \/ Invoke(r) \/ Returned(r)
      PROVE  response'[q] = response[q] /\ stage'[q] = stage[q]
  BY <1>1, <1>2, <1>3
     DEF Process, Parse, ParsePost, Invoke, Returned, Goto, Refuse, Report, Written
<1>4. ASSUME SendResponse(r) \/ SendResponseFails(r) \/ SendErrorResponse(r)
               \/ SendErrorResponseFails(r) \/ Escape(r)
      PROVE  response'[q] = response[q] /\ stage'[q] = stage[q]
  BY <1>1, <1>2, <1>4 DEF SendResponse, SendResponseFails, SendErrorResponse,
     SendErrorResponseFails, ResponseBreaks, Escape, Goto, Report, OwnWritten, Written
<1> QED BY <1>3, <1>4 DEF HandleStep

LEMMA TogetherStep == PanelInv /\ HttpInv /\ Together /\ [Next]_vars => Together'
<1> SUFFICES ASSUME PanelInv, HttpInv, Together, [Next]_vars PROVE Together'
  OBVIOUS
<1>1. CASE SelectMethod
  BY <1>1 DEF SelectMethod, Select, Together, ShownTogether
<1>2. CASE GiveUp
  BY <1>2 DEF GiveUp, Answer, Together, ShownTogether
<1>3. CASE Answered
  <2>1. PICK kind \in Kinds(pending) : Answer(kind)
    BY <1>3 DEF Answered
  <2>2. CASE kind # "statusOnly"
    BY <2>1, <2>2 DEF Answer, Together, ShownTogether
  <2>3. CASE kind = "statusOnly"
    <3>1. /\ shownStatus' = pending /\ shownBody' = shownBody
          /\ pending # 0 /\ UNCHANGED <<stage, response>> /\ Over(pending)
      BY <1>3, <2>1, <2>3 DEF Answered, Answer, gatewayVars, httpVars
    <3>2. LET parts == response[pending].parts
          IN parts = <<>> \/ \E i \in 1 .. Len(parts) : parts[i] = "custom"
      BY <2>3 DEF Kinds
    <3>3. shownBody < pending
      BY <3>1, DebugPanelAssumption DEF PanelInv
    <3> QED BY <3>1, <3>2, <3>3 DEF Together, ShownTogether, Over
  <2> QED BY <2>2, <2>3
<1>4. ASSUME shownStatus # shownBody PROVE shownStatus \in Request
  BY <1>4, GatewayUIAssumption, DebugPanelAssumption DEF PanelInv, PanelRequest
<1>5. ASSUME UNCHANGED <<shownStatus, shownBody>>,
             shownStatus # shownBody =>
               /\ response'[shownStatus] = response[shownStatus]
               /\ stage'[shownStatus] = stage[shownStatus]
      PROVE  Together'
  BY <1>5 DEF Together, ShownTogether, Over
<1>6. CASE SendRequest
  <2>1. UNCHANGED <<shownStatus, shownBody, response>>
    BY <1>6 DEF SendRequest, Send, Receive
  <2>2. sends' # shownStatus
    BY <1>6, DebugPanelAssumption DEF SendRequest, Send, PanelInv
  <2>3. shownStatus # shownBody => stage'[shownStatus] = stage[shownStatus]
    BY <1>4, <1>6, <2>2 DEF SendRequest, Receive, Goto, HttpInv, HttpType
  <2> QED BY <1>5, <2>1, <2>3
<1>7. ASSUME NEW r \in Request, Handle(r) PROVE Together'
  <2>1. UNCHANGED <<shownStatus, shownBody>>
    BY <1>7 DEF Handle, panelVars
  <2> QED BY <1>4, <1>5, <1>7, <2>1, OverStays DEF Handle, Together
<1>8. CASE UNCHANGED <<panelVars, httpVars>>
  BY <1>5, <1>8 DEF panelVars, httpVars
<1>9. ASSUME NEW c \in Caller, Calling(c) \/ AppCalls(c) PROVE Together'
  BY <1>8, <1>9 DEF Calling, AppCalls
<1> QED BY <1>1, <1>2, <1>3, <1>6, <1>7, <1>8, <1>9 DEF Next, vars, gatewayVars

----------------------------------------------------------------------------
(***************************************************************************)
(* The theorems.                                                           *)
(***************************************************************************)

LEMMA Invariant == Spec => [](PanelInv /\ HttpInv /\ ProxyInv /\ Together)
<1>1. GatewayInit => PanelInv /\ HttpInv /\ ProxyInv /\ Together
  BY PanelStarts, HttpStarts, ProxyStarts, TogetherStarts
<1>2. PanelInv /\ HttpInv /\ ProxyInv /\ Together /\ [Next]_vars
        => (PanelInv /\ HttpInv /\ ProxyInv /\ Together)'
  BY PanelStep, HttpStep, ProxyStep, TogetherStep
<1> QED BY <1>1, <1>2, PTL DEF Spec

\* What the page shows under a method answers a request of that method, or one that
\* was under way when the method was selected.
THEOREM AnswersBelong == Spec => []ShownBelongs
<1>1. PanelInv => ShownBelongs
  BY DEF PanelInv
<1> QED BY <1>1, Invariant, PTL

\* A request that reached its service gets one part of a response, whatever throws
\* on the way; what is written behind a part is a processor's, behind a process plugin
\* or behind a refusal that broke off.
THEOREM ResponsesHaveOneBody == Spec => []OneResponse
<1>1. HttpInv => OneResponse
  BY DEF HttpInv, RequestInv, OneBody, Parts, OneResponse
<1> QED BY <1>1, Invariant, PTL

\* A call goes where the routes say for its special message id, then its message,
\* for any callers that share the cache.
THEOREM CallsGoAsRouted == Spec => []CallGoesAsRouted
<1>1. ProxyInv => CallGoesAsRouted
  BY DEF ProxyInv
<1> QED BY <1>1, Invariant, PTL

\* The page shows a status and a body of two answers only when the later answer had
\* no body of the handler's own.
THEOREM AnswersShownTogether == Spec => []ShownTogether
<1>1. Together => ShownTogether
  BY DEF Together
<1> QED BY <1>1, Invariant, PTL
==============================================================================
