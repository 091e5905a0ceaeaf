------------------------------ MODULE GatewayUI -------------------------------
(***************************************************************************)
(* The Swagger page in front of the gateway: DebugPanel sends, HttpApiCall *)
(* answers by a call through ClientProxy, while other code of the process  *)
(* calls the same service through the same cache of proxies.               *)
(*                                                                         *)
(* The page and the gateway share nothing but the request and its answer.  *)
(* The page gives a request up after five minutes, or when its connection  *)
(* is lost; the gateway goes on with it, beside the next one.              *)
(***************************************************************************)
EXTENDS DebugPanel, HttpApiCall

CONSTANT Asks  \* what other code asks for: special message id and message

ASSUME GatewayUIAssumption ==
  /\ Request = PanelRequest
  /\ Method = Message \ {0}
  /\ Asks \subseteq Message \X Method

vars == <<panelVars, gatewayVars>>

GatewayInit == PanelInit /\ Init /\ HttpInit

\* The browser's view of a response: what a plugin wrote may be empty or a file, a
\* status that is none is no response of HTTP, and neither is one that was cut.
Kinds(r) ==
  LET res == response[r] IN
    IF stage[r] = "broken" THEN {"none"}
    ELSE (IF "custom" \in {res.parts[i] : i \in 1 .. Len(res.parts)}
            THEN {"both", "statusOnly"}
          ELSE IF res.status # "ok" /\ res.parts = <<>> THEN {"statusOnly"}
          ELSE {"both"})
         \cup (IF res.status = "invalid" THEN {"none"} ELSE {})

----------------------------------------------------------------------------
SelectMethod == (\E m \in Method : Select(m)) /\ UNCHANGED gatewayVars

\* The request reaches the gateway; one that does not ends as GiveUp.
SendRequest ==
  /\ Send
  /\ Receive(sends', method)

Answered ==
  /\ pending # 0 /\ Over(pending)
  /\ \E kind \in Kinds(pending) : Answer(kind)
  /\ UNCHANGED gatewayVars

\* axios' timeout (3e5 ms), or a connection that is lost.
GiveUp == Answer("none") /\ UNCHANGED gatewayVars

Handle(r) ==
  /\ HandleStep(r)
  /\ UNCHANGED panelVars

\* The call of a request, or of other code that got a proxy.
Calling(c) == CallerStep(c) /\ UNCHANGED <<panelVars, httpVars>>

\* Other code asks for the proxy, with a special message id or without.
AppCalls(c) ==
  /\ \E ask \in Asks : TryGetValue(c, ask[1], ask[2])
  /\ UNCHANGED <<panelVars, httpVars>>

Next ==
  \/ SelectMethod \/ SendRequest \/ Answered \/ GiveUp
  \/ \E r \in Request : Handle(r)
  \/ \E c \in Caller : Calling(c)
  \/ \E c \in Caller \ Request : AppCalls(c)

Spec == GatewayInit /\ [][Next]_vars

\* The browser's timer fires; nothing else is taken on trust to happen.
FairSpec == Spec /\ WF_vars(GiveUp)

----------------------------------------------------------------------------
(***************************************************************************)
(* Properties.                                                             *)
(***************************************************************************)

\* The status and the body on the page are of one answer (the two states of
\* Response), unless the later answer, whose status is shown, had no body that the
\* page could show: an exception left the gateway, or a plugin of it wrote.
ShownTogether ==
  shownStatus # shownBody =>
    /\ shownBody < shownStatus
    /\ LET parts == response[shownStatus].parts
       IN parts = <<>> \/ \E i \in 1 .. Len(parts) : parts[i] = "custom"
=============================================================================
