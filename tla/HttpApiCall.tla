----------------------------- MODULE HttpApiCall -----------------------------
(***************************************************************************)
(* HttpApiCallHandler of the HTTP gateway: what becomes of a web request,  *)
(* through plugins, parser, the call of the service (by its ClientProxy)   *)
(* and the writers of the response, on every path an exception may take.   *)
(*                                                                         *)
(* A response is a status and the parts of its body that were written; it  *)
(* has started with the first part.  The web server (Kestrel) is external: *)
(* it sends what is written, refuses a status after that, answers for a    *)
(* handler that threw, and cuts the connection when it cannot.             *)
(***************************************************************************)
EXTENDS ClientProxy, Sequences

CONSTANTS Request, \* the callers that are web requests
          Conf     \* the configurations that are tried: of Configurable, by method

\* The plugins of the method, by their interfaces; the processors of the
\* application for output and for errors.
Configurable == {"process", "parse", "post", "output", "outputProcess", "errorProcess"}

ASSUME HttpApiCallAssumption ==
  Request \subseteq Caller /\ Conf \subseteq [Message \ {0} -> SUBSET Configurable]

VARIABLES
  conf,      \* what is configured for a method
  stage,     \* where a request is in HandleCallAsync
  api,       \* the method it is for, or 0
  code,      \* the status that SendErrorResponse is called with
  response   \* what the web server has got of the response

httpVars == <<conf, stage, api, code, response>>
gatewayVars == <<proxyVars, httpVars>>

\* 200; another status of HTTP; a number that is none: 0, or a code of
\* RpcStatusCodes, which RpcException has unless told otherwise.
Status == {"ok", "error", "invalid"}
Thrown == {"error", "invalid"}

\* What a plugin or a processor sets; its 200 stands for any status of HTTP, as its
\* body may be any.
CustomStatus == {"ok", "invalid"}

HttpInit ==
  /\ conf \in Conf
  /\ stage = [r \in Request |-> "idle"]
  /\ api = [r \in Request |-> 0]
  /\ code = [r \in Request |-> "none"]
  /\ response = [r \in Request |-> [status |-> "ok", parts |-> <<>>]]

Has(r) == IF api[r] = 0 THEN {} ELSE conf[api[r]]
Started(r) == response[r].parts # <<>>
Over(r) == stage[r] \in {"complete", "broken"}

Goto(r, s) == stage' = [stage EXCEPT ![r] = s]

\* SendErrorResponse is called from two sides of the try block: inside it, for a
\* request that is refused, or outside, for an exception.
Refuse(r, s) == Goto(r, "refusing") /\ code' = [code EXCEPT ![r] = s]
Report(r, s) == Goto(r, "reporting") /\ code' = [code EXCEPT ![r] = s]

\* A part is written; the status, unless it has been sent already.
Written(r, s, part) ==
  response' = [response EXCEPT ![r] =
    [status |-> IF Started(r) THEN @.status ELSE s, parts |-> Append(@.parts, part)]]

\* The handler itself sets the status first, which throws in a response that has
\* started.
OwnWritten(r, s, part) == ~Started(r) /\ Written(r, s, part)

----------------------------------------------------------------------------
\* A request comes; the processors are resolved and its plugin is made outside the
\* try block, and their constructors may throw.
Receive(r, m) ==
  /\ stage[r] = "idle"
  /\ api' = [api EXCEPT ![r] = m]
  /\ \/ Goto(r, "received")
     \/ conf[m] # {} /\ Goto(r, "escaped")
  /\ UNCHANGED <<proxyVars, conf, code, response>>

\* A process plugin does all, and may write itself, whatever follows; it returns
\* a response to be sent, or something else, or throws.
Process(r) ==
  /\ stage[r] = "received"
  /\ "process" \in Has(r)
  /\ \/ UNCHANGED response
     \/ \E s \in CustomStatus : Written(r, s, "custom")
  /\ \/ \E s \in {"complete", "responding"} : Goto(r, s) /\ UNCHANGED code
     \/ \E s \in Thrown : Report(r, s)
  /\ UNCHANGED <<proxyVars, conf, api>>

\* The parse plugin or CreateMessage: a request, a refusal, or an exception.  A
\* body that is the JSON null, with nothing in the path or the query to set on it,
\* is refused with 200; a plugin refuses with anything.
Parse(r) ==
  /\ stage[r] = "received"
  /\ "process" \notin Has(r)
  /\ \/ Goto(r, "parsed") /\ UNCHANGED code
     \/ \E s \in {"ok", "error"} : Refuse(r, s)
     \/ Report(r, "error")
     \/ "parse" \in Has(r) /\ (Refuse(r, "invalid") \/ Report(r, "invalid"))
  /\ UNCHANGED <<proxyVars, conf, api, response>>

ParsePost(r) ==
  /\ stage[r] = "parsed"
  /\ "post" \in Has(r)
  /\ \/ Goto(r, "ready") /\ UNCHANGED code
     \/ \E s \in Thrown : Refuse(r, s) \/ Report(r, s)
  /\ UNCHANGED <<proxyVars, conf, api, response>>

\* ApiMethodInvoker gets the proxy without a special message id.
Invoke(r) ==
  /\ stage[r] = IF "post" \in Has(r) THEN "ready" ELSE "parsed"
  /\ TryGetValue(r, 0, api[r])
  /\ Goto(r, "calling")
  /\ UNCHANGED <<conf, api, code, response>>

\* What the call may end with, after where it went.  A remote call returns a
\* result with a code, that of a timeout too, or throws what is no RpcException;
\* an actor here returns what it likes, null too.
Returned(r) ==
  /\ stage[r] = "calling"
  /\ at[r] = "over"
  /\ \/ outcome[r] # "missing" /\ Goto(r, "responding") /\ UNCHANGED code
     \/ outcome[r] # "refused" /\ Report(r, "error")
     \/ outcome[r] = "local" /\ Report(r, "invalid")
  /\ UNCHANGED <<proxyVars, conf, api, response>>

\* SendResponse: by a processor, or by the handler.
SendResponse(r) ==
  /\ stage[r] = "responding"
  /\ \/ /\ Has(r) \cap {"output", "outputProcess"} # {}
        /\ \E s \in CustomStatus : Written(r, s, "custom")
     \/ OwnWritten(r, "ok", "result")
  /\ Goto(r, "complete")
  /\ UNCHANGED <<proxyVars, conf, api, code>>

\* It throws, before a part of the body is written or behind one: a processor, the
\* setting of the status, or ToJson (the writer is disposed of).
ResponseBreaks(r) ==
  /\ stage[r] = "responding"
  /\ \/ UNCHANGED response
     \/ /\ Has(r) \cap {"output", "outputProcess"} # {}
        /\ \E s \in CustomStatus : Written(r, s, "custom")
     \/ OwnWritten(r, "ok", "partial")

\* Wrong: every exception of SendResponse is reported.
SendResponseFailsInside(r) ==
  /\ ResponseBreaks(r)
  /\ \E s \in Thrown : Report(r, s)
  /\ UNCHANGED <<proxyVars, conf, api>>

\* The result of a process plugin is sent inside the try block, that of a call
\* outside.
SendResponseFails(r) ==
  /\ ResponseBreaks(r)
  /\ IF "process" \in Has(r) THEN \E s \in Thrown : Report(r, s)
                              ELSE Goto(r, "escaped") /\ UNCHANGED code
  /\ UNCHANGED <<proxyVars, conf, api>>

\* SendErrorResponse: by a processor, or by the handler.
SendErrorResponse(r) ==
  /\ stage[r] \in {"refusing", "reporting"}
  /\ \/ "errorProcess" \in Has(r) /\ \E s \in CustomStatus : Written(r, s, "custom")
     \/ OwnWritten(r, code[r], "error")
  /\ Goto(r, "complete")
  /\ code' = [code EXCEPT ![r] = "none"]
  /\ UNCHANGED <<proxyVars, conf, api>>

\* It throws as SendResponse does.  For a refusal that is an exception in the try
\* block: the error processor is called again, with it.
SendErrorResponseFails(r) ==
  /\ stage[r] \in {"refusing", "reporting"}
  /\ \/ UNCHANGED response
     \/ "errorProcess" \in Has(r) /\ \E s \in CustomStatus : Written(r, s, "custom")
     \/ OwnWritten(r, code[r], "partial")
  /\ IF stage[r] = "refusing" THEN \E s \in Thrown : Report(r, s)
     ELSE Goto(r, "escaped") /\ code' = [code EXCEPT ![r] = "none"]
  /\ UNCHANGED <<proxyVars, conf, api>>

\* The web server, for an exception out of the handler: 500 and no body, or the
\* end of a response that has started.
Escape(r) ==
  /\ stage[r] = "escaped"
  /\ IF Started(r) THEN Goto(r, "broken") /\ UNCHANGED response
     ELSE Goto(r, "complete")
          /\ response' = [response EXCEPT ![r].status = "error"]
  /\ UNCHANGED <<proxyVars, conf, api, code>>

HandleStep(r) ==
  \/ Process(r) \/ Parse(r) \/ ParsePost(r) \/ Invoke(r) \/ Returned(r)
  \/ SendResponse(r) \/ SendResponseFails(r)
  \/ SendErrorResponse(r) \/ SendErrorResponseFails(r) \/ Escape(r)

----------------------------------------------------------------------------
(***************************************************************************)
(* Properties.                                                             *)
(***************************************************************************)

\* A response has one body, in every stage.  Once the service has been asked for,
\* only one part is ever written, whatever throws: SendResponse is outside the try
\* block then, and no error is reported behind it.  A second part is a processor's:
\* behind a process plugin, or by the error processor behind a refusal that broke
\* off (HandleCallAsync reports it again).  A third takes a process plugin.
OneResponse ==
  \A r \in Request :
    /\ Len(response[r].parts) > 1 =>
         /\ at[r] = "idle"
         /\ \/ "errorProcess" \in Has(r)
            \/ "process" \in Has(r) /\ Has(r) \cap {"output", "outputProcess"} # {}
    /\ Len(response[r].parts) > 2 => "process" \in Has(r)
    /\ Len(response[r].parts) <= 3
==============================================================================
