------------------------------ MODULE DebugPanel ------------------------------
(***************************************************************************)
(* The Debug tab of the Swagger page (src/DotBPE.Gateway/Swagger/UI, the   *)
(* built DebugContent.js): it sends a request of the selected method and   *)
(* shows the status and the body of the answer.                            *)
(*                                                                         *)
(* The page keeps one panel and hands it another method, so a request may  *)
(* be under way when its method is no longer selected.  Status and body    *)
(* are two states, set one by one, and not on every path.                  *)
(*                                                                         *)
(* The requests are numbered as they are sent.  The forms, the token and   *)
(* the download of a file are left out; so is a click that is refused in   *)
(* the page (no path parameter, no JSON): it changes nothing that is       *)
(* shown.  React runs the effects of a click before the next event.        *)
(***************************************************************************)
EXTENDS Naturals

CONSTANTS Method,   \* the numbers of the API's methods
          MaxSends  \* bound: the requests sent

ASSUME DebugPanelAssumption == 1 \in Method /\ MaxSends \in Nat

VARIABLES
  method,       \* the selected method
  asked,        \* asked[r]: the method request r was sent for
  sends,        \* how many requests have been sent
  loading,      \* the button is spinning, and takes no click
  pending,      \* the request whose answer httpAction is awaited, or 0
  shownStatus,  \* the request whose status is shown, or 0
  shownBody,    \* the request whose body is shown, or 0
  late          \* the requests that were pending at a change of method

panelVars == <<method, asked, sends, loading, pending, shownStatus, shownBody, late>>

PanelRequest == 1 .. MaxSends

\* The page selects the first method when it has the description of the API.
PanelInit ==
  /\ method = 1
  /\ asked = [r \in PanelRequest |-> 1]
  /\ sends = 0
  /\ loading = FALSE
  /\ pending = 0
  /\ shownStatus = 0
  /\ shownBody = 0
  /\ late = {}

----------------------------------------------------------------------------
\* Wrong: the answer stays when the method changes.
SelectKeepsAnswer(m) ==
  /\ m # method
  /\ method' = m
  /\ late' = IF pending = 0 THEN late ELSE late \cup {pending}
  /\ UNCHANGED <<asked, sends, loading, pending, shownStatus, shownBody>>

\* Another method is selected: the effect on it forgets the answer, and the
\* request under way, if any, goes on.
Select(m) ==
  /\ m # method
  /\ method' = m
  /\ shownStatus' = 0
  /\ shownBody' = 0
  /\ late' = IF pending = 0 THEN late ELSE late \cup {pending}
  /\ UNCHANGED <<asked, sends, loading, pending>>

Send ==
  /\ ~loading
  /\ sends < MaxSends
  /\ sends' = sends + 1
  /\ asked' = [asked EXCEPT ![sends'] = method]
  /\ pending' = sends'
  /\ loading' = TRUE
  /\ UNCHANGED <<method, shownStatus, shownBody, late>>

\* What the panel does with an answer: it shows status and body; an error without
\* a body, and a file without a name (the code throws behind the status), give the
\* status only; no response at all is shown as 500, "Internal Server Error".
AnswerKind == {"both", "statusOnly", "none"}

\* Wrong: only an answer that was shown ends the loading.
AnswerWithoutFinally(kind) ==
  /\ pending # 0
  /\ shownStatus' = pending
  /\ shownBody' = IF kind = "statusOnly" THEN shownBody ELSE pending
  /\ loading' = (kind = "statusOnly")
  /\ pending' = 0
  /\ UNCHANGED <<method, asked, sends, late>>

\* Wrong: no response is shown as a status.
AnswerNoneStatusOnly(kind) ==
  /\ pending # 0
  /\ shownStatus' = pending
  /\ shownBody' = IF kind = "both" THEN pending ELSE shownBody
  /\ loading' = FALSE
  /\ pending' = 0
  /\ UNCHANGED <<method, asked, sends, late>>

\* The promise of the request is settled.
Answer(kind) ==
  /\ pending # 0
  /\ shownStatus' = pending
  /\ shownBody' = IF kind = "statusOnly" THEN shownBody ELSE pending
  /\ loading' = FALSE
  /\ pending' = 0
  /\ UNCHANGED <<method, asked, sends, late>>

----------------------------------------------------------------------------
(***************************************************************************)
(* Properties.                                                             *)
(***************************************************************************)

\* What is shown under a method (Response, below Send) answers a request of that
\* method, unless the request was under way when the method was selected.
ShownBelongs ==
  \A r \in {shownStatus, shownBody} \ {0} : asked[r] = method \/ r \in late

\* The Send button comes back, whatever becomes of the request (finally).
SendEnds == loading ~> ~loading
=============================================================================
