------------------------------- MODULE RpcCall -------------------------------
(***************************************************************************)
(* What a remote call promises its caller, whatever the client does inside *)
(* (ICallInvoker.InvokerAsync, implemented by DefaultCallInvoker): a call  *)
(* ends at most once, with the server's answer to that very call, with a   *)
(* timeout only after its own deadline has passed, or with a local error.  *)
(***************************************************************************)

CONSTANTS Call,         \* the invocations
          Answer,       \* what a server may answer
          LocalError    \* ways a call may fail without the server

VARIABLES status,       \* status[c]: "unused", "open", or how the call ended
          answer,       \* answer[c]: what the server answered, or "none"
          expired       \* the calls whose deadline has passed

vars == <<status, answer, expired>>

Ended == Answer \cup LocalError \cup {"timeout"}

Init ==
  /\ status = [c \in Call |-> "unused"]
  /\ answer = [c \in Call |-> "none"]
  /\ expired = {}

Begin(c) ==
  /\ status[c] = "unused"
  /\ status' = [status EXCEPT ![c] = "open"]
  /\ UNCHANGED <<answer, expired>>

\* The server may answer late, after the caller has given up.
Serve(c) ==
  /\ status[c] # "unused"
  /\ answer[c] = "none"
  /\ \E a \in Answer : answer' = [answer EXCEPT ![c] = a]
  /\ UNCHANGED <<status, expired>>

Expire(c) ==
  /\ status[c] = "open"
  /\ expired' = expired \cup {c}
  /\ UNCHANGED <<status, answer>>

Finish(c, how) ==
  /\ status[c] = "open"
  /\ how \in Answer => how = answer[c]
  /\ how = "timeout" => c \in expired
  /\ status' = [status EXCEPT ![c] = how]
  /\ UNCHANGED <<answer, expired>>

Next ==
  \E c \in Call :
    \/ Begin(c)
    \/ Serve(c)
    \/ Expire(c)
    \/ \E how \in Ended : Finish(c, how)

Spec == Init /\ [][Next]_vars
=============================================================================
