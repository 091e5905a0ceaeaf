--------------------------- MODULE MCAmpConnection ---------------------------
(***************************************************************************)
(* A connection for TLC: a call of a service that is there, with data, and *)
(* calls of two that are not, whose ids do and do not fit 16 bits, one of  *)
(* them with empty data.                                                   *)
(***************************************************************************)
EXTENDS AmpConnection

MCCall ==
  {[serviceId |-> 100, messageId |-> 1, data |-> <<8, 250>>],
   [serviceId |-> 200, messageId |-> 65535, data |-> <<>>],
   [serviceId |-> 65636, messageId |-> 1, data |-> <<1>>]}

MCServed == {<<100, 1>>}

MCResult ==
  {[code |-> 0, data |-> <<1, 2>>], [code |-> -1, data |-> NoData]}

\* The second number overflows.
MCStart == MaxInt - 1
=============================================================================
