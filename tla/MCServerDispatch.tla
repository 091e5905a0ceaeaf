--------------------------- MODULE MCServerDispatch ---------------------------
(***************************************************************************)
(* Lists of actors and messages for TLC: service 100 with messages 1 and   *)
(* 2, bound in every way the two tables tell apart.                        *)
(***************************************************************************)
EXTENDS ServerDispatch

Foo(id) == [id |-> id, interface |-> "IFoo", service |-> 100, numbers |-> {1, 2}]
Bar(id) == [id |-> id, interface |-> "IBar", service |-> 100, numbers |-> {2, 3}]

\* No actor; one; two of one interface; one for the service and one for message
\* 2; one with the id of message 1 only; two interfaces that share the service
\* id, in either order.
MCRegistrations ==
  {<<>>,
   <<Foo(<<100, 0>>)>>,
   <<Foo(<<100, 0>>), Foo(<<100, 0>>)>>,
   <<Foo(<<100, 2>>), Foo(<<100, 0>>)>>,
   <<Foo(<<100, 1>>)>>,
   <<Foo(<<100, 0>>), Bar(<<100, 0>>)>>,
   <<Bar(<<100, 0>>), Foo(<<100, 0>>)>>}

Shape(type, m, data) == [type |-> type, method |-> m, data |-> data]

MCContent ==
  {Shape("Request", <<100, n>>, "good") : n \in 1..2}
  \cup {Shape("Request", <<100, 2>>, "bad"),
        Shape("OnewayRequest", <<100, 1>>, "none"),
        Shape("Request", <<200, 1>>, "good"),
        Shape("Response", <<100, 1>>, "good"),
        Shape("Request", HeartBeat, "none")}

=============================================================================
