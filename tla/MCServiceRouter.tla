--------------------------- MODULE MCServiceRouter ---------------------------
(***************************************************************************)
(* Configurations and requests for TLC: service 100 with messages 0, 1 and *)
(* 2, the default group, the group "my", a group whose name has a dot, and *)
(* one that is named like a message.                                       *)
(***************************************************************************)
EXTENDS ServiceRouter

MessageCfg(m, remotes) ==
  [service |-> "100", message |-> m, remotes |-> remotes, weight |-> 1]
ServiceCfg(remotes) == [service |-> "100", remotes |-> remotes, weight |-> 1]
GroupCfg(g, remotes) == [group |-> g, remotes |-> remotes, weight |-> 1]

\* Every combination of: a message route (of one entry or of two), a service
\* route, the route of one of three groups.
MCOptions ==
  [messages   : {<<>>, <<MessageCfg("1", <<"a", "b">>)>>,
                 <<MessageCfg("1", <<"a">>), MessageCfg("1", <<"b">>)>>},
   services   : {<<>>, <<ServiceCfg(<<"c">>)>>},
   categories : {<<>>, <<GroupCfg(<<"default">>, <<"d", "e">>)>>,
                 <<GroupCfg(<<"my">>, <<"f">>)>>,
                 <<GroupCfg(<<"100", "1">>, <<"g">>)>>}]

MCRequest ==
  {[group |-> <<"">>, service |-> "100", message |-> "1"],
   [group |-> <<"">>, service |-> "100", message |-> "2"],
   [group |-> <<"my">>, service |-> "100", message |-> "0"],
   [group |-> <<"my", "app">>, service |-> "100", message |-> "1"]}

\* Callers are interchangeable.
CallerSymmetry == Permutations(Caller)

MCKey ==
  {<<"default">>, <<"my">>, <<"">>} \cup {<<"100", m>> : m \in {"0", "1", "2"}}
  \cup {<<"app", "0">>, <<"app", "100">>}

\* Up to four points with the weights that configurations give them, in every
\* order, for one group.
WeightedOptions ==
  [messages : {<<>>}, services : {<<>>},
   categories : {[i \in 1..n |-> [group |-> <<"default">>,
                                 remotes |-> <<"a">>, weight |-> w[i]]] :
                 n \in 1..4, w \in [1..4 -> 1..2]}]

WeightedRequest == {[group |-> <<"default">>, service |-> "100", message |-> "1"]}
=============================================================================
