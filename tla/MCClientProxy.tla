---------------------------- MODULE MCClientProxy -----------------------------
EXTENDS ClientProxy

\* Every table of routes, and every table of actors, for a service of two methods.
MCMessage == {0, 1, 2}
MCDeployment ==
  [routes : SUBSET (MCMessage \cup {Group}),
   hosted : [MCMessage -> {"none", "service", "other"}]]
==============================================================================
