----------------------------- MODULE MCGatewayUI ------------------------------
EXTENDS GatewayUI, TLC

\* Two requests of the page and one caller of the process itself.
MCCaller == 1 .. 3
MCRequest == {1, 2}

MCAsks == {<<2, 1>>}

\* The service is here, but for its first method and with another actor under its
\* second; or elsewhere, with its second method here and without a route of its own.
MCDeployment ==
  {[routes |-> {1},    hosted |-> (0 :> "service") @@ (1 :> "none") @@ (2 :> "other")],
   [routes |-> {0, 1}, hosted |-> (0 :> "none") @@ (1 :> "none") @@ (2 :> "service")]}

\* One method with plugins on the way to its call and processors of both kinds,
\* one with a process plugin and no error processor.
MCConf ==
  {(1 :> {"parse", "post", "output", "errorProcess"})
     @@ (2 :> {"process", "outputProcess"})}
==============================================================================
