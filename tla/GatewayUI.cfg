\* Two methods, two requests, one other caller; two tables of routes and actors, one
\* configuration of the plugins; the timer of the browser fires.
CONSTANTS
  Method = {1, 2}
  MaxSends = 2
  Message = {0, 1, 2}
  Group = Group
  Deployment <- MCDeployment
  Caller <- MCCaller
  Request <- MCRequest
  Conf <- MCConf
  Asks <- MCAsks
SPECIFICATION FairSpec
INVARIANTS
  CallGoesAsRouted
  OneResponse
  ShownBelongs
  ShownTogether
PROPERTIES
  SendEnds
CHECK_DEADLOCK FALSE
