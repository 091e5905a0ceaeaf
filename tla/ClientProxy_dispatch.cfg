\* One call, against every combination of routes and registered actors.
CONSTANTS
  Caller = {c1}
  Message <- MCMessage
  Group = Group
  Deployment <- MCDeployment
SPECIFICATION ProxySpec
INVARIANTS
  CallsAreDispatched
CHECK_DEADLOCK FALSE
