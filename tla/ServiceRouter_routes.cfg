\* Two callers, every combination of message, service and group routes; an int
\* of four values, so that the counters overflow and come round.
CONSTANTS
  Caller = {p1, p2}
  Key <- MCKey
  NoKey = NoKey
  MaxIndex = 1
  NoIndex = NoIndex
  Options <- MCOptions
  Request <- MCRequest
SPECIFICATION RouterSpec
SYMMETRY CallerSymmetry
INVARIANTS
  RightRoute
  NothingConfiguredIsLost
  NoEndpointSkipped
  RepeatsOnlyWhenConcurrent
  NegativeOnlyAfterOverflow
PROPERTIES
  CounterNeverGoesBack
