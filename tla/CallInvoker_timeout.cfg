\* One call is enough to lose its timeout.
CONSTANTS
  MaxCalls = 1
  SeqModulus = 4
  Method = {m1}
SPECIFICATION FairSpec
PROPERTIES
  EveryCallEnds
CHECK_DEADLOCK FALSE
