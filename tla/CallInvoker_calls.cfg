\* Two concurrent calls, of two methods, with sequence numbers that do not wrap,
\* under the fairness of the client's own threads.
CONSTANTS
  MaxCalls = 2
  SeqModulus = 4
  Method = {m1, m2}
SPECIFICATION FairSpec
INVARIANTS
  OwnResponse
  Answerable
  LeakOnlyOnClosedChannel
PROPERTIES
  ImplementsRpcCall
  ArmedCallEnds
CHECK_DEADLOCK FALSE
