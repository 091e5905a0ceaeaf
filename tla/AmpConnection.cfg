\* A client that sends up to two messages, of four kinds.
CONSTANTS
  NoData = NoData
  Codec = 2
  Call <- MCCall
  Served <- MCServed
  Result <- MCResult
  Start <- MCStart
  MaxSent = 2
SPECIFICATION Spec
INVARIANTS
  FramesInStep
  DeliveredAsSent
  AnswersMatch
PROPERTIES
  SentArrives
CHECK_DEADLOCK FALSE
