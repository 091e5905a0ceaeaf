\* Two callers, two endpoints, four connections, CloseAllTransports at any time.
CONSTANTS
  Caller = {p1, p2}
  Endpoint = {e1, e2}
  NoEndpoint = NoEndpoint
  MaxChannels = 4
SPECIFICATION FairSpec
INVARIANTS
  SemaphoreSound
  CacheEmptyWhileConnecting
  RightEndpoint
  NoStrayConnection
  EventHitsOwnChannel
  DeadEntryMissedItsEvent
PROPERTIES
  CreateTransportEnds
