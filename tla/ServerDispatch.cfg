\* Two messages of every kind, every list of actors, tasks that go on.
CONSTANTS
  Message = {r1, r2}
  Registrations <- MCRegistrations
  Content <- MCContent
SPECIFICATION FairSpec
INVARIANTS
  TypeOK
  ServedUnlessConflict
  ReplyTellsResult
  AuditedIffReturned
PROPERTIES
  RepliedOnce
  RequestsAnswered
CHECK_DEADLOCK FALSE
