\* Two calls that carry the same sequence number, and the same id when they call
\* the same method.
CONSTANTS
  MaxCalls = 2
  SeqModulus = 1
  Method = {m1, m2}
SPECIFICATION Spec
INVARIANTS
  EntryIsUnanswered
  ResponseMatchesId
  LostOnlyToTwin
CHECK_DEADLOCK FALSE
