\* One call that ends with an exception.
CONSTANTS
  Message = {r1}
  Registrations <- MCRegistrations
  Content <- MCContent
SPECIFICATION Spec
INVARIANTS
  EveryCallAudited
CHECK_DEADLOCK FALSE
