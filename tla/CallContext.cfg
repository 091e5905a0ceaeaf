\* Three calls, in one context, two or three, and one key of their items.
CONSTANTS
  Call = {c1, c2, c3}
  NoContext = NoContext
  Key = {k1}
SPECIFICATION Spec
INVARIANTS
  DisposedOnlyWhenAlone
  NothingLeftBehind
  ThrowsOnlyInARace
CHECK_DEADLOCK FALSE
