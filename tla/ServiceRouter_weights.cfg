\* One to four entries of different weights for one group.
CONSTANTS
  Caller = {p1}
  Key <- MCKey
  NoKey = NoKey
  MaxIndex = 3
  NoIndex = NoIndex
  Options <- WeightedOptions
  Request <- WeightedRequest
SPECIFICATION RouterSpec
INVARIANTS
  OrderedByWeight
