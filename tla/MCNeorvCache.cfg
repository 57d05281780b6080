\* Both modes of the cache.
SPECIFICATION Spec
CONSTANTS
  Blocks = 2
  Words = 2
  Tags = 2
  Modes = {TRUE, FALSE}
  Value <- MCValue
  Values <- MCValues
  Initial <- MCInitial
  Junk <- MCJunk
  Requests <- MCRequests
  Stores <- MCStores
  Bad <- MCBad
  Changing <- MCChanging
INVARIANT TypeOK
INVARIANT ReadsFresh
INVARIANT FenceAfterWriteback
INVARIANT ResponsesAnswerRequests
PROPERTY RequestsAnswered
