SPECIFICATION FairSpec
CONSTANTS
  w1 = w1
  w2 = w2
  a1 = a1
  a2 = a2
  key = key
  NoKey = NoKey
  None = None
  Pending = Pending
  Requests = {w1, w2, a1, a2}
  Keys = {key}
  KeyOf <- TheKeys
  Kind <- TheKinds
  Threshold = 1
  EvictAt = 1
  MaxCrashes = 1
CHECK_DEADLOCK FALSE
INVARIANT TypeOK
INVARIANT StoreIsTrue
 
 
 
