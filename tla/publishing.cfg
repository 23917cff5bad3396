SPECIFICATION FairSpec
CONSTANTS
  d1 = d1
  d2 = d2
  c = c
  web = web
  youtube = youtube
  Deliveries = {d1, d2}
  Contents = {c}
  Channels = {web, youtube}
  ContentOf <- SameContent
  ChannelsOf <- BothChannels
  Retries = 1
  MaxFaults = 1
CHECK_DEADLOCK FALSE
INVARIANT TypeOK
INVARIANT AtMostOneCall
INVARIANT OutcomeIsTrue
INVARIANT AckMeansPublished
PROPERTY RowIsFinal
PROPERTY ChannelsAreIsolated
PROPERTY EventEnds
