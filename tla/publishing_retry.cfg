SPECIFICATION Spec
CONSTANTS
  d1 = d1
  d2 = d2
  c = c
  web = web
  youtube = youtube
  Deliveries = {d1}
  Contents = {c}
  Channels = {web, youtube}
  ContentOf <- SameContent
  ChannelsOf <- BothChannels
  Retries = 3
  MaxFaults = 0
CHECK_DEADLOCK FALSE
INVARIANT FailureIsRetried
