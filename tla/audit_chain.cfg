SPECIFICATION FairSpec
CONSTANTS
  w1 = w1
  w2 = w2
  Writers = {w1, w2}
  ClockOf <- OneMillisecondApart
  Subject = {"validate"}
  Undefined = Undefined
  Null = Null
  Text = {"t"}
  NoEntry = NoEntry
  MaxEntries = 3
  MaxTime = 2
CHECK_DEADLOCK FALSE
INVARIANT TypeOK
INVARIANT ChainIsLinear
INVARIANT NoOrphan
INVARIANT VerdictIsRight
INVARIANT EditIsDetected
PROPERTY LogEnds
