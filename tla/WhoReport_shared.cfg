SPECIFICATION FairSpec
CONSTANTS
  r1 = r1
  r2 = r2
  c1 = c1
  c2 = c2
  Requests = {r1, r2}
  Channels = {c1, c2}
  ChanOf <- OwnChannel
  NumOthers <- Others3and2
  Other = Other
  OldNick = OldNick
  NewNick = NewNick
  NoChan = NoChan
  RateLimit = 2
  MaxDrops = 1
  MaxRenames = 0
PROPERTIES RequestsEnd
CHECK_DEADLOCK FALSE
