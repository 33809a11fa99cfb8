SPECIFICATION FairSpec
CONSTANTS
  c1 = c1
  c2 = c2
  al = al
  Commands = {c1, c2}
  Inviters = {}
  Nicks = {al}
  NickOf <- SameNickOf
  NoChan = NoChan
  NoLine = NoLine
  RequireAuth = TRUE
  MaxVouch = 1
  MaxDrops = 0
  MaxChanges = 0
PROPERTIES LinesDispatched
CHECK_DEADLOCK FALSE
