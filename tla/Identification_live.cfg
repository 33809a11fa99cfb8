SPECIFICATION FairSpec
CONSTANTS
  c1 = c1
  c2 = c2
  al = al
  Commands = {c1}
  Inviters = {c2}
  Nicks = {al}
  NickOf <- SameNickOf
  NoChan = NoChan
  NoLine = NoLine
  RequireAuth = TRUE
  MaxVouch = 1
  MaxDrops = 1
  MaxChanges = 1
PROPERTIES ChecksReturn
CHECK_DEADLOCK FALSE
