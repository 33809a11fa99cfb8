SPECIFICATION Spec
CONSTANTS
  c1 = c1
  c2 = c2
  al = al
  Commands = {c1, c2}
  Inviters = {}
  Nicks = {al}
  NickOf <- SameNickOf
  NoChan = NoChan
  NoLine = NoLine
  RequireAuth = TRUE
  MaxVouch = 2
  MaxDrops = 1
  MaxChanges = 1
INVARIANTS CalmNeverWedges CalmAnswers FoundedUnlessRaced GrantsVouched
SYMMETRY SameNickSymmetry
CHECK_DEADLOCK FALSE
