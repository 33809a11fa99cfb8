SPECIFICATION FairSpec
CONSTANTS
  Nodes = {"i001", "iReg", "connected", "talks", "returns", "panics", "background", "edits", "floods", "spare"}
  Home <- MCHome
  Event <- MCEvent
  Body <- MCBody
  Msgs <- MCMsgs
  Characters <- MCCharacters
  SplitLen = 2
  MinSplit = 3
  Limit = 5
  LinePenalty = 1
  CharsPerUnit = 3
  LongIdle = 13
  OutCap = 2
  Scenarios <- MCScenarios
INVARIANTS HandlersInOrder OneEventAtATime HeardAsSaid FloodBounded
PROPERTIES EventsDispatched
CHECK_DEADLOCK FALSE
