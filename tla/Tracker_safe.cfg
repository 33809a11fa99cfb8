SPECIFICATION Spec
CONSTANTS
  Chans = {c1, c2}
  Names = {"bot", "bot_", "ann"}
  Bot = "bot"
  Reserved = {"bot_"}
  NewNick <- MCNewNick
  MaxLines = 3
  MaxEvents = 4
SYMMETRY Channels
INVARIANTS Consistent FollowsServer
PROPERTIES KeepsPromise
CHECK_DEADLOCK FALSE
