SPECIFICATION FairNickSpec
CONSTANTS
  BotNick = "bot"
  Names <- MCNames
  NewNick <- MCNewNick
  Guests <- MCGuests
  NickPass = TRUE
  MaxEvents = 2
  MaxDials = 2
INVARIANTS MeFollowed IdentifiedAsItself
PROPERTIES GivesUpOnlyBounced Retakes
CHECK_DEADLOCK FALSE
