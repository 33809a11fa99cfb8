SPECIFICATION FairSpec
CONSTANTS
  Keys = {"recent", "info", "track", "artist", "top"}
  Callers <- MCCallers
  Clients <- MCClients
  Setters = {"setter"}
  Janitor = "janitor"
  Kept = {"track", "top"}
  Titled = {"track"}
  Ttl = 1
  Shards = 1
  Bucket <- MCBucket
  DefaultExpiration = 1
  Width = 2
  Budgets <- MCBudgets
INVARIANTS IdleFileIsWhole StartsUnlessCut ReplyFollowsAnswers
PROPERTIES ReportsEnd AnswersSaved
CHECK_DEADLOCK FALSE
