SPECIFICATION FairSpec
CONSTANTS
  Keys = {"k1", "k2"}
  Clients = {"a", "b", "janitor"}
  Janitor = "janitor"
  Shards = 2
  Bucket <- MCBucket
  DefaultExpiration = 1
  Width = 3
  Contents <- MCContents
  Objects <- MCObjects
  Durations <- MCDurations
  Amounts <- MCAmounts
  MaxTime = 2
  MaxCalls = 2
PROPERTIES WalksStable KeepsMap EndsUnlessJammed
CHECK_DEADLOCK FALSE
