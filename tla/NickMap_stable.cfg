SPECIFICATION FairSpec
CONSTANTS
  Nicks <- OneSpelling
  Keys <- NickKeys
  LowerNick <- FoldOneSpelling
  Users <- MCUsers
  UserKeys <- MCUserKeys
  LowerUser <- FoldUsers
  Ignored = ""
  NoUser = NoUser
  NoNick = NoNick
  NoFile = NoFile
  Garbled = Garbled
  Workers = {w1}
  EditContents <- Edits
  MaxEdits = 1
  MaxCrashes = 1
INVARIANTS ForwardListed Consistent Durable
PROPERTIES EditLoaded
