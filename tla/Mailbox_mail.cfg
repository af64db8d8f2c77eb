CONSTANTS
  ann = ann
  bob = bob
  nobody = nobody
  longest = longest
  Users <- MCUsers
  Strangers <- MCStrangers
  NameLen <- MCNameLen
  WordLens = {20}
  Kinds = {"one", "add", "del"}
  InitFriends <- MCMutual
  MaxSess = 2
  MaxMsg = 2
  MaxFault = 1
SPECIFICATION FairSpec
VIEW MCView
INVARIANTS SettledMailKept FriendsMutual AgreedAreFriends
PROPERTY MailShown
CHECK_DEADLOCK FALSE
