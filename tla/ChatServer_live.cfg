CONSTANTS
  MaxConn = 2
  MaxTry = 2
  MaxFd = 2
  MaxMsg = 1
  ann = ann
  bob = bob
  NoName = NoName
  Names <- MCNames
  Friends <- MCOneWay
  Kinds = {"one", "add", "exit"}
SPECIFICATION FairSpec
PROPERTIES LeaverForgotten InboxRead
CHECK_DEADLOCK FALSE
