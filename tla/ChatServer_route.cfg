CONSTANTS
  MaxConn = 2
  MaxTry = 3
  MaxFd = 2
  MaxMsg = 2
  ann = ann
  bob = bob
  NoName = NoName
  Names <- MCNames
  Friends <- MCMutual
  Kinds = {"one", "file", "all"}
SPECIFICATION Spec
SYMMETRY MCSwap
INVARIANTS TypeOK HandoffOrder FdOwnership ReplyToSender SenderOrder OneFate ToReceiver
CHECK_DEADLOCK FALSE
