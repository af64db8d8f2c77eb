CONSTANTS
  ins = ins
  sel = sel
  Drivers = {"mysql", "oracle", "postgresql"}
  Stmts <- MCStmts
  Kinds <- MCKinds
  MaxRow = 2
  MaxFault = 1
  MaxBind = 2
  BufLen = 3
  MaxFile = 10
SPECIFICATION Spec
INVARIANTS TxnExact FetchExact BindExact HandlesLive LobsKept
CHECK_DEADLOCK FALSE
