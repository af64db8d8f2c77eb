CONSTANTS
  t1 = t1
  t2 = t2
  t3 = t3
  acc = acc
  sav = sav
  Clients <- MCThree
  NConn = 2
  Accts <- MCAccts
  Amounts <- MCAmounts
  InitBal <- MCFirst
  Ops = {"query", "open", "deposit", "withdraw", "transfer"}
  MaxReq = 3
  MaxFault = 1
SPECIFICATION Spec
SYMMETRY MCSwap
VIEW MCView
CONSTRAINT MCFew
INVARIANTS IdleTrans TransferWhole RefusedNoTrace DepositKept FirstIsExact
PROPERTIES UnderMutex ImplementsLedger
CHECK_DEADLOCK FALSE
