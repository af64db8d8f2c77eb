CONSTANTS
  t1 = t1
  t2 = t2
  t3 = t3
  acc = acc
  sav = sav
  Clients <- MCTwo
  NConn = 2
  Accts <- MCAccts
  Amounts = {1}
  InitBal <- MCBoth
  Ops = {"withdraw"}
  MaxReq = 2
  MaxFault = 0
SPECIFICATION Spec
INVARIANT AnsweredIsKept
CHECK_DEADLOCK FALSE
