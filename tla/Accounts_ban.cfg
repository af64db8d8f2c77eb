CONSTANTS
  admin = admin
  ann = ann
  zoe = zoe
  short = short
  good = good
  long = long
  Names <- MCNames
  NameLen <- MCNameLen
  Admin = admin
  Pwds <- MCPwds
  PwdLen <- MCPwdLen
  InitUsers <- MCUsers
  MaxSess = 3
  MaxBan = 2
  MaxText = 1
SPECIFICATION Spec
INVARIANT BanHolds
CHECK_DEADLOCK FALSE
