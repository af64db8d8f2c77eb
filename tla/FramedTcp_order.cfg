CONSTANTS
  w1 = w1
  w2 = w2
  Writers <- MCTwo
  HeadLen = 2
  BufLen = 2
  Lens = {0, 2, 3}
  MaxMsg = 3
SPECIFICATION FairSpec
INVARIANTS ReadAligned
PROPERTIES ImplementsChannel Delivered
CHECK_DEADLOCK FALSE
