CONSTANTS
  w1 = w1
  w2 = w2
  Workers <- MCWorkers
  Versions = {"thread.c", "threadPool.c"}
  MaxQueue = 2
  MaxJobs = 3
SPECIFICATION PoolSpec
INVARIANT JobsInOrder
PROPERTY FirstJobRuns
CHECK_DEADLOCK FALSE
