CONSTANTS
  c1 = c1
  c2 = c2
  idle1 = idle1
  idle2 = idle2
  main1 = main1
  main2 = main2
  worker = worker
  mutex = mutex
  None = None
  Cpus <- MCCpus
  Threads <- MCThreads
  Idle <- MCIdle
  Main <- MCMain
  Objects = {mutex}
  Terminable = {}
  MaxRecursivityDepth = 2
SPECIFICATION MCFairSpec
INVARIANT MutexInv
PROPERTY HandoverInOrder
PROPERTY UsesScheduler
PROPERTY WaiterAcquires
