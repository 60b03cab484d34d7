CONSTANTS
  c1 = c1
  c2 = c2
  idle1 = idle1
  idle2 = idle2
  main1 = main1
  main2 = main2
  worker = worker
  sync = sync
  None = None
  Cpus <- MCCpus
  Threads <- MCThreads
  Idle <- MCIdle
  Main <- MCMain
  Objects = {}
  Terminable = {}
  Clients = {main1, main2}
  EventType <- MCNoEventType
  MaxSignals = 0
SPECIFICATION MCSpec
INVARIANT NobodyWaitsForTheDead
