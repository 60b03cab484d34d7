CONSTANTS
  c1 = c1
  c2 = c2
  idle1 = idle1
  idle2 = idle2
  main1 = main1
  main2 = main2
  worker = worker
  sync = sync
  None = None
  Cpus <- MCCpus
  Threads <- MCThreads
  Idle <- MCIdle
  Main <- MCMain
  Objects = {sync}
  Terminable = {}
  Clients = {main1, main2}
  EventType <- MCSync
  MaxSignals = 1
  MAX_DWORD = 8
  PAGE_SIZE = 2
  MB_SIZE = 2
  MemoryMaps <- MCMaps
  MinAddresses <- MCMinAddresses
  MaxFrames = 3
  Releasers = {r1, r2}
  HeapSizeMaximum = 30
  HeaderSize = 2
  EntrySize = 2
  TailSize = 1
  DefaultAlignment = 2
  PoolCalls <- MCPoolCalls
SPECIFICATION MCKernelSpec
INVARIANT QueueIsServed
